----------------------------- MODULE PeopleProofs -----------------------------
(***************************************************************************)
(* Of people, their things, the player's selection and herds:              *)
(*   - nothing is eaten without an eater who is busy with it and holds it, *)
(*     for any number of entities, items, slots and containers;            *)
(*   - what the player has selected is current, for any number of events   *)
(*     and commands in a frame;                                            *)
(*   - herds keep their leaders, and are left only in time;                *)
(*   - every thing is in one place, whether haulers finish or are stopped, *)
(*     for any number of haulers, things, chests and queued updates;       *)
(*   - a stack counts what its entities stand for, and no item is lost.    *)
(***************************************************************************)
EXTENDS Items, Player, Herds, Containers, Stacks, QueueLemmas, Functions, FiniteSetTheorems,
        WellFoundedInduction

Slot == [item : Item \cup {Nothing}, first : BOOLEAN]
Row == [1 .. Slots -> Slot]
Bags == [Bag -> [inside : SUBSET Item, volume : Int]]
Inv == [slots : Row, bag : Bags, moved : SUBSET (Item \X Bag), stuck : BOOLEAN]

Updates == [op : {"pickup", "equip", "eatheld", "graze"}, who : Folk, item : Item]
Events == [what : {"picked", "equipped", "eaten"}, who : Folk, item : Item, ok : BOOLEAN]
Kinds == {"idle", "goequip", "eatheld", "goeat"}
Stages == {"none", "new", "walk", "pickup", "equip", "eat"}
Acting == [kind : Kinds, item : Item \cup {Nothing}, stage : Stages]

ItemTypes ==
    /\ phase \in {"eat", "ai", "act", "end", "panicked"}
    /\ phase = "eat" => todo \subseteq Item
    /\ phase # "eat" => todo \subseteq Folk
    /\ slots \in [Folk -> Row] /\ bag \in Bags
    /\ placed \subseteq Item /\ alive \subseteq Item /\ doomed \subseteq Item
    /\ eaten \in [Item -> [by : Folk \cup {NoOne}, how : {"none", "held", "graze"}]]
    /\ bites \in [Item -> Int]
    /\ act \in [Folk -> Acting] /\ \A f \in Folk : act[f].stage # "none" => act[f].item \in Item
    /\ updates \in Seq(Updates) /\ posted \in Seq(Events) /\ inbox \in [Folk -> Seq(Events)]

-----------------------------------------------------------------------------
(* Where things are *)

\* An overflowing slot belongs to the item before it, and an item is there once.
WellFilled(s) ==
    /\ \A k \in 1 .. Slots : s[k].first => s[k].item # Nothing
    /\ \A k \in 1 .. Slots : s[k].item # Nothing /\ ~s[k].first =>
          k > 1 /\ s[k - 1].item = s[k].item
    /\ \A j, k \in 1 .. Slots : s[j].first /\ s[k].first /\ s[j].item = s[k].item => j = k

\* What is in a container is in no other, and not in a slot.
Separate(s, bs) ==
    /\ \A b \in Bag : Equipped(s) \cap bs[b].inside = {}
    /\ \A b, c \in Bag : b # c => bs[b].inside \cap bs[c].inside = {}

InOnePlace ==
    /\ \A f \in Folk : WellFilled(slots[f]) /\ Separate(slots[f], bag)
    /\ \A f, g \in Folk : f # g => Equipped(slots[f]) \cap Equipped(slots[g]) = {}
    /\ \A f \in Folk : Equipped(slots[f]) \cap placed = {}
    /\ \A b \in Bag : bag[b].inside \cap placed = {}

\* It is nowhere, and will never be anywhere again.
Gone(i) ==
    /\ i \notin placed /\ \A f \in Folk : i \notin Equipped(slots[f])
    /\ \A b \in Bag : i \notin bag[b].inside

-----------------------------------------------------------------------------
(* What is queued and what is heard *)

HearsEquipped(f) == \A e \in Elements(inbox[f]) : e.what = "equipped"

\* Whoever queued an update waits for it, but for one who was told that what it
\* is about to eat is in its hand, and has not heard the rest.
UpdatesAwaited ==
    /\ phase \in {"eat", "ai"} => updates = <<>>
    /\ \A u \in Elements(updates) :
          /\ act[u.who].item = u.item
          /\ u.op = "pickup" => act[u.who].stage = "pickup"
          /\ u.op = "equip" => act[u.who].stage = "equip"
          /\ u.op \in {"eatheld", "graze"} => act[u.who].stage = "eat"
          /\ u.op = "eatheld" => u.item \in Equipped(slots[u.who])
          /\ phase = "act" /\ u.who \in todo => u.op = "eatheld" /\ HearsEquipped(u.who)

InboxesMatch ==
    /\ \A f \in Folk : act[f].stage \in {"none", "new"} => inbox[f] = <<>>
    /\ phase = "act" => \A f \in Folk \ todo : inbox[f] = <<>>
    /\ \A f \in Folk : \A e \in Elements(inbox[f]) : e.item = act[f].item
    /\ \A f \in Folk : act[f].kind = "eatheld" /\ act[f].stage = "equip" => HearsEquipped(f)

\* Whoever equips has the item, and is told so when it is in a slot.
EquipsHeld ==
    /\ \A f \in Folk : act[f].stage = "equip" => InInventory(f, act[f].item)
    /\ \A e \in Elements(posted) : e.what = "equipped" /\ e.ok =>
          /\ e.item \in Equipped(slots[e.who]) \/ Gone(e.item)
          /\ phase = "end" => act[e.who].stage = "equip" /\ act[e.who].item = e.item
    /\ \A f \in Folk : \A e \in Elements(inbox[f]) :
          act[f].stage = "equip" /\ e.what = "equipped" /\ e.ok =>
             act[f].item \in Equipped(slots[f])

\* What is said to be eaten is, and nobody begins to eat it before that is heard.
MealsEnd ==
    /\ \A i \in Item : eaten[i] # NotEaten => eaten[i].by \in Folk
    /\ phase = "eat" => \A i \in todo : eaten[i].by \in Folk /\ i \notin doomed
    /\ \A e \in Elements(posted) : e.what = "eaten" /\ e.ok =>
          e.item \in doomed /\ phase \in {"eat", "ai", "act"}
    /\ \A f \in Folk : \A e \in Elements(inbox[f]) : e.what = "eaten" /\ e.ok =>
          e.item \in doomed \/ (phase \in {"eat", "ai", "act"} /\ eaten[e.item] = NotEaten)

ItemsInv ==
    ItemTypes /\ InOnePlace /\ UpdatesAwaited /\ InboxesMatch /\ EquipsHeld /\ MealsEnd
    /\ MealsAreAttended

-----------------------------------------------------------------------------
(* Natural numbers *)

\* Induction over a set: the library's theorem takes a predicate.
LEMMA NatSetInduction ==
    ASSUME NEW S, 0 \in S, \A n \in Nat : n \in S => n + 1 \in S
    PROVE  Nat \subseteq S
<1> DEFINE R == {r \in Nat \X Nat : r[1] < r[2]}
           T == Nat \ S
<1>1. IsWellFoundedOn(R, Nat)
  BY NatLessThanWellFounded DEF OpToRel
<1>2. SUFFICES ASSUME T # {} PROVE FALSE
  OBVIOUS
<1>3. \E x \in T : \A y \in T : <<y, x>> \notin R
  <2> HIDE DEF T, R
  <2>1. T \subseteq Nat
    BY DEF T
  <2> QED
    BY <1>1, <1>2, <2>1, WFMin, Zenon
<1>4. PICK x \in T : \A y \in T : <<y, x>> \notin R
  BY <1>3
<1>5. x # 0 /\ x - 1 \in Nat
  OBVIOUS
<1>6. <<x - 1, x>> \in R
  BY <1>5
<1>7. x - 1 \in S
  BY <1>4, <1>5, <1>6
<1> QED
  BY <1>5, <1>7

LEMMA LeastNat ==
    ASSUME NEW S \in SUBSET Nat, S # {}
    PROVE  \E k \in S : \A j \in S : k <= j
<1> DEFINE T == {n \in Nat : \A j \in S : n <= j}
<1>1. SUFFICES ASSUME \A k \in S : \E j \in S : ~(k <= j) PROVE FALSE
  OBVIOUS
<1>2. 0 \in T
  OBVIOUS
<1>3. ASSUME NEW n \in Nat, n \in T PROVE n + 1 \in T
  BY <1>1, <1>3
<1>4. Nat \subseteq T
  <2> HIDE DEF T
  <2> QED
    BY <1>2, <1>3, NatSetInduction
<1>5. PICK k \in S : TRUE
  OBVIOUS
<1>6. k + 1 \in T
  BY <1>4
<1> QED
  BY <1>6

-----------------------------------------------------------------------------
(* Rows of slots *)

LEMMA EquippedItems ==
    ASSUME NEW s \in Row, NEW i
    PROVE  i \in Equipped(s) <=> \E k \in 1 .. Slots : s[k].first /\ s[k].item = i
BY DEF Equipped

LEMMA RowOf ==
    ASSUME NEW s \in Row, NEW k \in 1 .. Slots
    PROVE  /\ s[k] \in Slot /\ s[k].item \in Item \cup {Nothing} /\ s[k].first \in BOOLEAN
           /\ s[k].item = Nothing /\ ~s[k].first => s[k] = Empty
BY DEF Row, Slot, Empty

LEMMA SlotKinds ==
    /\ Empty \in Slot /\ Empty.item = Nothing /\ ~Empty.first
    /\ \A i \in Item : /\ Occupied(i) \in Slot /\ Occupied(i).item = i /\ Occupied(i).first
                       /\ Overflow(i) \in Slot /\ Overflow(i).item = i /\ ~Overflow(i).first
BY DEF Empty, Occupied, Overflow, Slot

\* Slots before the first that is held are empty.
LEMMA EmptyBefore ==
    ASSUME NEW s \in Row, WellFilled(s), NEW k \in Nat, k <= Slots,
           \A j \in 1 .. k : ~s[j].first
    PROVE  \A j \in 1 .. k : s[j] = Empty
<1> USE ItemsAssumption DEF ItemsAssumption
<1> DEFINE T == {j \in 1 .. k : s[j].item # Nothing}
<1>1. ASSUME T # {} PROVE FALSE
  <2>1. PICK j \in T : \A n \in T : j <= n
    <3>1. T \in SUBSET Nat
      OBVIOUS
    <3> HIDE DEF T
    <3> QED
      BY <1>1, <3>1, LeastNat
  <2>2. j > 1 /\ s[j - 1].item = s[j].item
    BY DEF WellFilled
  <2>3. j - 1 \in T
    BY <2>2
  <2> QED
    BY <2>1, <2>3
<1>2. ASSUME NEW j \in 1 .. k PROVE s[j] = Empty
  BY <1>1, RowOf
<1> QED
  BY <1>2

LEMMA FirstIsHeld ==
    ASSUME NEW s \in Row, \E k \in 1 .. Slots : s[k].first
    PROVE  /\ FirstHeld(s) \in 1 .. Slots /\ s[FirstHeld(s)].first
           /\ \A j \in 1 .. FirstHeld(s) - 1 : ~s[j].first
<1> USE ItemsAssumption DEF ItemsAssumption
<1> DEFINE T == {k \in 1 .. Slots : s[k].first}
<1>1. PICK k \in T : \A j \in T : k <= j
  <2>1. T \in SUBSET Nat
    OBVIOUS
  <2>2. T # {}
    <3>1. PICK m \in 1 .. Slots : s[m].first
      OBVIOUS
    <3>2. m \in T
      BY <3>1
    <3> HIDE DEF T
    <3> QED
      BY <3>2
  <2> HIDE DEF T
  <2> QED
    BY <2>1, <2>2, LeastNat
<1>2. k \in 1 .. Slots /\ s[k].first /\ \A j \in 1 .. k - 1 : ~s[j].first
  BY <1>1
<1> QED
  BY <1>2 DEF FirstHeld

\* Where there is room, and when there is.
LEMMA RoomFound ==
    ASSUME NEW s, NEW n \in Nat, NEW k \in HaulingSlots(s, n)
    PROVE  k \in 1 .. Slots /\ k + n - 1 <= Slots /\ \A j \in k .. k + n - 1 : s[j] = Empty
<1> USE ItemsAssumption DEF ItemsAssumption
<1> DEFINE T == {m \in 1 .. Slots : m + n - 1 <= Slots /\ \A j \in m .. m + n - 1 : s[j] = Empty}
<1>1. T # {} /\ k = CHOOSE m \in T : \A j \in T : m <= j
  BY DEF HaulingSlots
<1>2. \E m \in T : \A j \in T : m <= j
  <2>1. T \in SUBSET Nat
    OBVIOUS
  <2> HIDE DEF T
  <2> QED
    BY <1>1, <2>1, LeastNat
<1>3. k \in T
  <2> HIDE DEF T
  <2> QED
    BY <1>1, <1>2
<1> QED
  BY <1>3

LEMMA RoomInEmptyRow ==
    ASSUME NEW s, NEW n \in Nat \ {0}, n <= Slots, \A j \in 1 .. Slots : s[j] = Empty
    PROVE  HaulingSlots(s, n) # {}
<1> USE ItemsAssumption DEF ItemsAssumption
<1> DEFINE T == {m \in 1 .. Slots : m + n - 1 <= Slots /\ \A j \in m .. m + n - 1 : s[j] = Empty}
<1>1. 1 \in T
  OBVIOUS
<1>2. HaulingSlots(s, n) = IF T = {} THEN {} ELSE {CHOOSE m \in T : \A j \in T : m <= j}
  BY DEF HaulingSlots
<1> QED
  BY <1>1, <1>2

\* Emptying the first range takes the first item out, and no other.
LEMMA FirstTakenOut ==
    ASSUME NEW s \in Row, WellFilled(s), \E k \in 1 .. Slots : s[k].first
    PROVE  /\ EmptyFirstRange(s) \in Row /\ WellFilled(EmptyFirstRange(s))
           /\ s[FirstHeld(s)].item \in Equipped(s) /\ s[FirstHeld(s)].item \in Item
           /\ Equipped(EmptyFirstRange(s)) = Equipped(s) \ {s[FirstHeld(s)].item}
           /\ \A j \in 1 .. FirstHeld(s) : EmptyFirstRange(s)[j] = Empty
<1> USE ItemsAssumption DEF ItemsAssumption
<1> DEFINE k == FirstHeld(s)
           run == {n \in k .. Slots : \A j \in k + 1 .. n : s[j].item # Nothing /\ ~s[j].first}
           t == EmptyFirstRange(s)
<1>1. /\ k \in 1 .. Slots /\ s[k].first /\ \A j \in 1 .. k - 1 : ~s[j].first
      /\ k \in Nat
  BY FirstIsHeld
<1>2. t = [j \in 1 .. Slots |-> IF j \in run THEN Empty ELSE s[j]]
  BY DEF EmptyFirstRange
<1>3. t \in Row
  BY <1>2, SlotKinds, RowOf DEF Row
<1>4. k \in run /\ \A j \in run : j \in k .. Slots /\ (j # k => ~s[j].first)
  BY <1>1
<1>5. \A j \in 1 .. k - 1 : s[j] = Empty
  <2>1. k - 1 \in Nat /\ k - 1 <= Slots
    BY <1>1
  <2> QED
    BY <1>1, <2>1, EmptyBefore
<1>6. ASSUME NEW j \in 1 .. Slots, j \notin run, j > 1, j - 1 \in run, s[j].item # Nothing
      PROVE  s[j].first
  <2>1. \A m \in k + 1 .. j - 1 : s[m].item # Nothing /\ ~s[m].first
    BY <1>6
  <2>2. j \in k .. Slots
    BY <1>1, <1>4, <1>6
  <2>3. \E m \in k + 1 .. j : ~(s[m].item # Nothing /\ ~s[m].first)
    BY <1>6, <2>2
  <2> QED
    BY <1>6, <2>1, <2>3
<1> HIDE DEF t, run, k
<1>7. WellFilled(t)
  <2>1. ASSUME NEW j \in 1 .. Slots, t[j].first PROVE j \notin run /\ t[j] = s[j]
    BY <1>2, <2>1, SlotKinds
  <2>2. ASSUME NEW j \in 1 .. Slots, t[j].item # Nothing, ~t[j].first
        PROVE  j > 1 /\ t[j - 1].item = t[j].item
    <3>1. j \notin run /\ t[j] = s[j]
      BY <1>2, <2>2, SlotKinds
    <3>2. j > 1 /\ s[j - 1].item = s[j].item
      BY <2>2, <3>1 DEF WellFilled
    <3>3. j - 1 \notin run
      BY <1>6, <2>2, <3>1, <3>2
    <3> QED
      BY <1>2, <3>1, <3>2, <3>3
  <2> QED
    BY <2>1, <2>2 DEF WellFilled
<1>8. s[k].item \in Equipped(s) /\ s[k].item \in Item
  BY <1>1, EquippedItems, RowOf DEF WellFilled
<1>9. Equipped(t) = Equipped(s) \ {s[k].item}
  <2>1. ASSUME NEW i \in Equipped(t) PROVE i \in Equipped(s) /\ i # s[k].item
    <3>1. PICK j \in 1 .. Slots : t[j].first /\ t[j].item = i
      BY <1>3, EquippedItems
    <3>2. j \notin run /\ t[j] = s[j]
      BY <1>2, <3>1, SlotKinds
    <3>3. j # k
      BY <1>4, <3>2
    <3>4. i # s[k].item
      BY <1>1, <3>1, <3>2, <3>3 DEF WellFilled
    <3> QED
      BY <3>1, <3>2, <3>4, EquippedItems
  <2>2. ASSUME NEW i \in Equipped(s), i # s[k].item PROVE i \in Equipped(t)
    <3>1. PICK j \in 1 .. Slots : s[j].first /\ s[j].item = i
      BY EquippedItems
    <3>2. j \notin run
      BY <1>4, <2>2, <3>1
    <3> QED
      BY <1>2, <1>3, <3>1, <3>2, EquippedItems
  <2> QED
    BY <2>1, <2>2
<1>10. \A j \in 1 .. k : t[j] = Empty
  BY <1>1, <1>2, <1>4, <1>5
<1> QED
  BY <1>3, <1>7, <1>8, <1>9, <1>10 DEF t, k

LEMMA ItemRemoved ==
    ASSUME NEW s \in Row, WellFilled(s), NEW i
    PROVE  /\ RemoveItem(s, i) \in Row /\ WellFilled(RemoveItem(s, i))
           /\ Equipped(RemoveItem(s, i)) = Equipped(s) \ {i}
<1> USE ItemsAssumption DEF ItemsAssumption
<1> DEFINE t == RemoveItem(s, i)
<1>1. t = [j \in 1 .. Slots |-> IF s[j].item = i THEN Empty ELSE s[j]]
  BY DEF RemoveItem
<1> HIDE DEF t
<1>2. t \in Row
  BY <1>1, SlotKinds, RowOf DEF Row
<1>3. WellFilled(t)
  <2>1. ASSUME NEW j \in 1 .. Slots, t[j].first PROVE t[j] = s[j]
    BY <1>1, <2>1, SlotKinds
  <2>2. ASSUME NEW j \in 1 .. Slots, t[j].item # Nothing, ~t[j].first
        PROVE  j > 1 /\ t[j - 1].item = t[j].item
    BY <1>1, <2>2, SlotKinds DEF WellFilled
  <2> QED
    BY <2>1, <2>2 DEF WellFilled
<1>4. Equipped(t) = Equipped(s) \ {i}
  <2>1. ASSUME NEW x \in Equipped(t) PROVE x \in Equipped(s) /\ x # i
    <3>1. PICK j \in 1 .. Slots : t[j].first /\ t[j].item = x
      BY <1>2, EquippedItems
    <3> QED
      BY <1>1, <3>1, SlotKinds, EquippedItems
  <2>2. ASSUME NEW x \in Equipped(s), x # i PROVE x \in Equipped(t)
    <3>1. PICK j \in 1 .. Slots : s[j].first /\ s[j].item = x
      BY EquippedItems
    <3> QED
      BY <1>1, <1>2, <2>2, <3>1, EquippedItems
  <2> QED
    BY <2>1, <2>2
<1> QED
  BY <1>2, <1>3, <1>4 DEF t

\* Filling empty slots puts the item in.
LEMMA ItemFilled ==
    ASSUME NEW s \in Row, WellFilled(s), NEW i \in Item, i \notin Equipped(s),
           NEW n \in Nat \ {0}, NEW k \in 1 .. Slots, k + n - 1 <= Slots,
           \A j \in k .. k + n - 1 : s[j] = Empty
    PROVE  /\ Fill(s, k, i, n) \in Row /\ WellFilled(Fill(s, k, i, n))
           /\ Equipped(Fill(s, k, i, n)) = Equipped(s) \cup {i}
<1> USE ItemsAssumption DEF ItemsAssumption
<1> DEFINE t == Fill(s, k, i, n)
           run == k .. k + n - 1
<1>1. t = [j \in 1 .. Slots |-> IF j = k THEN Occupied(i)
                                ELSE IF j \in run THEN Overflow(i) ELSE s[j]]
  BY DEF Fill
<1>2. \A j \in run : s[j] = Empty
  OBVIOUS
<1>3. k \in run /\ \A j \in run : j # k => j - 1 \in run /\ j > 1
  OBVIOUS
<1> HIDE DEF t, run
<1>4. t \in Row
  BY <1>1, SlotKinds, RowOf DEF Row
<1>5. \A j \in 1 .. Slots : /\ j = k => t[j].first /\ t[j].item = i
                            /\ j # k /\ j \in run => ~t[j].first /\ t[j].item = i
                            /\ j \notin run => t[j] = s[j]
  BY <1>1, <1>3, SlotKinds
<1>6. \A j \in 1 .. Slots : t[j].first => j = k \/ (j \notin run /\ t[j] = s[j])
  BY <1>5
<1>7. WellFilled(t)
  <2>1. ASSUME NEW j \in 1 .. Slots, t[j].first PROVE t[j].item # Nothing
    BY <1>5, <1>6, <2>1 DEF WellFilled
  <2>2. ASSUME NEW j \in 1 .. Slots, t[j].item # Nothing, ~t[j].first
        PROVE  j > 1 /\ t[j - 1].item = t[j].item
    <3>1. CASE j \in run
      <4>1. j # k
        BY <1>5, <2>2
      <4>2. j - 1 \in run /\ j > 1 /\ j - 1 \in 1 .. Slots
        BY <1>3, <3>1, <4>1
      <4> QED
        BY <1>5, <3>1, <4>1, <4>2
    <3>2. CASE j \notin run
      <4>1. j > 1 /\ s[j - 1].item = s[j].item /\ t[j] = s[j] /\ j - 1 \in 1 .. Slots
        BY <1>5, <2>2, <3>2 DEF WellFilled
      <4>2. j - 1 \notin run
        BY <1>2, <2>2, <4>1, SlotKinds
      <4> QED
        BY <1>5, <4>1, <4>2
    <3> QED
      BY <3>1, <3>2
  <2>3. ASSUME NEW j \in 1 .. Slots, NEW m \in 1 .. Slots, t[j].first, t[m].first,
               t[j].item = t[m].item
        PROVE  j = m
    <3>1. \A x \in 1 .. Slots : x # k /\ t[x].first => s[x].first /\ t[x] = s[x] /\ s[x].item # i
      BY <1>6, EquippedItems
    <3>2. CASE j = k \/ m = k
      BY <1>5, <2>3, <3>1, <3>2
    <3>3. CASE j # k /\ m # k
      BY <2>3, <3>1, <3>3 DEF WellFilled
    <3> QED
      BY <3>2, <3>3
  <2> QED
    BY <2>1, <2>2, <2>3 DEF WellFilled
<1>8. Equipped(t) = Equipped(s) \cup {i}
  <2>1. ASSUME NEW x \in Equipped(t) PROVE x \in Equipped(s) \cup {i}
    <3>1. PICK j \in 1 .. Slots : t[j].first /\ t[j].item = x
      BY <1>4, EquippedItems
    <3> QED
      BY <1>5, <1>6, <3>1, EquippedItems
  <2>2. ASSUME NEW x \in Equipped(s) PROVE x \in Equipped(t)
    <3>1. PICK j \in 1 .. Slots : s[j].first /\ s[j].item = x
      BY EquippedItems
    <3>2. j \notin run
      BY <1>2, <3>1, SlotKinds
    <3> QED
      BY <1>4, <1>5, <3>1, <3>2, EquippedItems
  <2>3. i \in Equipped(t)
    BY <1>4, <1>5, EquippedItems
  <2> QED
    BY <2>1, <2>2, <2>3
<1> QED
  BY <1>4, <1>7, <1>8 DEF t

-----------------------------------------------------------------------------
(* Making room *)

\* What an inventory is after some of what it held was shifted into containers.
Spaced(inv, r) ==
    /\ r \in Inv /\ WellFilled(r.slots) /\ Separate(r.slots, r.bag)
    /\ Equipped(r.slots) \subseteq Equipped(inv.slots)
    /\ \A b \in Bag : /\ inv.bag[b].inside \subseteq r.bag[b].inside
                      /\ r.bag[b].inside \subseteq inv.bag[b].inside \cup Equipped(inv.slots)
    /\ r.moved = {} => r.slots = inv.slots /\ r.bag = inv.bag

LEMMA ShiftSpaces ==
    ASSUME NEW inv, NEW r, Spaced(inv, r), NEW bags \in Seq(Bag),
           \E k \in 1 .. Slots : r.slots[k].first
    PROVE  /\ Spaced(inv, Shift(r, bags))
           /\ ~Shift(r, bags).stuck =>
                \A j \in 1 .. FirstHeld(r.slots) : Shift(r, bags).slots[j] = Empty
<1> USE ItemsAssumption DEF ItemsAssumption
<1> DEFINE i == r.slots[FirstHeld(r.slots)].item
           fit == {n \in 1 .. Len(bags) : Fits(r.bag[bags[n]], i)}
           k == IF fit # {} THEN Min(fit) ELSE 0
           t == EmptyFirstRange(r.slots)
<1>1. Shift(r, bags) = IF k = 0 THEN [r EXCEPT !.stuck = TRUE]
                       ELSE [r EXCEPT !.slots = EmptyFirstRange(@), !.bag[bags[k]] = PutIn(@, i),
                                      !.moved = @ \cup {<<i, bags[k]>>}]
  BY Zenon DEF Shift, SelectInSeq
<1>2. k = 0 \/ (k # 0 /\ k \in 1 .. Len(bags))
  <2>1. ASSUME fit # {} PROVE Min(fit) \in fit
    <3>1. fit \in SUBSET Nat
      OBVIOUS
    <3> HIDE DEF fit
    <3>2. \E n \in fit : \A m \in fit : n <= m
      BY <2>1, <3>1, LeastNat
    <3> QED
      BY <3>2 DEF Min
  <2> QED
    BY <2>1
<1>3. /\ r \in Inv /\ r.slots \in Row /\ r.bag \in Bags /\ r.moved \in SUBSET (Item \X Bag)
      /\ r.stuck \in BOOLEAN /\ WellFilled(r.slots) /\ Separate(r.slots, r.bag)
  BY DEF Spaced, Inv
<1>4. /\ t \in Row /\ WellFilled(t) /\ i \in Equipped(r.slots) /\ i \in Item
      /\ Equipped(t) = Equipped(r.slots) \ {i}
      /\ \A j \in 1 .. FirstHeld(r.slots) : t[j] = Empty
  BY <1>3, FirstTakenOut
<1> HIDE DEF i, k, t
<1>5. CASE k = 0
  <2>1. Shift(r, bags) = [r EXCEPT !.stuck = TRUE]
    BY <1>1, <1>5
  <2> DEFINE q == [r EXCEPT !.stuck = TRUE]
  <2>2. /\ q \in Inv /\ q.slots = r.slots /\ q.bag = r.bag /\ q.moved = r.moved /\ q.stuck = TRUE
    BY <1>3 DEF Inv
  <2> HIDE DEF q
  <2> QED
    BY <2>1, <2>2 DEF q, Spaced
<1>6. CASE k \in 1 .. Len(bags) /\ k # 0
  <2> DEFINE c == bags[k]
             q == [r EXCEPT !.slots = t, !.bag = [r.bag EXCEPT ![c] = PutIn(@, i)],
                            !.moved = @ \cup {<<i, c>>}]
  <2>1. c \in Bag
    BY <1>6
  <2>2. Shift(r, bags) = q
    BY <1>1, <1>6 DEF t
  <2> HIDE DEF c
  <2>3. /\ r.bag[c].inside \in SUBSET Item /\ r.bag[c].volume \in Int
        /\ PutIn(r.bag[c], i) \in [inside : SUBSET Item, volume : Int]
        /\ PutIn(r.bag[c], i).inside = r.bag[c].inside \cup {i}
    <3>1. r.bag[c] \in [inside : SUBSET Item, volume : Int]
      BY <1>3, <2>1 DEF Bags
    <3>2. Volume[i] \in Int
      BY <1>4
    <3> QED
      BY <1>4, <3>1, <3>2 DEF PutIn
  <2>4. [r.bag EXCEPT ![c] = PutIn(@, i)] \in Bags
    BY <1>3, <2>1, <2>3 DEF Bags
  <2>5. /\ q \in Inv /\ q.slots = t /\ q.bag = [r.bag EXCEPT ![c] = PutIn(@, i)]
        /\ q.moved # {}
    <3> DEFINE bs == [r.bag EXCEPT ![c] = PutIn(@, i)]
               gone == r.moved \cup {<<i, c>>}
    <3>1. bs \in Bags /\ gone \in SUBSET (Item \X Bag) /\ gone # {}
      <4>1. <<i, c>> \in Item \X Bag
        BY <1>4, <2>1
      <4> QED
        BY <1>3, <2>4, <4>1
    <3>2. q = [r EXCEPT !.slots = t, !.bag = bs, !.moved = gone]
      OBVIOUS
    <3> HIDE DEF bs, gone, q
    <3>3. q \in Inv /\ q.slots = t /\ q.bag = bs /\ q.moved = gone
      BY <1>3, <1>4, <3>1, <3>2 DEF Inv
    <3> QED
      BY <3>1, <3>3 DEF bs
  <2>6. /\ q.bag[c].inside = r.bag[c].inside \cup {i}
        /\ \A b \in Bag : b # c => q.bag[b] = r.bag[b]
    BY <1>3, <2>1, <2>3, <2>5 DEF Bags
  <2> HIDE DEF q
  <2>7. Separate(q.slots, q.bag)
    BY <1>3, <1>4, <2>1, <2>5, <2>6 DEF Separate
  <2>8. Spaced(inv, q)
    BY <1>4, <2>1, <2>5, <2>6, <2>7 DEF Spaced
  <2> QED
    BY <1>4, <2>2, <2>5, <2>8
<1> QED
  BY <1>2, <1>5, <1>6

\* The rows that insert_item goes through, one for each turn of its loop.
RoomStep(r, bags, n) ==
    IF r.stuck \/ HaulingSlots(r.slots, n) # {} THEN r ELSE Shift(r, bags)

Rooms(room, inv, bags, n) ==
    room = [k \in 0 .. Slots |-> IF k = 0 THEN inv ELSE RoomStep(room[k - 1], bags, n)]

LEMMA RoomsExist ==
    ASSUME NEW inv, NEW bags, NEW n
    PROVE  \E room : Rooms(room, inv, bags, n)
<1> USE ItemsAssumption DEF ItemsAssumption
<1> DEFINE Goes(m, room) == room = [k \in 0 .. m |-> IF k = 0 THEN inv
                                                    ELSE RoomStep(room[k - 1], bags, n)]
           T == {m \in Nat : \E room : Goes(m, room)}
<1>1. 0 \in T
  <2>1. Goes(0, [k \in 0 .. 0 |-> inv])
    OBVIOUS
  <2> QED
    BY <2>1
<1>2. ASSUME NEW m \in Nat, m \in T PROVE m + 1 \in T
  <2>1. PICK g : Goes(m, g)
    BY <1>2
  <2> DEFINE h == [k \in 0 .. m + 1 |-> IF k = 0 THEN inv ELSE RoomStep(g[k - 1], bags, n)]
  <2>2. \A k \in 0 .. m : g[k] = h[k]
    BY <2>1
  <2>3. ASSUME NEW k \in 0 .. m + 1, k # 0 PROVE h[k - 1] = g[k - 1]
    <3>1. k - 1 \in 0 .. m
      BY <2>3
    <3> HIDE DEF h
    <3> QED
      BY <2>2, <3>1
  <2>4. Goes(m + 1, h)
    BY <2>3
  <2> HIDE DEF h, Goes
  <2> QED
    BY <2>4
<1>3. Nat \subseteq T
  <2> HIDE DEF T
  <2> QED
    BY <1>1, <1>2, NatSetInduction
<1>4. Slots \in T
  BY <1>3
<1>5. PICK room : Goes(Slots, room)
  BY <1>4
<1>6. Rooms(room, inv, bags, n)
  BY <1>5 DEF Rooms
<1> QED
  BY <1>6

LEMMA RoomMade ==
    ASSUME NEW inv \in Inv, Spaced(inv, inv), ~inv.stuck,
           NEW bags \in Seq(Bag), NEW n \in Nat \ {0}, n <= Slots
    PROVE  LET r == MakeRoom(inv, bags, n)
           IN  Spaced(inv, r) /\ (r.stuck \/ HaulingSlots(r.slots, n) # {})
<1> USE ItemsAssumption DEF ItemsAssumption
<1> DEFINE room == CHOOSE g : Rooms(g, inv, bags, n)
<1>1. Rooms(room, inv, bags, n)
  BY RoomsExist
<1>2. MakeRoom(inv, bags, n) = room[Slots]
  BY Zenon DEF MakeRoom, RoomStep, Rooms
<1> HIDE DEF room
<1>3. /\ room[0] = inv
      /\ \A k \in 0 .. Slots : k # 0 => room[k] = RoomStep(room[k - 1], bags, n)
  BY <1>1 DEF Rooms
<1> DEFINE Fine(k) == /\ Spaced(inv, room[k])
                      /\ \/ room[k].stuck \/ HaulingSlots(room[k].slots, n) # {}
                         \/ \A j \in 1 .. k : room[k].slots[j] = Empty
           T == {k \in Nat : k <= Slots => Fine(k)}
<1>4. 0 \in T
  BY <1>3
<1>5. ASSUME NEW k \in Nat, k \in T PROVE k + 1 \in T
  <2> SUFFICES ASSUME k + 1 <= Slots PROVE Fine(k + 1)
    OBVIOUS
  <2>1. Fine(k) /\ room[k + 1] = RoomStep(room[k], bags, n)
    BY <1>3, <1>5
  <2> DEFINE r == room[k]
  <2>2. r \in Inv /\ r.slots \in Row /\ WellFilled(r.slots)
    BY <2>1 DEF Spaced, Inv
  <2>3. CASE r.stuck \/ HaulingSlots(r.slots, n) # {}
    <3>1. room[k + 1] = r
      BY <2>1, <2>3 DEF RoomStep
    <3> QED
      BY <2>1, <2>3, <3>1
  <2>4. CASE ~(r.stuck \/ HaulingSlots(r.slots, n) # {})
    <3>1. room[k + 1] = Shift(r, bags)
      BY <2>1, <2>4 DEF RoomStep
    <3>2. \E m \in 1 .. Slots : r.slots[m].first
      <4>1. SUFFICES ASSUME \A m \in 1 .. Slots : ~r.slots[m].first PROVE FALSE
        OBVIOUS
      <4>2. \A m \in 1 .. Slots : r.slots[m] = Empty
        <5> HIDE DEF r
        <5>1. Slots \in Nat /\ Slots <= Slots
          OBVIOUS
        <5> QED
          BY <2>2, <4>1, <5>1, EmptyBefore
      <4> QED
        BY <2>4, <4>2, RoomInEmptyRow
    <3>3. /\ Spaced(inv, Shift(r, bags))
          /\ ~Shift(r, bags).stuck =>
                \A j \in 1 .. FirstHeld(r.slots) : Shift(r, bags).slots[j] = Empty
      BY <2>1, <3>2, ShiftSpaces
    <3>4. FirstHeld(r.slots) \in 1 .. Slots /\ r.slots[FirstHeld(r.slots)].first
      BY <2>2, <3>2, FirstIsHeld
    <3>5. FirstHeld(r.slots) >= k + 1
      <4>1. \A j \in 1 .. k : ~r.slots[j].first
        BY <2>1, <2>4, SlotKinds
      <4> QED
        BY <3>4, <4>1
    <3>6. Spaced(inv, room[k + 1])
      BY <3>1, <3>3
    <3>7. ~room[k + 1].stuck => \A j \in 1 .. k + 1 : room[k + 1].slots[j] = Empty
      BY <3>1, <3>3, <3>4, <3>5
    <3> QED
      BY <3>6, <3>7
  <2> QED
    BY <2>3, <2>4
<1>6. Nat \subseteq T
  <2> HIDE DEF T
  <2> QED
    BY <1>4, <1>5, NatSetInduction
<1>7. Fine(Slots)
  <2>1. Slots \in T
    <3> HIDE DEF T
    <3> QED
      BY <1>6
  <2> HIDE DEF Fine
  <2> QED
    BY <2>1
<1>8. room[Slots].stuck \/ HaulingSlots(room[Slots].slots, n) # {}
  BY <1>7, RoomInEmptyRow
<1> QED
  BY <1>2, <1>7, <1>8

\* What insert_item makes of an inventory: if it is not stuck the item is in.
Inserted(inv, i, res) ==
    /\ res.slots \in Row /\ WellFilled(res.slots) /\ res.bag \in Bags
    /\ Separate(res.slots, res.bag)
    /\ Equipped(res.slots) \subseteq Equipped(inv.slots) \cup (IF res.stuck THEN {} ELSE {i})
    /\ ~res.stuck => i \in Equipped(res.slots)
    /\ \A b \in Bag : /\ inv.bag[b].inside \subseteq res.bag[b].inside
                      /\ res.bag[b].inside \subseteq inv.bag[b].inside \cup Equipped(inv.slots)
    /\ res.moved = {} => /\ res.bag = inv.bag
                         /\ ~res.stuck => Equipped(res.slots) = Equipped(inv.slots) \cup {i}

LEMMA ItemInserted ==
    ASSUME NEW inv \in Inv, Spaced(inv, inv), ~inv.stuck,
           NEW bags \in Seq(Bag), NEW n \in Nat \ {0}, NEW i \in Item,
           i \notin Equipped(inv.slots), \A b \in Bag : i \notin inv.bag[b].inside
    PROVE  Inserted(inv, i, InsertItem(inv, bags, i, n))
<1> USE ItemsAssumption DEF ItemsAssumption
<1> DEFINE room == MakeRoom(inv, bags, n)
           at == CHOOSE k \in HaulingSlots(room.slots, n) : TRUE
           res == InsertItem(inv, bags, i, n)
<1>1. CASE n > Slots
  <2>1. res = [inv EXCEPT !.stuck = TRUE]
    BY <1>1 DEF InsertItem
  <2>2. res.slots = inv.slots /\ res.bag = inv.bag /\ res.moved = inv.moved /\ res.stuck = TRUE
    BY <2>1 DEF Inv
  <2> HIDE DEF res
  <2>3. Inserted(inv, i, res)
    BY <2>2 DEF Inserted, Spaced, Inv
  <2> QED
    BY <2>3 DEF res
<1>2. CASE n <= Slots
  <2>1. Spaced(inv, room) /\ (room.stuck \/ HaulingSlots(room.slots, n) # {})
    BY <1>2, RoomMade
  <2>2. res = IF room.stuck THEN room
              ELSE [room EXCEPT !.slots = Fill(@, CHOOSE k \in HaulingSlots(@, n) : TRUE, i, n)]
    BY <1>2 DEF InsertItem
  <2> HIDE DEF room, res
  <2>3. CASE room.stuck
    <3>1. res = room
      BY <2>2, <2>3
    <3>2. Inserted(inv, i, room)
      BY <2>1, <2>3 DEF Inserted, Spaced, Inv
    <3> QED
      BY <3>1, <3>2 DEF res
  <2>4. CASE ~room.stuck
    <3>1. res = [room EXCEPT !.slots = Fill(room.slots, at, i, n)]
      BY <2>2, <2>4
    <3>2. /\ res.slots = Fill(room.slots, at, i, n) /\ res.bag = room.bag
          /\ res.moved = room.moved /\ res.stuck = room.stuck
      BY <2>1, <3>1 DEF Spaced, Inv
    <3>3. at \in HaulingSlots(room.slots, n)
      BY <2>1, <2>4
    <3> HIDE DEF at
    <3>4. at \in 1 .. Slots /\ at + n - 1 <= Slots
          /\ \A j \in at .. at + n - 1 : room.slots[j] = Empty
      BY <3>3, RoomFound
    <3>5. /\ room.slots \in Row /\ WellFilled(room.slots) /\ room.bag \in Bags
          /\ i \notin Equipped(room.slots)
      BY <2>1 DEF Spaced, Inv
    <3>6. /\ res.slots \in Row /\ WellFilled(res.slots)
          /\ Equipped(res.slots) = Equipped(room.slots) \cup {i}
      <4> DEFINE s == room.slots
      <4>1. s \in Row /\ WellFilled(s) /\ i \notin Equipped(s) /\ res.slots = Fill(s, at, i, n)
            /\ \A j \in at .. at + n - 1 : s[j] = Empty
        BY <3>2, <3>4, <3>5
      <4> HIDE DEF s
      <4>2. /\ Fill(s, at, i, n) \in Row /\ WellFilled(Fill(s, at, i, n))
            /\ Equipped(Fill(s, at, i, n)) = Equipped(s) \cup {i}
        BY <3>4, <4>1, ItemFilled
      <4> QED
        BY <4>1, <4>2 DEF s
    <3>7. Separate(res.slots, res.bag)
      <4>1. /\ Separate(room.slots, room.bag)
            /\ \A b \in Bag : room.bag[b].inside \subseteq inv.bag[b].inside \cup Equipped(inv.slots)
        BY <2>1 DEF Spaced
      <4>2. \A b \in Bag : i \notin room.bag[b].inside
        BY <4>1
      <4> QED
        BY <3>2, <3>6, <4>1, <4>2 DEF Separate
    <3>8. Inserted(inv, i, res)
      BY <2>1, <2>4, <3>2, <3>5, <3>6, <3>7 DEF Inserted, Spaced
    <3> QED
      BY <3>8 DEF res
  <2> QED
    BY <2>3, <2>4
<1> QED
  BY <1>1, <1>2

-----------------------------------------------------------------------------
(* Steps of the entity f *)

LEMMA EmptyElements ==
    /\ Elements(<<>>) = {} /\ \A S : <<>> \in Seq(S)
BY DEF Elements

\* Who still has its turn queued nothing, but for its meal.
LEMMA NothingQueued ==
    ASSUME UpdatesAwaited, NEW f \in Folk, f \in todo, phase \in {"ai", "act"},
           NEW u \in Elements(updates), u.who = f
    PROVE  /\ phase = "act" /\ act[f].stage = "eat" /\ act[f].item = u.item
           /\ u.op = "eatheld" /\ HearsEquipped(f)
BY EmptyElements DEF UpdatesAwaited

\* f turns to activity a.
Left(f, a, complete) ==
    /\ phase \in {"ai", "act"} /\ f \in todo
    /\ a \in Acting /\ a.stage \in {"none", "new"} /\ (a.stage = "new" => a.item \in Item)
    /\ \A u \in Elements(updates) : u.who # f
    /\ complete /\ act[f].stage = "eat" =>
          act[f].item \in doomed \/ eaten[act[f].item] = NotEaten
    /\ Turn(f, a, complete) /\ todo' = todo \ {f}
    /\ UNCHANGED <<phase, held, bites, alive, doomed, updates, posted>>

LEMMA LeftKeeps ==
    ASSUME ItemsInv, NEW f \in Folk, NEW a, NEW complete, Left(f, a, complete)
    PROVE  ItemsInv'
<1> USE DEF ItemsInv
<1>1. /\ ItemTypes /\ phase \in {"ai", "act"} /\ f \in todo /\ todo' = todo \ {f}
      /\ act' = [act EXCEPT ![f] = a] /\ inbox' = [inbox EXCEPT ![f] = <<>>]
      /\ DropMeal(f, complete) /\ a \in Acting /\ a.stage \in {"none", "new"}
      /\ a.stage = "new" => a.item \in Item
      /\ phase' = phase /\ slots' = slots /\ bag' = bag /\ contained' = contained
      /\ placed' = placed /\ bites' = bites /\ alive' = alive /\ doomed' = doomed
      /\ updates' = updates /\ posted' = posted
  BY DEF Left, Turn, held
<1>2. /\ act \in [Folk -> Acting] /\ inbox \in [Folk -> Seq(Events)]
      /\ eaten \in [Item -> [by : Folk \cup {NoOne}, how : {"none", "held", "graze"}]]
      /\ updates \in Seq(Updates) /\ posted \in Seq(Events)
      /\ \A g \in Folk : act[g].stage # "none" => act[g].item \in Item
      /\ <<>> \in Seq(Events)
  BY DEF ItemTypes
<1>3. /\ act'[f] = a /\ inbox'[f] = <<>> /\ Elements(inbox'[f]) = {}
      /\ \A g \in Folk : g # f => act'[g] = act[g] /\ inbox'[g] = inbox[g]
  BY <1>1, <1>2, EmptyElements
<1>4. /\ act' \in [Folk -> Acting] /\ inbox' \in [Folk -> Seq(Events)]
      /\ \A g \in Folk : act'[g].stage # "none" => act'[g].item \in Item
  BY <1>1, <1>2, <1>3
<1>5. /\ eaten' \in [Item -> [by : Folk \cup {NoOne}, how : {"none", "held", "graze"}]]
      /\ \A i \in Item : eaten'[i] = eaten[i] \/ eaten'[i] = NotEaten
      /\ act[f].stage = "eat" /\ ~complete => eaten'[act[f].item] = NotEaten
      /\ NotEaten.by = NoOne
  BY <1>1, <1>2 DEF DropMeal, NotEaten
<1>6. /\ \A u \in Elements(updates) : u \in Updates /\ u.who \in Folk /\ u.who # f
      /\ \A e \in Elements(posted) : e \in Events /\ e.who \in Folk /\ e.item \in Item
      /\ \A g \in Folk : \A e \in Elements(inbox[g]) : e \in Events /\ e.item \in Item
  <2>1. /\ Elements(updates) \subseteq Updates /\ Elements(posted) \subseteq Events
        /\ \A g \in Folk : inbox[g] \in Seq(Events) /\ Elements(inbox[g]) \subseteq Events
    BY <1>2, ElementsType
  <2>2. \A u \in Updates : u.who \in Folk
    BY DEF Updates
  <2>3. \A e \in Events : e.who \in Folk /\ e.item \in Item
    BY DEF Events
  <2> QED
    BY <2>1, <2>2, <2>3, Zenon DEF Left
<1>7. ItemTypes'
  BY <1>1, <1>2, <1>4, <1>5 DEF ItemTypes
<1>8. InOnePlace'
  BY <1>1 DEF InOnePlace
<1>9. UpdatesAwaited'
  <2>1. ASSUME NEW u \in Elements(updates)
        PROVE  /\ u.who \in Folk /\ act'[u.who] = act[u.who] /\ inbox'[u.who] = inbox[u.who]
               /\ u.who \in todo' <=> u.who \in todo
    BY <1>1, <1>3, <1>6
  <2> QED
    BY <1>1, <2>1 DEF UpdatesAwaited, HearsEquipped
<1>10. InboxesMatch'
  BY <1>1, <1>3 DEF InboxesMatch, HearsEquipped
<1>11. EquipsHeld'
  <2>1. ASSUME NEW g \in Folk, act'[g].stage = "equip" PROVE InInventory(g, act[g].item)' /\ g # f
    BY <1>1, <1>3, <2>1 DEF EquipsHeld, InInventory, BagWith, Equipped
  <2>2. ASSUME NEW e \in Elements(posted'), e.what = "equipped", e.ok
        PROVE  /\ e.item \in Equipped(slots'[e.who]) \/ Gone(e.item)'
               /\ phase' # "end"
    BY <1>1, <2>2 DEF EquipsHeld, Gone, Equipped
  <2>3. ASSUME NEW g \in Folk, NEW e \in Elements(inbox'[g]), act'[g].stage = "equip",
               e.what = "equipped", e.ok
        PROVE  act'[g].item \in Equipped(slots'[g])
    BY <1>1, <1>3, <2>3 DEF EquipsHeld, Equipped
  <2> QED
    BY <2>1, <2>2, <2>3 DEF EquipsHeld
<1>12. MealsEnd'
  BY <1>1, <1>3, <1>5, <1>6 DEF MealsEnd
<1>13. MealsAreAttended'
  <2>1. NoOne \notin Folk
    BY ItemsAssumption DEF ItemsAssumption
  <2>2. ASSUME NEW i \in Item, eaten'[i].by \in Folk, i \notin doomed
        PROVE  eaten[i] = eaten'[i] /\ eaten[i].by # f
    <3>1. eaten[i] = eaten'[i]
      BY <1>5, <2>1, <2>2
    <3>2. ASSUME eaten[i].by = f PROVE FALSE
      <4>1. act[f].stage = "eat" /\ act[f].item = i
        BY <2>2, <3>1, <3>2 DEF MealsAreAttended
      <4>2. eaten[i] # NotEaten
        BY <1>5, <2>1, <3>2
      <4> QED
        BY <1>1, <1>5, <2>2, <3>1, <4>1, <4>2 DEF Left
    <3> QED
      BY <3>1, <3>2
  <2> QED
    BY <1>1, <1>3, <2>2 DEF MealsAreAttended, Equipped
<1> QED
  BY <1>7, <1>8, <1>9, <1>10, <1>11, <1>12, <1>13

\* f goes on to a stage, for which it queues the updates ops, one or none.
Went(f, stage, ops) ==
    /\ phase = "act" /\ f \in todo /\ act[f].stage \in {"new", "walk", "equip"}
    /\ \A u \in Elements(updates) : u.who # f
    /\ stage \in {"walk", "pickup", "equip", "eat"} /\ act' = [act EXCEPT ![f].stage = stage]
    /\ updates' \in Seq(Updates)
    /\ Elements(updates') = Elements(updates) \cup {Update(op, f, act[f].item) : op \in ops}
    /\ \A op \in ops : \/ op = "pickup" /\ stage = "pickup"
                       \/ op = "equip" /\ stage = "equip"
                       \/ op = "eatheld" /\ stage = "eat" /\ act[f].item \in Equipped(slots[f])
                       \/ op = "graze" /\ stage = "eat"
    /\ stage = "equip" => InInventory(f, act[f].item)
    /\ inbox' \in [Folk -> Seq(Events)] /\ \A g \in Folk : g # f => inbox'[g] = inbox[g]
    /\ Elements(inbox'[f]) \subseteq Elements(inbox[f])
    /\ \/ todo' = todo \ {f} /\ inbox'[f] = <<>>
       \/ /\ todo' = todo /\ stage = "eat" /\ \A op \in ops : op = "eatheld"
          /\ \A e \in Elements(inbox'[f]) : e.what = "equipped"
    /\ UNCHANGED <<phase, held, food, posted>>

LEMMA WentKeeps ==
    ASSUME ItemsInv, NEW f \in Folk, NEW stage, NEW ops, Went(f, stage, ops)
    PROVE  ItemsInv'
<1> USE DEF ItemsInv
<1>1. /\ phase = "act" /\ f \in todo /\ act' = [act EXCEPT ![f].stage = stage]
      /\ act[f].stage \in {"new", "walk", "equip"}
      /\ stage \in {"walk", "pickup", "equip", "eat"}
      /\ inbox' \in [Folk -> Seq(Events)] /\ updates' \in Seq(Updates)
      /\ \A g \in Folk : g # f => inbox'[g] = inbox[g]
      /\ todo' \in {todo, todo \ {f}}
      /\ phase' = phase /\ slots' = slots /\ bag' = bag /\ contained' = contained
      /\ placed' = placed /\ bites' = bites /\ alive' = alive /\ doomed' = doomed
      /\ eaten' = eaten /\ posted' = posted
  BY DEF Went, held, food
<1>2. /\ act \in [Folk -> Acting] /\ inbox \in [Folk -> Seq(Events)]
      /\ updates \in Seq(Updates) /\ posted \in Seq(Events)
      /\ \A g \in Folk : act[g].stage # "none" => act[g].item \in Item
  BY DEF ItemTypes
<1>3. act'[f] = [act[f] EXCEPT !.stage = stage]
  BY <1>1, <1>2
<1>4. /\ act'[f].stage = stage /\ act'[f].item = act[f].item /\ act'[f].kind = act[f].kind
      /\ \A g \in Folk : g # f => act'[g] = act[g]
      /\ act' \in [Folk -> Acting] /\ act[f].item \in Item
  <2>1. act[f] \in Acting /\ stage \in Stages
    BY <1>1, <1>2 DEF Stages
  <2>2. /\ act'[f] \in Acting /\ act'[f].stage = stage /\ act'[f].item = act[f].item
        /\ act'[f].kind = act[f].kind
    BY <1>3, <2>1 DEF Acting
  <2> QED
    BY <1>1, <1>2, <2>2
<1>5. /\ \A u \in Elements(updates) : u \in Updates /\ u.who \in Folk /\ u.who # f
      /\ \A e \in Elements(posted) : e \in Events /\ e.who \in Folk /\ e.item \in Item
      /\ \A g \in Folk : \A e \in Elements(inbox[g]) : e \in Events /\ e.item \in Item
      /\ \A e \in Elements(inbox'[f]) : e \in Elements(inbox[f])
  <2>1. /\ Elements(updates) \subseteq Updates /\ Elements(posted) \subseteq Events
        /\ \A g \in Folk : inbox[g] \in Seq(Events) /\ Elements(inbox[g]) \subseteq Events
    BY <1>2, ElementsType
  <2>2. \A u \in Updates : u.who \in Folk
    BY DEF Updates
  <2>3. \A e \in Events : e.who \in Folk /\ e.item \in Item
    BY DEF Events
  <2> QED
    BY <2>1, <2>2, <2>3, Zenon DEF Went
<1>6. \/ todo' = todo \ {f} /\ inbox'[f] = <<>>
      \/ /\ todo' = todo /\ stage = "eat" /\ \A op \in ops : op = "eatheld"
         /\ \A e \in Elements(inbox'[f]) : e.what = "equipped"
  BY DEF Went
<1>7. ItemTypes'
  BY <1>1, <1>2, <1>4 DEF ItemTypes
<1>8. InOnePlace'
  BY <1>1 DEF InOnePlace
<1>9. UpdatesAwaited'
  <2>1. ASSUME NEW u \in Elements(updates)
        PROVE  /\ u.who \in Folk /\ act'[u.who] = act[u.who] /\ inbox'[u.who] = inbox[u.who]
               /\ u.who \in todo' <=> u.who \in todo
    BY <1>1, <1>4, <1>5
  <2>2. ASSUME NEW op \in ops, NEW u, u = Update(op, f, act[f].item)
        PROVE  /\ act'[u.who].item = u.item
               /\ u.op = "pickup" => act'[u.who].stage = "pickup"
               /\ u.op = "equip" => act'[u.who].stage = "equip"
               /\ u.op \in {"eatheld", "graze"} => act'[u.who].stage = "eat"
               /\ u.op = "eatheld" => u.item \in Equipped(slots[u.who])
               /\ u.who \in todo' =>
                     u.op = "eatheld" /\ \A e \in Elements(inbox'[u.who]) : e.what = "equipped"
    <3>1. u.who = f /\ u.item = act[f].item /\ u.op = op
      BY <2>2 DEF Update
    <3>2. \/ op = "pickup" /\ stage = "pickup"
          \/ op = "equip" /\ stage = "equip"
          \/ op = "eatheld" /\ stage = "eat" /\ act[f].item \in Equipped(slots[f])
          \/ op = "graze" /\ stage = "eat"
      BY DEF Went
    <3> QED
      BY <1>1, <1>4, <1>6, <3>1, <3>2
  <2>3. \A u \in Elements(updates') : u \in Elements(updates)
                                      \/ \E op \in ops : u = Update(op, f, act[f].item)
    BY DEF Went
  <2>4. ASSUME NEW u \in Elements(updates')
        PROVE  /\ act'[u.who].item = u.item
               /\ u.op = "pickup" => act'[u.who].stage = "pickup"
               /\ u.op = "equip" => act'[u.who].stage = "equip"
               /\ u.op \in {"eatheld", "graze"} => act'[u.who].stage = "eat"
               /\ u.op = "eatheld" => u.item \in Equipped(slots[u.who])
               /\ u.who \in todo' =>
                     u.op = "eatheld" /\ \A e \in Elements(inbox'[u.who]) : e.what = "equipped"
    <3>1. CASE u \in Elements(updates)
      BY <1>1, <2>1, <3>1 DEF UpdatesAwaited, HearsEquipped
    <3>2. CASE \E op \in ops : u = Update(op, f, act[f].item)
      BY <2>2, <3>2
    <3> QED
      BY <2>3, <3>1, <3>2
  <2> QED
    BY <1>1, <2>4 DEF UpdatesAwaited, HearsEquipped
<1>10. InboxesMatch'
  <2>1. ASSUME NEW g \in Folk, g # f
        PROVE  act'[g] = act[g] /\ inbox'[g] = inbox[g] /\ (g \in todo' <=> g \in todo)
    <3>1. g \in todo' <=> g \in todo
      BY <1>6, <2>1
    <3> QED
      BY <1>1, <1>4, <2>1, <3>1
  <2>2. \A e \in Elements(inbox'[f]) : e.item = act'[f].item
    BY <1>4, <1>5 DEF InboxesMatch
  <2>3. stage = "equip" => \A e \in Elements(inbox'[f]) : e.what = "equipped"
    BY <1>6, EmptyElements
  <2>4. f \notin todo' => inbox'[f] = <<>>
    BY <1>1, <1>6
  <2> QED
    BY <1>1, <1>4, <2>1, <2>2, <2>3, <2>4, Zenon DEF InboxesMatch, HearsEquipped
<1>11. EquipsHeld'
  <2>1. ASSUME NEW g \in Folk, act'[g].stage = "equip" PROVE InInventory(g, act[g].item)'
    <3>1. CASE g = f
      BY <1>1, <1>4, <2>1, <3>1 DEF Went, InInventory, BagWith
    <3>2. CASE g # f
      BY <1>1, <1>4, <2>1, <3>2 DEF EquipsHeld, InInventory, BagWith
    <3> QED
      BY <3>1, <3>2
  <2>2. ASSUME NEW e \in Elements(posted'), e.what = "equipped", e.ok
        PROVE  /\ e.item \in Equipped(slots'[e.who]) \/ Gone(e.item)'
               /\ phase' # "end"
    BY <1>1, <2>2 DEF EquipsHeld, Gone
  <2>3. ASSUME NEW g \in Folk, NEW e \in Elements(inbox'[g]), act'[g].stage = "equip",
               e.what = "equipped", e.ok
        PROVE  act'[g].item \in Equipped(slots'[g])
    BY <1>1, <1>4, <1>6, <2>3, EmptyElements DEF EquipsHeld
  <2> QED
    BY <2>1, <2>2, <2>3 DEF EquipsHeld
<1>12. MealsEnd'
  <2>1. \A g \in Folk : \A e \in Elements(inbox'[g]) : e \in Elements(inbox[g])
    BY <1>1, <1>5
  <2> QED
    BY <1>1, <2>1 DEF MealsEnd
<1>13. MealsAreAttended'
  BY <1>1, <1>4 DEF MealsAreAttended
<1> QED
  BY <1>7, <1>8, <1>9, <1>10, <1>11, <1>12, <1>13

\* f has heard all there is, and waits on.
Waited(f) ==
    /\ phase = "act" /\ f \in todo /\ todo' = todo \ {f}
    /\ inbox' = [inbox EXCEPT ![f] = <<>>]
    /\ UNCHANGED <<phase, held, food, act, updates, posted>>

LEMMA WaitedKeeps ==
    ASSUME ItemsInv, NEW f \in Folk, Waited(f)
    PROVE  ItemsInv'
<1> USE DEF ItemsInv
<1>1. /\ phase = "act" /\ todo' = todo \ {f} /\ inbox' = [inbox EXCEPT ![f] = <<>>]
      /\ phase' = phase /\ slots' = slots /\ bag' = bag /\ contained' = contained
      /\ placed' = placed /\ bites' = bites /\ alive' = alive /\ doomed' = doomed
      /\ eaten' = eaten /\ posted' = posted /\ act' = act /\ updates' = updates
      /\ inbox \in [Folk -> Seq(Events)]
  BY DEF Waited, held, food, ItemTypes
<1>2. /\ inbox' \in [Folk -> Seq(Events)] /\ inbox'[f] = <<>>
      /\ \A g \in Folk : g # f => inbox'[g] = inbox[g]
      /\ \A g \in Folk : \A e \in Elements(inbox'[g]) : e \in Elements(inbox[g])
  BY <1>1, EmptyElements
<1>3. ItemTypes'
  BY <1>1, <1>2 DEF ItemTypes
<1>4. InOnePlace'
  BY <1>1 DEF InOnePlace
<1>5. UpdatesAwaited'
  <2>1. \A u \in Elements(updates) : u.who \in Folk
    <3>1. Elements(updates) \subseteq Updates
      BY ElementsType DEF ItemTypes
    <3> QED
      BY <3>1 DEF Updates
  <2> QED
    BY <1>1, <1>2, <2>1 DEF UpdatesAwaited, HearsEquipped
<1>6. InboxesMatch'
  BY <1>1, <1>2 DEF InboxesMatch, HearsEquipped
<1>7. EquipsHeld'
  BY <1>1, <1>2 DEF EquipsHeld, Gone, InInventory, BagWith
<1>8. MealsEnd'
  BY <1>1, <1>2 DEF MealsEnd
<1>9. MealsAreAttended'
  BY <1>1 DEF MealsAreAttended
<1> QED
  BY <1>3, <1>4, <1>5, <1>6, <1>7, <1>8, <1>9

-----------------------------------------------------------------------------
(* Decisions and activities *)

LEMMA SingleElement ==
    ASSUME NEW S, NEW x \in S
    PROVE  <<x>> \in Seq(S) /\ Elements(<<x>>) = {x}
<1>1. <<x>> \in Seq(S) /\ DOMAIN <<x>> = {1} /\ <<x>>[1] = x
  OBVIOUS
<1> QED
  BY <1>1 DEF Elements

Ops == {"pickup", "equip", "eatheld", "graze"}

LEMMA ProceedQueues ==
    ASSUME ItemTypes, NEW f \in Folk, act[f].item \in Item, NEW stage, NEW queued \in Seq(Ops),
           Proceed(f, stage, queued)
    PROVE  /\ act' = [act EXCEPT ![f].stage = stage] /\ updates' \in Seq(Updates)
           /\ Elements(updates') =
                Elements(updates) \cup {Update(op, f, act[f].item) : op \in Elements(queued)}
<1> DEFINE more == [k \in 1 .. Len(queued) |-> Update(queued[k], f, act[f].item)]
<1>1. act' = [act EXCEPT ![f].stage = stage] /\ updates' = updates \o more
  BY DEF Proceed
<1>2. \A k \in 1 .. Len(queued) : queued[k] \in Ops /\ Update(queued[k], f, act[f].item) \in Updates
  BY DEF Update, Updates, Ops
<1>3. more \in Seq(Updates) /\ DOMAIN more = 1 .. Len(queued)
  BY <1>2
<1>4. Elements(more) = {Update(op, f, act[f].item) : op \in Elements(queued)}
  <2>1. DOMAIN queued = 1 .. Len(queued)
    OBVIOUS
  <2>2. Elements(more) = {more[k] : k \in 1 .. Len(queued)}
    BY <1>3 DEF Elements
  <2>3. Elements(queued) = {queued[k] : k \in 1 .. Len(queued)}
    BY <2>1 DEF Elements
  <2> QED
    BY <2>2, <2>3
<1> HIDE DEF more
<1>5. updates \in Seq(Updates)
  BY DEF ItemTypes
<1> QED
  BY <1>1, <1>3, <1>4, <1>5, ElementsOfConcat

LEMMA DecideKeeps ==
    ASSUME ItemsInv, NEW f \in Folk, Decide(f)
    PROVE  ItemsInv'
<1>1. PICK a \in Decisions(f) : Turn(f, a, FALSE)
  BY DEF Decide
<1>2. a \in Acting /\ a.stage \in {"none", "new"} /\ (a.stage = "new" => a.item \in Item)
  <2>1. /\ Haulable \subseteq Item /\ Edible \subseteq Item /\ Grazes[f] \subseteq Item
    BY ItemsAssumption DEF ItemsAssumption
  <2>2. Idle \in Acting /\ Idle.stage = "none"
    BY DEF Idle, Acting, Kinds, Stages
  <2>3. \A kind \in Kinds, i \in Item : /\ Activity(kind, i) \in Acting
                                        /\ Activity(kind, i).stage = "new"
                                        /\ Activity(kind, i).item = i
    BY DEF Activity, Acting, Kinds, Stages
  <2>4. a = Idle \/ \E kind \in Kinds, i \in Item : a = Activity(kind, i)
    BY <2>1 DEF Decisions, Kinds
  <2> QED
    BY <2>2, <2>3, <2>4
<1>3. \A u \in Elements(updates) : u.who # f
  BY EmptyElements DEF Decide, ItemsInv, UpdatesAwaited
<1>4. Left(f, a, FALSE)
  BY <1>1, <1>2, <1>3 DEF Decide, Left
<1> QED
  BY <1>4, LeftKeeps

\* What AfterEquip does when the item is in a slot.
LEMMA AfterEquipGoes ==
    ASSUME ItemsInv, NEW f \in Folk, Acts(f), act[f].stage \in {"new", "equip"},
           act[f].item \in Equipped(slots[f]), AfterEquip(f),
           UNCHANGED <<phase, held, bites, alive, doomed, posted>>
    PROVE  /\ act[f].kind = "goequip" /\ todo' = todo \ {f} => ItemsInv'
           /\ act[f].kind # "goequip" =>
                /\ act[f].kind = "eatheld"
                /\ act' = [act EXCEPT ![f].stage = "eat"] /\ updates' \in Seq(Updates)
                /\ Elements(updates') = Elements(updates) \cup {Update("eatheld", f, act[f].item)}
                /\ UNCHANGED eaten
<1>1. /\ phase = "act" /\ f \in todo /\ act[f].item \in Item /\ ItemTypes
  BY DEF Acts, ItemsInv, ItemTypes
<1>2. \A u \in Elements(updates) : u.who # f
  BY <1>1, NothingQueued DEF ItemsInv
<1>3. CASE act[f].kind = "goequip" /\ todo' = todo \ {f}
  <2>1. Turn(f, Idle, TRUE) /\ UNCHANGED updates
    BY <1>3 DEF AfterEquip, Finish
  <2>2. Idle \in Acting /\ Idle.stage = "none"
    BY DEF Idle, Acting, Kinds, Stages
  <2>3. Left(f, Idle, TRUE)
    BY <1>1, <1>2, <1>3, <2>1, <2>2 DEF Left
  <2> QED
    BY <1>3, <2>3, LeftKeeps
<1>4. CASE act[f].kind # "goequip"
  <2>1. act[f].kind = "eatheld" /\ Proceed(f, "eat", <<"eatheld">>) /\ UNCHANGED eaten
    BY <1>4 DEF AfterEquip
  <2>2. <<"eatheld">> \in Seq(Ops) /\ Elements(<<"eatheld">>) = {"eatheld"}
    BY SingleElement DEF Ops
  <2>3. {Update("eatheld", f, act[f].item)} =
          {Update(op, f, act[f].item) : op \in {"eatheld"}}
    OBVIOUS
  <2>4. /\ act' = [act EXCEPT ![f].stage = "eat"] /\ updates' \in Seq(Updates)
        /\ Elements(updates') =
             Elements(updates) \cup {Update(op, f, act[f].item) : op \in {"eatheld"}}
    BY <1>1, <2>1, <2>2, ProceedQueues
  <2> QED
    BY <1>4, <2>1, <2>3, <2>4
<1> QED
  BY <1>3, <1>4

LEMMA BeginKeeps ==
    ASSUME ItemsInv, NEW f \in Folk, Begin(f)
    PROVE  ItemsInv'
<1>1. /\ phase = "act" /\ f \in todo /\ act[f].stage = "new" /\ todo' = todo \ {f}
      /\ act[f].item \in Item /\ ItemTypes /\ Acts(f) /\ inbox[f] = <<>>
      /\ inbox \in [Folk -> Seq(Events)]
      /\ UNCHANGED <<phase, held, bites, alive, doomed, posted>>
  BY DEF Begin, Acts, ItemsInv, ItemTypes, InboxesMatch
<1>2. \A u \in Elements(updates) : u.who # f
  BY <1>1, NothingQueued DEF ItemsInv
<1>3. Idle \in Acting /\ Idle.stage = "none"
  BY DEF Idle, Acting, Kinds, Stages
<1>4. CASE Finish(f, FALSE)
  <2>1. Left(f, Idle, FALSE)
    BY <1>1, <1>2, <1>3, <1>4 DEF Left, Finish
  <2> QED
    BY <2>1, LeftKeeps
<1>5. CASE Proceed(f, "walk", <<>>) /\ UNCHANGED <<eaten, inbox>>
  <2>1. <<>> \in Seq(Ops) /\ Elements(<<>>) = {}
    BY EmptyElements
  <2>2. /\ act' = [act EXCEPT ![f].stage = "walk"] /\ updates' \in Seq(Updates)
        /\ Elements(updates') =
             Elements(updates) \cup {Update(op, f, act[f].item) : op \in {}}
    BY <1>1, <1>5, <2>1, ProceedQueues
  <2>3. Went(f, "walk", {})
    BY <1>1, <1>2, <1>5, <2>2 DEF Went, food
  <2> QED
    BY <2>3, WentKeeps
<1>6. CASE /\ Proceed(f, "equip", <<"equip">>) /\ UNCHANGED <<eaten, inbox>>
           /\ InInventory(f, act[f].item)
  <2>1. <<"equip">> \in Seq(Ops) /\ Elements(<<"equip">>) = {"equip"}
    BY SingleElement DEF Ops
  <2>2. /\ act' = [act EXCEPT ![f].stage = "equip"] /\ updates' \in Seq(Updates)
        /\ Elements(updates') =
             Elements(updates) \cup {Update(op, f, act[f].item) : op \in {"equip"}}
    BY <1>1, <1>6, <2>1, ProceedQueues
  <2>3. Went(f, "equip", {"equip"})
    BY <1>1, <1>2, <1>6, <2>2 DEF Went, food
  <2> QED
    BY <2>3, WentKeeps
<1>7. CASE act[f].item \in Equipped(slots[f]) /\ AfterEquip(f) /\ UNCHANGED inbox
  <2>1. CASE act[f].kind = "goequip"
    BY <1>1, <1>7, <2>1, AfterEquipGoes
  <2>2. CASE act[f].kind # "goequip"
    <3>1. /\ act' = [act EXCEPT ![f].stage = "eat"] /\ updates' \in Seq(Updates)
          /\ Elements(updates') = Elements(updates) \cup {Update("eatheld", f, act[f].item)}
          /\ UNCHANGED eaten
      BY <1>1, <1>7, <2>2, AfterEquipGoes
    <3>2. {Update("eatheld", f, act[f].item)} =
            {Update(op, f, act[f].item) : op \in {"eatheld"}}
      OBVIOUS
    <3>3. Went(f, "eat", {"eatheld"})
      BY <1>1, <1>2, <1>7, <3>1, <3>2 DEF Went, food
    <3> QED
      BY <3>3, WentKeeps
  <2> QED
    BY <2>1, <2>2
<1> QED
  BY <1>4, <1>5, <1>6, <1>7 DEF Begin

LEMMA WalkKeeps ==
    ASSUME ItemsInv, NEW f \in Folk, Walk(f)
    PROVE  ItemsInv'
<1>1. /\ phase = "act" /\ f \in todo /\ act[f].stage = "walk" /\ todo' = todo \ {f}
      /\ act[f].item \in Item /\ ItemTypes /\ inbox \in [Folk -> Seq(Events)]
      /\ UNCHANGED <<phase, held, bites, alive, doomed, posted>>
  BY DEF Walk, Acts, ItemsInv, ItemTypes
<1>2. \A u \in Elements(updates) : u.who # f
  BY <1>1, NothingQueued DEF ItemsInv
<1>3. CASE Finish(f, FALSE)
  <2>1. Idle \in Acting /\ Idle.stage = "none"
    BY DEF Idle, Acting, Kinds, Stages
  <2>2. Left(f, Idle, FALSE)
    BY <1>1, <1>2, <1>3, <2>1 DEF Left, Finish
  <2> QED
    BY <2>2, LeftKeeps
<1>4. CASE inbox' = [inbox EXCEPT ![f] = <<>>] /\ UNCHANGED <<act, updates, eaten>>
  <2>1. Waited(f)
    BY <1>1, <1>4 DEF Waited, food
  <2> QED
    BY <2>1, WaitedKeeps
<1>5. ASSUME NEW stage, NEW op, <<stage, op>> \in {<<"pickup", "pickup">>, <<"eat", "graze">>},
             inbox' = [inbox EXCEPT ![f] = <<>>], Proceed(f, stage, <<op>>), UNCHANGED eaten
      PROVE  ItemsInv'
  <2>1. \/ stage = "pickup" /\ op = "pickup"
        \/ stage = "eat" /\ op = "graze"
    BY <1>5
  <2>2. <<op>> \in Seq(Ops) /\ Elements(<<op>>) = {op}
    BY <2>1, SingleElement DEF Ops
  <2>3. /\ act' = [act EXCEPT ![f].stage = stage] /\ updates' \in Seq(Updates)
        /\ Elements(updates') =
             Elements(updates) \cup {Update(o, f, act[f].item) : o \in {op}}
    BY <1>1, <1>5, <2>2, ProceedQueues
  <2>4. /\ inbox' \in [Folk -> Seq(Events)] /\ inbox'[f] = <<>> /\ Elements(inbox'[f]) = {}
        /\ \A g \in Folk : g # f => inbox'[g] = inbox[g]
    BY <1>1, <1>5, EmptyElements
  <2>5. Went(f, stage, {op})
    BY <1>1, <1>2, <1>5, <2>1, <2>3, <2>4 DEF Went, food
  <2> QED
    BY <2>5, WentKeeps
<1>6. CASE /\ inbox' = [inbox EXCEPT ![f] = <<>>] /\ UNCHANGED eaten
           /\ Proceed(f, "pickup", <<"pickup">>)
  BY <1>5, <1>6
<1>7. CASE /\ inbox' = [inbox EXCEPT ![f] = <<>>] /\ UNCHANGED eaten
           /\ Proceed(f, "eat", <<"graze">>)
  BY <1>5, <1>7
<1> QED
  BY <1>3, <1>4, <1>6, <1>7, Zenon DEF Walk

LEMMA HearKeeps ==
    ASSUME ItemsInv, NEW f \in Folk, Hear(f)
    PROVE  ItemsInv'
<1> DEFINE Closes(e) == Answers(f, e) \/ Destructive(f, e)
           ends == {n \in 1 .. Len(inbox[f]) : Closes(inbox[f][n])}
           k == IF ends # {} THEN Min(ends) ELSE 0
           e == inbox[f][k]
           rest == [inbox EXCEPT ![f] = SubSeq(@, k + 1, Len(@))]
<1>1. /\ phase = "act" /\ f \in todo /\ Awaited(act[f]) # {} /\ Acts(f)
      /\ UNCHANGED <<phase, held, bites, alive, doomed, posted>>
      /\ \/ /\ k = 0
            /\ todo' = todo \ {f} /\ inbox' = [inbox EXCEPT ![f] = <<>>]
            /\ UNCHANGED <<act, updates, eaten>>
         \/ /\ k # 0 /\ Answers(f, e) /\ e.ok /\ act[f].stage = "equip"
            /\ act[f].kind = "eatheld"
            /\ inbox' = rest /\ UNCHANGED todo
            /\ AfterEquip(f)
         \/ /\ k # 0
            /\ ~(Answers(f, e) /\ e.ok /\ act[f].stage = "equip" /\ act[f].kind = "eatheld")
            /\ todo' = todo \ {f} /\ Finish(f, Answers(f, e) /\ e.ok)
  BY Zenon DEF Hear, Acts, SelectInSeq
<1>2. k # 0 => k \in 1 .. Len(inbox[f]) /\ Closes(e)
  <2>1. ASSUME ends # {} PROVE Min(ends) \in ends
    <3>1. ends \in SUBSET Nat
      OBVIOUS
    <3> HIDE DEF ends
    <3>2. \E n \in ends : \A m \in ends : n <= m
      BY <2>1, <3>1, LeastNat
    <3> QED
      BY <3>2 DEF Min
  <2> HIDE DEF Closes
  <2> QED
    BY <2>1
<1> HIDE DEF k, Closes, ends
<1>3. /\ act[f].stage \in {"pickup", "equip", "eat"} /\ act[f].item \in Item /\ ItemTypes
      /\ inbox \in [Folk -> Seq(Events)] /\ inbox[f] \in Seq(Events)
  <2>1. act[f].stage \in {"pickup", "equip", "eat"}
    BY <1>1 DEF Awaited
  <2> QED
    BY <2>1 DEF ItemsInv, ItemTypes
<1>4. k # 0 => e \in Elements(inbox[f]) /\ e.item = act[f].item
  BY <1>2, <1>3, ElementsOfSeq DEF ItemsInv, InboxesMatch
\* An update is pending only if nothing that ends a meal was heard.
<1>5. ASSUME k # 0 PROVE \A u \in Elements(updates) : u.who # f
  <2>1. SUFFICES ASSUME NEW u \in Elements(updates), u.who = f PROVE FALSE
    OBVIOUS
  <2>2. act[f].stage = "eat" /\ HearsEquipped(f)
    BY <1>1, <2>1, NothingQueued DEF ItemsInv
  <2>3. e.what = "equipped"
    BY <1>4, <1>5, <2>2 DEF HearsEquipped
  <2>4. ~Answers(f, e) /\ ~Destructive(f, e)
    BY <2>2, <2>3 DEF Answers, Destructive, Awaited
  <2> QED
    BY <1>2, <1>5, <2>4 DEF Closes
<1>6. CASE /\ k = 0
           /\ todo' = todo \ {f} /\ inbox' = [inbox EXCEPT ![f] = <<>>]
           /\ UNCHANGED <<act, updates, eaten>>
  <2>1. Waited(f)
    BY <1>1, <1>6 DEF Waited, food
  <2> QED
    BY <2>1, WaitedKeeps
<1>7. CASE /\ k # 0 /\ Answers(f, e) /\ e.ok /\ act[f].stage = "equip"
           /\ act[f].kind = "eatheld"
           /\ inbox' = rest /\ UNCHANGED todo
           /\ AfterEquip(f)
  <2>1. e.what = "equipped"
    BY <1>7 DEF Answers, Awaited
  <2>2. act[f].item \in Equipped(slots[f])
    BY <1>4, <1>7, <2>1 DEF ItemsInv, EquipsHeld
  <2>3. /\ act' = [act EXCEPT ![f].stage = "eat"] /\ updates' \in Seq(Updates)
        /\ Elements(updates') = Elements(updates) \cup {Update("eatheld", f, act[f].item)}
        /\ UNCHANGED eaten
    BY <1>1, <1>7, <2>2, AfterEquipGoes
  <2>4. {Update("eatheld", f, act[f].item)} =
          {Update(op, f, act[f].item) : op \in {"eatheld"}}
    OBVIOUS
  <2> DEFINE tail == SubSeq(inbox[f], k + 1, Len(inbox[f]))
  <2>5. tail \in Seq(Events) /\ Elements(tail) \subseteq Elements(inbox[f])
    <3>1. k \in Nat /\ k + 1 \in 1 .. Len(inbox[f]) + 1 /\ Len(inbox[f]) \in Nat
      BY <1>2, <1>3, <1>7
    <3>2. /\ tail \in Seq(Events)
          /\ Len(tail) = IF k + 1 <= Len(inbox[f]) THEN Len(inbox[f]) - (k + 1) + 1 ELSE 0
          /\ \A n \in 1 .. Len(inbox[f]) - (k + 1) + 1 : tail[n] = inbox[f][k + 1 + n - 1]
      BY <1>3, <3>1, SubSeqProperties
    <3>3. ASSUME NEW x \in Elements(tail) PROVE x \in Elements(inbox[f])
      <4> HIDE DEF tail
      <4>1. PICK n \in 1 .. Len(tail) : x = tail[n]
        BY <3>2, <3>3, ElementsOfSeq
      <4>2. x = inbox[f][k + n] /\ k + n \in 1 .. Len(inbox[f])
        BY <3>1, <3>2, <4>1
      <4> QED
        BY <1>3, <4>2, ElementsOfSeq
    <3> QED
      BY <3>2, <3>3
  <2>6. /\ inbox' \in [Folk -> Seq(Events)] /\ inbox'[f] = tail
        /\ \A g \in Folk : g # f => inbox'[g] = inbox[g]
    BY <1>3, <1>7, <2>5
  <2> HIDE DEF tail
  <2>7. \A x \in Elements(inbox'[f]) : x.what = "equipped"
    BY <1>7, <2>5, <2>6 DEF ItemsInv, InboxesMatch, HearsEquipped
  <2>8. Went(f, "eat", {"eatheld"})
    BY <1>1, <1>5, <1>7, <2>2, <2>3, <2>4, <2>5, <2>6, <2>7 DEF Went, food
  <2> QED
    BY <2>8, WentKeeps
<1>8. CASE /\ k # 0
           /\ ~(Answers(f, e) /\ e.ok /\ act[f].stage = "equip" /\ act[f].kind = "eatheld")
           /\ todo' = todo \ {f} /\ Finish(f, Answers(f, e) /\ e.ok)
  <2>1. Idle \in Acting /\ Idle.stage = "none"
    BY DEF Idle, Acting, Kinds, Stages
  <2>2. ASSUME Answers(f, e) /\ e.ok, act[f].stage = "eat"
        PROVE  act[f].item \in doomed \/ eaten[act[f].item] = NotEaten
    <3>1. e.what = "eaten"
      BY <2>2 DEF Answers, Awaited
    <3> QED
      BY <1>4, <1>8, <2>2, <3>1 DEF ItemsInv, MealsEnd
  <2>3. Left(f, Idle, Answers(f, e) /\ e.ok)
    BY <1>1, <1>5, <1>8, <2>1, <2>2 DEF Left, Finish
  <2> QED
    BY <2>3, LeftKeeps
<1> QED
  BY <1>1, <1>6, <1>7, <1>8

-----------------------------------------------------------------------------
(* The systems *)

LEMMA InitHolds ==
    ASSUME Init
    PROVE  ItemsInv
<1> USE ItemsAssumption DEF ItemsAssumption
<1> DEFINE row == [k \in 1 .. Slots |-> Empty]
<1>1. /\ phase = "eat" /\ todo = {} /\ slots = [f \in Folk |-> row]
      /\ bag = [b \in Bag |-> [inside |-> {}, volume |-> 0]]
      /\ placed = Item /\ alive = Item /\ doomed = {} /\ eaten = [i \in Item |-> NotEaten]
      /\ bites = [i \in Item |-> Bites] /\ act = [f \in Folk |-> Idle]
      /\ updates = <<>> /\ posted = <<>> /\ inbox = [f \in Folk |-> <<>>]
      /\ Elements(updates) = {} /\ Elements(posted) = {}
      /\ \A f \in Folk : Elements(inbox[f]) = {}
  BY EmptyElements DEF Init
<1>2. row \in Row /\ WellFilled(row) /\ Equipped(row) = {}
  BY SlotKinds DEF Row, WellFilled, Equipped
<1> HIDE DEF row
<1>3. \A f \in Folk : slots[f] = row /\ act[f] = Idle /\ inbox[f] = <<>>
  BY <1>1
<1>4. \A b \in Bag : bag[b].inside = {}
  BY <1>1
<1>5. Idle \in Acting /\ Idle.stage = "none" /\ Idle.kind = "idle"
  BY DEF Idle, Acting, Kinds, Stages
<1>6. ItemTypes
  <2>1. slots \in [Folk -> Row]
    BY <1>1, <1>2
  <2>2. bag \in Bags
    BY <1>1 DEF Bags
  <2>3. eaten \in [Item -> [by : Folk \cup {NoOne}, how : {"none", "held", "graze"}]]
    BY <1>1 DEF NotEaten
  <2>4. bites \in [Item -> Int] /\ act \in [Folk -> Acting]
    BY <1>1, <1>5
  <2>5. updates \in Seq(Updates) /\ posted \in Seq(Events) /\ inbox \in [Folk -> Seq(Events)]
    BY <1>1, EmptyElements
  <2> QED
    BY <1>1, <1>3, <1>5, <2>1, <2>2, <2>3, <2>4, <2>5 DEF ItemTypes
<1>7. InOnePlace
  BY <1>2, <1>3, <1>4 DEF InOnePlace, Separate
<1>8. UpdatesAwaited
  BY <1>1 DEF UpdatesAwaited
<1>9. InboxesMatch
  BY <1>1, <1>3 DEF InboxesMatch, HearsEquipped
<1>10. EquipsHeld
  BY <1>1, <1>3, <1>5 DEF EquipsHeld
<1>11. MealsEnd
  BY <1>1 DEF MealsEnd
<1>12. MealsAreAttended
  BY <1>1 DEF MealsAreAttended, NotEaten
<1> QED
  BY <1>6, <1>7, <1>8, <1>9, <1>10, <1>11, <1>12 DEF ItemsInv

\* The parts of the tick follow each other.
LEMMA PhasesKeep ==
    ASSUME ItemsInv, AllEaten \/ AllDecided \/ Panicked
    PROVE  ItemsInv'
<1> USE DEF ItemsInv
<1>1. /\ phase' = phase \/ (phase = "eat" /\ phase' = "ai") \/ (phase = "ai" /\ phase' = "act")
      /\ phase' \in {"ai", "act", "panicked"}
      /\ phase' = "panicked" => phase = "panicked" /\ todo' = todo
      /\ phase' = "ai" => todo' = Folk
      /\ phase' = "act" => phase = "ai" /\ todo' = {f \in Folk : act[f] # Idle}
      /\ slots' = slots /\ bag' = bag /\ contained' = contained /\ placed' = placed
      /\ bites' = bites /\ alive' = alive /\ doomed' = doomed /\ eaten' = eaten
      /\ posted' = posted /\ act' = act /\ updates' = updates /\ inbox' = inbox
  BY DEF AllEaten, AllDecided, Panicked, held, food, talk, itvars, clock
<1>2. ItemTypes'
  <2>1. todo' \subseteq Folk
    BY <1>1 DEF ItemTypes
  <2> QED
    BY <1>1, <2>1 DEF ItemTypes
<1>3. InOnePlace'
  BY <1>1 DEF InOnePlace
<1>4. UpdatesAwaited'
  BY <1>1, EmptyElements DEF UpdatesAwaited, HearsEquipped
<1>5. InboxesMatch'
  <2>1. phase' = "act" => \A f \in Folk \ todo' : inbox[f] = <<>>
    BY <1>1 DEF InboxesMatch, Idle
  <2> QED
    BY <1>1, <2>1 DEF InboxesMatch, HearsEquipped
<1>6. EquipsHeld'
  BY <1>1 DEF EquipsHeld, Gone, InInventory, BagWith
<1>7. MealsEnd'
  BY <1>1 DEF MealsEnd
<1>8. MealsAreAttended'
  BY <1>1 DEF MealsAreAttended
<1> QED
  BY <1>2, <1>3, <1>4, <1>5, <1>6, <1>7, <1>8

LEMMA StutterKeeps ==
    ASSUME ItemsInv, UNCHANGED itvars
    PROVE  ItemsInv'
<1> USE DEF ItemsInv
<1>1. /\ phase' = phase /\ todo' = todo
      /\ slots' = slots /\ bag' = bag /\ contained' = contained /\ placed' = placed
      /\ bites' = bites /\ alive' = alive /\ doomed' = doomed /\ eaten' = eaten
      /\ posted' = posted /\ act' = act /\ updates' = updates /\ inbox' = inbox
  BY DEF held, food, talk, itvars, clock
<1>2. ItemTypes' /\ InOnePlace' /\ UpdatesAwaited' /\ InboxesMatch'
  BY <1>1 DEF ItemTypes, InOnePlace, UpdatesAwaited, InboxesMatch, HearsEquipped
<1>3. EquipsHeld' /\ MealsEnd' /\ MealsAreAttended'
  BY <1>1 DEF EquipsHeld, Gone, InInventory, BagWith, MealsEnd, MealsAreAttended
<1> QED
  BY <1>2, <1>3

\* What is finished is taken from the hand of who ate it, and is nowhere then.
LEMMA EatKeeps ==
    ASSUME ItemsInv, NEW i \in Item, Eat(i)
    PROVE  ItemsInv'
<1> USE DEF ItemsInv
<1> DEFINE f == eaten[i].by
<1>1. /\ phase = "eat" /\ i \in todo /\ todo' = todo \ {i} /\ phase' = phase
      /\ bites' = [bites EXCEPT ![i] = @ - 1]
      /\ bag' = bag /\ contained' = contained /\ placed' = placed /\ alive' = alive
      /\ eaten' = eaten /\ act' = act /\ updates' = updates /\ inbox' = inbox
      /\ IF bites[i] > 1 THEN slots' = slots /\ doomed' = doomed /\ posted' = posted
         ELSE /\ slots' = IF eaten[i].how = "held"
                          THEN [slots EXCEPT ![f] = RemoveItem(@, i)] ELSE slots
              /\ doomed' = doomed \cup {i}
              /\ posted' = Append(posted, Event("eaten", f, i, TRUE))
  BY DEF Eat
<1>2. /\ f \in Folk /\ i \notin doomed /\ act[f].stage = "eat" /\ act[f].item = i
  BY <1>1 DEF MealsEnd, MealsAreAttended
<1>3. /\ slots \in [Folk -> Row] /\ bag \in Bags /\ posted \in Seq(Events)
      /\ bites \in [Item -> Int] /\ updates = <<>> /\ Elements(updates) = {}
      /\ \A g \in Folk : WellFilled(slots[g]) /\ slots[g] \in Row
  BY <1>1, EmptyElements DEF ItemTypes, UpdatesAwaited, InOnePlace
<1> HIDE DEF f
<1>4. CASE bites[i] > 1
  <2>1. slots' = slots /\ doomed' = doomed /\ posted' = posted
    BY <1>1, <1>4
  <2>2. ItemTypes' /\ InOnePlace'
    BY <1>1, <1>3, <2>1 DEF ItemTypes, InOnePlace
  <2>3. UpdatesAwaited' /\ InboxesMatch'
    BY <1>1, <1>3, <2>1 DEF UpdatesAwaited, InboxesMatch, HearsEquipped
  <2>4. EquipsHeld' /\ MealsEnd' /\ MealsAreAttended'
    BY <1>1, <2>1 DEF EquipsHeld, Gone, InInventory, BagWith, MealsEnd, MealsAreAttended
  <2> QED
    BY <2>2, <2>3, <2>4
<1>5. CASE ~(bites[i] > 1)
  <2> DEFINE ev == Event("eaten", f, i, TRUE)
  <2>1. /\ slots' = IF eaten[i].how = "held"
                    THEN [slots EXCEPT ![f] = RemoveItem(@, i)] ELSE slots
        /\ doomed' = doomed \cup {i} /\ posted' = Append(posted, ev)
    BY <1>1, <1>5
  <2>2. ev \in Events /\ ev.what = "eaten" /\ ev.item = i
    BY <1>2 DEF Event, Events
  <2> HIDE DEF ev
  <2>3. posted' \in Seq(Events) /\ Elements(posted') = Elements(posted) \cup {ev}
    BY <1>3, <2>1, <2>2, ElementsOfAppend
  \* Only f's row may change, and only i may leave it.
  <2>4. /\ slots' \in [Folk -> Row]
        /\ \A g \in Folk : g # f => slots'[g] = slots[g]
        /\ WellFilled(slots'[f])
        /\ \/ slots'[f] = slots[f]
           \/ Equipped(slots'[f]) = Equipped(slots[f]) \ {i}
    <3>1. CASE eaten[i].how = "held"
      <4>1. slots' = [slots EXCEPT ![f] = RemoveItem(slots[f], i)]
        BY <2>1, <3>1
      <4>2. /\ RemoveItem(slots[f], i) \in Row /\ WellFilled(RemoveItem(slots[f], i))
            /\ Equipped(RemoveItem(slots[f], i)) = Equipped(slots[f]) \ {i}
        BY <1>2, <1>3, ItemRemoved
      <4> QED
        BY <1>2, <1>3, <4>1, <4>2
    <3>2. CASE eaten[i].how # "held"
      BY <1>2, <1>3, <2>1, <3>2
    <3> QED
      BY <3>1, <3>2
  <2>5. \A g \in Folk : /\ Equipped(slots'[g]) \subseteq Equipped(slots[g])
                        /\ \A j \in Equipped(slots[g]) : j \in Equipped(slots'[g]) \/ (g = f /\ j = i)
    BY <2>4
  <2>6. ItemTypes'
    BY <1>1, <1>3, <2>1, <2>3, <2>4 DEF ItemTypes
  <2>7. InOnePlace'
    <3>1. \A g \in Folk : WellFilled(slots'[g])
      BY <1>3, <2>4
    <3>2. \A g \in Folk : Separate(slots'[g], bag)
      BY <2>5 DEF InOnePlace, Separate
    <3>3. \A g, h \in Folk : g # h => Equipped(slots'[g]) \cap Equipped(slots'[h]) = {}
      BY <2>5 DEF InOnePlace
    <3>4. \A g \in Folk : Equipped(slots'[g]) \cap placed = {}
      BY <2>5 DEF InOnePlace
    <3> QED
      BY <1>1, <3>1, <3>2, <3>3, <3>4 DEF InOnePlace
  <2>8. UpdatesAwaited'
    BY <1>1, <1>3 DEF UpdatesAwaited
  <2>9. InboxesMatch'
    BY <1>1 DEF InboxesMatch, HearsEquipped
  <2>10. EquipsHeld'
    <3>1. ASSUME NEW g \in Folk, act[g].stage = "equip" PROVE g # f /\ slots'[g] = slots[g]
      BY <1>2, <2>4, <3>1
    <3>2. ASSUME NEW g \in Folk, act[g].stage = "equip" PROVE InInventory(g, act[g].item)'
      BY <1>1, <3>1, <3>2 DEF EquipsHeld, InInventory, BagWith
    <3>3. ASSUME NEW e \in Elements(posted'), e.what = "equipped", e.ok
          PROVE  e.item \in Equipped(slots'[e.who]) \/ Gone(e.item)'
      <4>1. e \in Elements(posted) /\ e.who \in Folk
        <5>1. Elements(posted) \subseteq Events
          BY <1>3, ElementsType
        <5> QED
          BY <2>2, <2>3, <3>3, <5>1 DEF Events
      <4>2. CASE Gone(e.item)
        BY <1>1, <2>5, <4>2 DEF Gone
      <4>3. CASE e.item \in Equipped(slots[e.who]) /\ e.item \notin Equipped(slots'[e.who])
        <5>1. e.who = f /\ e.item = i /\ i \in Equipped(slots[f]) /\ i \notin Equipped(slots'[f])
          BY <2>5, <4>1, <4>3
        <5>2. /\ i \notin placed /\ \A g \in Folk : g # f => i \notin Equipped(slots[g])
              /\ \A b \in Bag : i \notin bag[b].inside
          BY <1>2, <5>1 DEF InOnePlace, Separate
        <5> QED
          BY <1>1, <2>5, <5>1, <5>2 DEF Gone
      <4> QED
        BY <3>3, <4>1, <4>2, <4>3 DEF EquipsHeld
    <3>4. ASSUME NEW g \in Folk, NEW e \in Elements(inbox[g]), act[g].stage = "equip",
                 e.what = "equipped", e.ok
          PROVE  act[g].item \in Equipped(slots'[g])
      BY <3>1, <3>4 DEF EquipsHeld
    <3> QED
      BY <1>1, <3>2, <3>3, <3>4 DEF EquipsHeld
  <2>11. MealsEnd'
    BY <1>1, <2>1, <2>2, <2>3 DEF MealsEnd
  <2>12. MealsAreAttended'
    <3>1. ASSUME NEW j \in Item, eaten[j].by \in Folk, j \notin doomed'
          PROVE  /\ act[eaten[j].by].stage = "eat" /\ act[eaten[j].by].item = j
                 /\ eaten[j].how = "held" => j \in Equipped(slots'[eaten[j].by])
      <4>1. j \notin doomed /\ j # i
        BY <2>1, <3>1
      <4> QED
        BY <2>5, <3>1, <4>1 DEF MealsAreAttended
    <3> QED
      BY <1>1, <3>1 DEF MealsAreAttended
  <2> QED
    BY <2>6, <2>7, <2>8, <2>9, <2>10, <2>11, <2>12
<1> QED
  BY <1>4, <1>5

LEMMA NothingIn ==
    ASSUME NEW S, NEW s \in Seq(S), Elements(s) = {}
    PROVE  s = <<>>
<1>1. Len(s) \in Nat /\ \A n \in 1 .. Len(s) : FALSE
  BY ElementsOfSeq
<1>2. Len(s) = 0
  BY <1>1
<1> QED
  BY <1>2, EmptySeq

LEMMA DeliverKeeps ==
    ASSUME ItemsInv, Deliver
    PROVE  ItemsInv'
<1> USE DEF ItemsInv
<1> DEFINE news(f) == Kept(posted, {e \in ToSet(posted) : Subscribed(act[f], e)})
<1>1. /\ phase = "act" /\ todo = {} /\ phase' = "end" /\ todo' = todo /\ posted' = <<>>
      /\ inbox' = [f \in Folk |-> inbox[f] \o news(f)]
      /\ slots' = slots /\ bag' = bag /\ contained' = contained /\ placed' = placed
      /\ bites' = bites /\ alive' = alive /\ doomed' = doomed /\ eaten' = eaten
      /\ act' = act /\ updates' = updates
  BY DEF Deliver, held, food
<1>2. /\ posted \in Seq(Events) /\ inbox \in [Folk -> Seq(Events)]
      /\ Elements(posted) \subseteq Events /\ Elements(posted') = {}
  BY <1>1, ElementsType, EmptyElements DEF ItemTypes
<1>3. ASSUME NEW f \in Folk
      PROVE  /\ inbox'[f] \in Seq(Events)
             /\ \A e \in Elements(inbox'[f]) : e \in Elements(posted) /\ Subscribed(act[f], e)
  <2>1. inbox[f] = <<>> /\ Elements(inbox[f]) = {} /\ inbox[f] \in Seq(Events)
    BY <1>1, <1>2, EmptyElements DEF InboxesMatch
  <2>2. /\ news(f) \in Seq(Events)
        /\ Elements(news(f)) = Elements(posted) \cap {e \in ToSet(posted) : Subscribed(act[f], e)}
    BY <1>2, KeptElements
  <2>3. inbox'[f] = inbox[f] \o news(f)
    BY <1>1
  <2> HIDE DEF news
  <2>4. inbox'[f] \in Seq(Events) /\ Elements(inbox'[f]) = Elements(news(f))
    BY <2>1, <2>2, <2>3, ElementsOfConcat
  <2> QED
    BY <2>2, <2>4
<1>4. inbox' \in [Folk -> Seq(Events)]
  <2> HIDE DEF news
  <2>1. DOMAIN inbox' = Folk /\ inbox' = [f \in Folk |-> inbox'[f]]
    BY <1>1
  <2> QED
    BY <1>3, <2>1
<1> HIDE DEF news
<1>5. ItemTypes'
  BY <1>1, <1>4, EmptyElements DEF ItemTypes
<1>6. InOnePlace'
  BY <1>1 DEF InOnePlace
<1>7. UpdatesAwaited'
  BY <1>1 DEF UpdatesAwaited
<1>8. InboxesMatch'
  <2>1. ASSUME NEW f \in Folk, act[f].stage \in {"none", "new"} PROVE inbox'[f] = <<>>
    <3>1. Elements(inbox'[f]) = {}
      BY <1>3, <2>1 DEF Subscribed
    <3> QED
      BY <1>3, <3>1, NothingIn
  <2>2. ASSUME NEW f \in Folk, NEW e \in Elements(inbox'[f]) PROVE e.item = act[f].item
    BY <1>3 DEF Subscribed
  <2>3. ASSUME NEW f \in Folk, act[f].kind = "eatheld", act[f].stage = "equip",
               NEW e \in Elements(inbox'[f])
        PROVE  e.what = "equipped"
    BY <1>3, <2>3 DEF Subscribed, Awaited
  <2> QED
    BY <1>1, <2>1, <2>2, <2>3 DEF InboxesMatch, HearsEquipped
<1>9. EquipsHeld'
  <2>1. ASSUME NEW f \in Folk, act[f].stage = "equip" PROVE InInventory(f, act[f].item)'
    BY <1>1, <2>1 DEF EquipsHeld, InInventory, BagWith
  <2>2. ASSUME NEW f \in Folk, NEW e \in Elements(inbox'[f]), act[f].stage = "equip",
               e.what = "equipped", e.ok
        PROVE  act[f].item \in Equipped(slots[f])
    <3>1. e \in Elements(posted) /\ e \in Events /\ e.item = act[f].item /\ e.who \in Folk
      BY <1>2, <1>3 DEF Subscribed, Events
    <3>2. e.item \in Equipped(slots[e.who]) \/ Gone(e.item)
      BY <2>2, <3>1 DEF EquipsHeld
    <3>3. /\ \/ e.item \in Equipped(slots[f])
             \/ \E b \in ToSet(BagsOf[f]) : e.item \in bag[b].inside
          /\ ToSet(BagsOf[f]) \subseteq Bag
      <4>1. BagsOf[f] \in Seq(Bag)
        BY ItemsAssumption DEF ItemsAssumption
      <4>2. ToSet(BagsOf[f]) \subseteq Bag
        BY <4>1 DEF ToSet
      <4> QED
        BY <2>2, <3>1, <4>2 DEF EquipsHeld, InInventory, BagWith
    <3>4. e.item \in Equipped(slots[e.who])
      BY <3>2, <3>3 DEF Gone
    <3>5. e.who = f
      BY <3>1, <3>3, <3>4 DEF InOnePlace, Separate
    <3> QED
      BY <3>1, <3>4, <3>5
  <2> QED
    BY <1>1, <1>2, <2>1, <2>2 DEF EquipsHeld
<1>10. MealsEnd'
  BY <1>1, <1>2, <1>3 DEF MealsEnd
<1>11. MealsAreAttended'
  BY <1>1 DEF MealsAreAttended
<1> QED
  BY <1>5, <1>6, <1>7, <1>8, <1>9, <1>10, <1>11

-----------------------------------------------------------------------------
(* Queued updates *)

LEMMA NextUpdate ==
    ASSUME ItemsInv, NEW op, Runs(op)
    PROVE  /\ phase = "end" /\ updates # <<>> /\ Head(updates) \in Elements(updates)
           /\ Head(updates).op = op /\ Head(updates).who \in Folk /\ Head(updates).item \in Item
           /\ act[Head(updates).who].item = Head(updates).item
           /\ Tail(updates) \in Seq(Updates)
           /\ \A u \in Elements(Tail(updates)) : u \in Elements(updates) /\ u.who \in Folk
<1>1. updates \in Seq(Updates) /\ updates # <<>> /\ phase = "end" /\ Head(updates).op = op
  BY DEF Runs, ItemsInv, ItemTypes
<1>2. /\ Head(updates) \in Elements(updates) /\ Tail(updates) \in Seq(Updates)
      /\ Elements(updates) = {Head(updates)} \cup Elements(Tail(updates))
  BY <1>1, ElementsOfTail
<1>3. Elements(updates) \subseteq Updates
  BY <1>1, ElementsType
<1>4. \A u \in Updates : u.who \in Folk /\ u.item \in Item
  BY DEF Updates
<1>5. act[Head(updates).who].item = Head(updates).item
  BY <1>2 DEF ItemsInv, UpdatesAwaited
<1> QED
  BY <1>1, <1>2, <1>3, <1>4, <1>5

\* What f has changes by a pickup of i or by equipping it, and it is told so.
Moves(f, i, what, ok) ==
    /\ phase = "end" /\ act[f].item = i /\ i \in Item
    /\ \/ what = "picked" /\ act[f].stage = "pickup"
       \/ what = "equipped" /\ act[f].stage = "equip"
    /\ ok \in BOOLEAN
    /\ slots' \in [Folk -> Row] /\ \A g \in Folk : g # f => slots'[g] = slots[g]
    /\ bag' \in Bags /\ placed' \subseteq placed
    /\ InOnePlace'
    /\ \A g \in Folk : g # f => \A b \in ToSet(BagsOf[g]) : bag[b].inside \subseteq bag'[b].inside
    /\ \A j \in Item : Gone(j) => Gone(j)'
    /\ act[f].stage = "equip" => /\ InInventory(f, i)'
                                 /\ ok \/ i \in Equipped(slots[f]) => i \in Equipped(slots'[f])
    /\ posted' = Append(posted, Event(what, f, i, ok))
    /\ updates' \in Seq(Updates)
    /\ \A u \in Elements(updates') : u \in Elements(updates) /\ u.who \in Folk
    /\ UNCHANGED <<clock, food, act, inbox>>

LEMMA MovesKeeps ==
    ASSUME ItemsInv, NEW f \in Folk, NEW i, NEW what, NEW ok, Moves(f, i, what, ok)
    PROVE  ItemsInv'
<1> USE DEF ItemsInv
<1> DEFINE ev == Event(what, f, i, ok)
<1>1. /\ phase = "end" /\ act[f].item = i /\ i \in Item /\ ok \in BOOLEAN
      /\ \/ what = "picked" /\ act[f].stage = "pickup"
         \/ what = "equipped" /\ act[f].stage = "equip"
      /\ slots' \in [Folk -> Row] /\ \A g \in Folk : g # f => slots'[g] = slots[g]
      /\ bag' \in Bags /\ placed' \subseteq placed /\ InOnePlace' /\ updates' \in Seq(Updates)
      /\ phase' = phase /\ todo' = todo /\ act' = act /\ inbox' = inbox
      /\ bites' = bites /\ alive' = alive /\ doomed' = doomed /\ eaten' = eaten
      /\ posted' = Append(posted, ev)
  BY DEF Moves, clock, food
<1>2. /\ ev \in Events /\ ev.what = what /\ ev.who = f /\ ev.item = i /\ ev.ok = ok
  BY <1>1 DEF Event, Events
<1> HIDE DEF ev
<1>3. /\ posted \in Seq(Events) /\ posted' \in Seq(Events)
      /\ Elements(posted') = Elements(posted) \cup {ev}
  BY <1>1, <1>2, ElementsOfAppend DEF ItemTypes
<1>4. \A e \in Elements(posted) : e \in Events /\ e.who \in Folk /\ e.item \in Item
  <2>1. Elements(posted) \subseteq Events
    BY <1>3, ElementsType
  <2> QED
    BY <2>1 DEF Events
<1>5. ItemTypes'
  BY <1>1, <1>3 DEF ItemTypes
<1>6. UpdatesAwaited'
  <2>1. ASSUME NEW u \in Elements(updates')
        PROVE  /\ act[u.who].item = u.item
               /\ u.op = "pickup" => act[u.who].stage = "pickup"
               /\ u.op = "equip" => act[u.who].stage = "equip"
               /\ u.op \in {"eatheld", "graze"} => act[u.who].stage = "eat"
               /\ u.op = "eatheld" => u.item \in Equipped(slots'[u.who])
    <3>1. u \in Elements(updates) /\ u.who \in Folk
      BY DEF Moves
    <3>2. u.op = "eatheld" => u.who # f
      BY <1>1, <3>1 DEF UpdatesAwaited
    <3> QED
      BY <1>1, <3>1, <3>2 DEF UpdatesAwaited
  <2> QED
    BY <1>1, <2>1 DEF UpdatesAwaited
<1>7. InboxesMatch'
  BY <1>1 DEF InboxesMatch, HearsEquipped
<1>8. EquipsHeld'
  <2>1. ASSUME NEW g \in Folk, act[g].stage = "equip" PROVE InInventory(g, act[g].item)'
    <3>1. CASE g = f
      BY <1>1, <2>1, <3>1 DEF Moves, InInventory, BagWith
    <3>2. CASE g # f
      <4>1. InInventory(g, act[g].item) /\ slots'[g] = slots[g]
        BY <1>1, <2>1, <3>2 DEF EquipsHeld
      <4>2. \A b \in ToSet(BagsOf[g]) : bag[b].inside \subseteq bag'[b].inside
        BY <3>2 DEF Moves
      <4> QED
        BY <1>1, <4>1, <4>2 DEF InInventory, BagWith
    <3> QED
      BY <3>1, <3>2
  <2>2. ASSUME NEW e \in Elements(posted'), e.what = "equipped", e.ok
        PROVE  /\ e.item \in Equipped(slots'[e.who]) \/ Gone(e.item)'
               /\ act[e.who].stage = "equip" /\ act[e.who].item = e.item
    <3>1. CASE e = ev
      BY <1>1, <1>2, <2>2, <3>1 DEF Moves
    <3>2. CASE e \in Elements(posted)
      <4>1. /\ e.item \in Equipped(slots[e.who]) \/ Gone(e.item)
            /\ act[e.who].stage = "equip" /\ act[e.who].item = e.item
            /\ e.who \in Folk /\ e.item \in Item
        BY <1>1, <1>4, <2>2, <3>2 DEF EquipsHeld
      <4>2. CASE Gone(e.item)
        BY <4>1, <4>2 DEF Moves
      <4>3. CASE e.item \in Equipped(slots[e.who]) /\ e.who # f
        BY <1>1, <4>1, <4>3
      <4>4. CASE e.item \in Equipped(slots[e.who]) /\ e.who = f
        BY <1>1, <4>1, <4>4 DEF Moves
      <4> QED
        BY <4>1, <4>2, <4>3, <4>4
    <3> QED
      BY <1>3, <3>1, <3>2
  <2>3. ASSUME NEW g \in Folk, NEW e \in Elements(inbox[g]), act[g].stage = "equip",
               e.what = "equipped", e.ok
        PROVE  act[g].item \in Equipped(slots'[g])
    <3>1. act[g].item \in Equipped(slots[g])
      BY <2>3 DEF EquipsHeld
    <3> QED
      BY <1>1, <2>3, <3>1 DEF Moves
  <2> QED
    BY <1>1, <2>1, <2>2, <2>3 DEF EquipsHeld
<1>9. MealsEnd'
  BY <1>1, <1>2, <1>3 DEF MealsEnd
<1>10. MealsAreAttended'
  <2>1. ASSUME NEW j \in Item, eaten[j].by \in Folk, j \notin doomed
        PROVE  eaten[j].by # f
    BY <1>1, <2>1 DEF MealsAreAttended
  <2> QED
    BY <1>1, <2>1 DEF MealsAreAttended
<1> QED
  BY <1>1, <1>5, <1>6, <1>7, <1>8, <1>9, <1>10

LEMMA InventoryFits ==
    ASSUME ItemTypes, InOnePlace, NEW f \in Folk
    PROVE  /\ Inventory(f) \in Inv /\ Inventory(f).slots = slots[f] /\ Inventory(f).bag = bag
           /\ Inventory(f).moved = {} /\ ~Inventory(f).stuck /\ Spaced(Inventory(f), Inventory(f))
<1>1. /\ Inventory(f) \in Inv /\ Inventory(f).slots = slots[f] /\ Inventory(f).bag = bag
      /\ Inventory(f).moved = {} /\ Inventory(f).stuck = FALSE
  BY DEF Inventory, Inv, ItemTypes
<1> QED
  BY <1>1 DEF Spaced, InOnePlace

LEMMA BagsOfFolk ==
    ASSUME NEW f \in Folk
    PROVE  /\ BagsOf[f] \in Seq(Bag) /\ ToSet(BagsOf[f]) \subseteq Bag
           /\ \A g \in Folk : f # g => ToSet(BagsOf[f]) \cap ToSet(BagsOf[g]) = {}
<1>1. BagsOf[f] \in Seq(Bag)
  BY ItemsAssumption DEF ItemsAssumption
<1>2. \A g \in Folk : f # g => ToSet(BagsOf[f]) \cap ToSet(BagsOf[g]) = {}
  BY ItemsAssumption DEF ItemsAssumption
<1>3. ToSet(BagsOf[f]) \subseteq Bag
  BY <1>1 DEF ToSet
<1> QED
  BY <1>1, <1>2, <1>3

LEMMA PickUpKeeps ==
    ASSUME ItemsInv, PickUp
    PROVE  ItemsInv'
<1> DEFINE f == Head(updates).who
           i == Head(updates).item
           inv == InsertItem(Inventory(f), BagsOf[f], i, Hands[i])
           ok == i \in placed /\ ~inv.stuck
<1>1. /\ Runs("pickup")
      /\ IF i \in placed THEN slots' = [slots EXCEPT ![f] = inv.slots] /\ bag' = inv.bag
         ELSE slots' = slots /\ bag' = bag
      /\ placed' \subseteq placed /\ (ok => i \notin placed')
      /\ posted' = Append(posted, Event("picked", f, i, ok))
      /\ updates' = Tail(updates)
      /\ UNCHANGED <<clock, food, act, inbox>>
  <2> DEFINE gone == {i} \cup {m[1] : m \in inv.moved}
  <2>1. placed' = IF ok THEN placed \ gone ELSE placed
    BY Zenon DEF PickUp
  <2>2. i \in gone
    OBVIOUS
  <2>3. placed' \subseteq placed /\ (ok => i \notin placed')
    <3> HIDE DEF gone, ok
    <3> QED
      BY <2>1, <2>2
  <2>4. /\ Runs("pickup")
        /\ IF i \in placed THEN slots' = [slots EXCEPT ![f] = inv.slots] /\ bag' = inv.bag
           ELSE UNCHANGED <<slots, bag>>
        /\ posted' = Append(posted, Event("picked", f, i, ok))
        /\ updates' = Tail(updates)
        /\ UNCHANGED <<clock, food, act, inbox>>
    BY Zenon DEF PickUp, Post
  <2> HIDE DEF inv
  <2> QED
    BY <2>3, <2>4
<1>2. /\ phase = "end" /\ f \in Folk /\ i \in Item /\ act[f].item = i
      /\ act[f].stage = "pickup" /\ Tail(updates) \in Seq(Updates)
      /\ \A u \in Elements(Tail(updates)) : u \in Elements(updates) /\ u.who \in Folk
  <2>1. Head(updates) \in Elements(updates) /\ Head(updates).op = "pickup"
    BY <1>1, NextUpdate
  <2>2. act[f].stage = "pickup"
    BY <2>1 DEF ItemsInv, UpdatesAwaited
  <2> QED
    BY <1>1, <2>2, NextUpdate
<1>3. slots \in [Folk -> Row] /\ bag \in Bags /\ ItemTypes /\ InOnePlace
  BY DEF ItemsInv, ItemTypes
<1>4. ok \in BOOLEAN /\ Hands[i] \in Nat \ {0}
  BY <1>2, ItemsAssumption DEF ItemsAssumption
<1>5. i \in placed => Inserted(Inventory(f), i, inv)
  <2> HIDE DEF f, i
  <2>1. SUFFICES ASSUME i \in placed
                 PROVE  Inserted(Inventory(f), i, InsertItem(Inventory(f), BagsOf[f], i, Hands[i]))
    OBVIOUS
  <2>2. i \notin Equipped(slots[f]) /\ \A b \in Bag : i \notin bag[b].inside
    BY <1>2, <1>3, <2>1 DEF InOnePlace
  <2>3. BagsOf[f] \in Seq(Bag)
    BY <1>2, BagsOfFolk
  <2> QED
    BY <1>2, <1>3, <1>4, <2>2, <2>3, InventoryFits, ItemInserted
<1> HIDE DEF f, i, inv
<1>6. /\ slots' \in [Folk -> Row] /\ \A g \in Folk : g # f => slots'[g] = slots[g]
      /\ WellFilled(slots'[f]) /\ Separate(slots'[f], bag') /\ bag' \in Bags
      /\ \A j \in Equipped(slots'[f]) : j \in Equipped(slots[f]) \/ (j = i /\ ok)
      /\ \A b \in Bag : /\ bag[b].inside \subseteq bag'[b].inside
                        /\ bag'[b].inside \subseteq bag[b].inside \cup Equipped(slots[f])
      /\ \A b, c \in Bag : b # c => bag'[b].inside \cap bag'[c].inside = {}
  <2>1. CASE i \in placed
    <3>1. Inserted(Inventory(f), i, inv) /\ Inventory(f).slots = slots[f] /\ Inventory(f).bag = bag
      BY <1>2, <1>3, <1>5, <2>1, InventoryFits
    <3>2. /\ inv.slots \in Row /\ WellFilled(inv.slots) /\ inv.bag \in Bags
          /\ Separate(inv.slots, inv.bag)
          /\ \A j \in Equipped(inv.slots) : j \in Equipped(slots[f]) \/ (j = i /\ ~inv.stuck)
          /\ \A b \in Bag : /\ bag[b].inside \subseteq inv.bag[b].inside
                            /\ inv.bag[b].inside \subseteq bag[b].inside \cup Equipped(slots[f])
      BY <3>1 DEF Inserted
    <3>3. slots' = [slots EXCEPT ![f] = inv.slots] /\ bag' = inv.bag
      BY <1>1, <2>1
    <3>4. slots'[f] = inv.slots /\ slots' \in [Folk -> Row]
          /\ \A g \in Folk : g # f => slots'[g] = slots[g]
      BY <1>2, <1>3, <3>2, <3>3
    <3> QED
      BY <2>1, <3>2, <3>3, <3>4 DEF Separate
  <2>2. CASE i \notin placed
    BY <1>1, <1>2, <1>3, <2>2 DEF InOnePlace, Separate
  <2> QED
    BY <2>1, <2>2
<1>7. InOnePlace'
  <2>1. ok => /\ i \in placed /\ \A g \in Folk : i \notin Equipped(slots[g])
              /\ \A b \in Bag : i \notin bag[b].inside
    BY <1>3 DEF InOnePlace
  <2> HIDE DEF ok
  <2>2. ASSUME NEW g \in Folk PROVE WellFilled(slots'[g]) /\ Separate(slots'[g], bag')
    <3>1. CASE g # f
      <4>1. slots'[g] = slots[g] /\ WellFilled(slots[g]) /\ Separate(slots[g], bag)
            /\ Equipped(slots[g]) \cap Equipped(slots[f]) = {}
        BY <1>2, <1>3, <1>6, <3>1 DEF InOnePlace
      <4> QED
        BY <1>6, <4>1 DEF Separate
    <3> QED
      BY <1>6, <3>1
  <2>3. \A g \in Folk : \A j \in Equipped(slots'[g]) :
          j \in Equipped(slots[g]) \/ (g = f /\ j = i /\ ok)
    BY <1>6
  <2>4. \A g, h \in Folk : g # h => Equipped(slots'[g]) \cap Equipped(slots'[h]) = {}
    BY <1>3, <2>1, <2>3 DEF InOnePlace
  <2>5. \A g \in Folk : Equipped(slots'[g]) \cap placed' = {}
    BY <1>1, <1>3, <2>3 DEF InOnePlace
  <2>6. \A b \in Bag : bag'[b].inside \cap placed' = {}
    BY <1>1, <1>2, <1>3, <1>6 DEF InOnePlace
  <2> QED
    BY <2>2, <2>4, <2>5, <2>6 DEF InOnePlace
<1>8. \A j \in Item : Gone(j) => Gone(j)'
  <2>1. ASSUME NEW j \in Item, Gone(j) PROVE Gone(j)'
    <3>1. j \notin placed /\ j \notin placed' /\ (ok => j # i)
      BY <1>1, <2>1 DEF Gone
    <3>2. \A g \in Folk : j \notin Equipped(slots'[g])
      BY <1>6, <2>1, <3>1 DEF Gone
    <3>3. \A b \in Bag : j \notin bag'[b].inside
      BY <1>2, <1>6, <2>1 DEF Gone
    <3> QED
      BY <3>1, <3>2, <3>3 DEF Gone
  <2> QED
    BY <2>1
<1>9. \A g \in Folk : \A b \in ToSet(BagsOf[g]) : bag[b].inside \subseteq bag'[b].inside
  BY <1>6, BagsOfFolk
<1> HIDE DEF ok
<1>10. Moves(f, i, "picked", ok)
  BY <1>1, <1>2, <1>4, <1>6, <1>7, <1>8, <1>9 DEF Moves
<1> QED
  BY <1>2, <1>10, MovesKeeps

\* Out of a bag and into a slot: the item stays with f, and so does all it has.
LEMMA EquipKeeps ==
    ASSUME ItemsInv, Equip
    PROVE  ItemsInv'
<1>0. PICK f \in Folk, i \in Item : f = Head(updates).who /\ i = Head(updates).item
  BY NextUpdate DEF Equip
<1> DEFINE from == CHOOSE c \in BagWith(f, i) : TRUE
           out == [Inventory(f) EXCEPT !.bag[from] = TakeOut(@, i)]
           inv == InsertItem(out, BagsOf[f], i, Hands[i])
           equipped == i \in Equipped(slots[f])
           taken == ~equipped /\ BagWith(f, i) # {}
           ok == equipped \/ (taken /\ ~inv.stuck)
<1>1. /\ Runs("equip") /\ UNCHANGED <<todo, food, act, inbox>>
      /\ \/ /\ phase' = "panicked"
            /\ UNCHANGED <<held, posted, updates>>
         \/ /\ taken => inv.moved = {}
            /\ IF taken /\ ~inv.stuck
               THEN slots' = [slots EXCEPT ![f] = inv.slots] /\ bag' = inv.bag
               ELSE UNCHANGED <<slots, bag>>
            /\ placed' = IF ok THEN placed \ {i} ELSE placed
            /\ posted' = Append(posted, Event("equipped", f, i, ok))
            /\ updates' = Tail(updates)
            /\ UNCHANGED phase
  BY <1>0 DEF Equip, Post
<1>2. /\ phase = "end" /\ f \in Folk /\ i \in Item /\ act[f].item = i
      /\ act[f].stage = "equip" /\ Tail(updates) \in Seq(Updates)
      /\ \A u \in Elements(Tail(updates)) : u \in Elements(updates) /\ u.who \in Folk
  <2>1. Head(updates) \in Elements(updates) /\ Head(updates).op = "equip"
    BY <1>1, NextUpdate
  <2>2. act[f].stage = "equip"
    BY <1>0, <2>1 DEF ItemsInv, UpdatesAwaited
  <2> QED
    BY <1>0, <1>1, <2>2, NextUpdate
<1>3. /\ slots \in [Folk -> Row] /\ bag \in Bags /\ ItemTypes /\ InOnePlace
      /\ InInventory(f, i)
  BY <1>2 DEF ItemsInv, ItemTypes, EquipsHeld
<1>4. Hands[i] \in Nat \ {0} /\ Volume[i] \in Int
  BY <1>2, ItemsAssumption DEF ItemsAssumption
<1> HIDE DEF from, out, inv
<1>5. CASE phase' = "panicked" /\ UNCHANGED <<held, posted, updates>>
  <2> USE DEF ItemsInv
  <2>1. /\ phase' = "panicked" /\ todo' = todo
        /\ slots' = slots /\ bag' = bag /\ contained' = contained /\ placed' = placed
        /\ bites' = bites /\ alive' = alive /\ doomed' = doomed /\ eaten' = eaten
        /\ posted' = posted /\ act' = act /\ updates' = updates /\ inbox' = inbox
    BY <1>1, <1>5 DEF held, food
  <2>2. ItemTypes' /\ InOnePlace' /\ UpdatesAwaited' /\ InboxesMatch'
    BY <1>2, <2>1 DEF ItemTypes, InOnePlace, UpdatesAwaited, InboxesMatch, HearsEquipped
  <2>3. EquipsHeld' /\ MealsEnd' /\ MealsAreAttended'
    BY <1>2, <2>1 DEF EquipsHeld, Gone, InInventory, BagWith, MealsEnd, MealsAreAttended
  <2> QED
    BY <2>2, <2>3
<1>6. CASE /\ taken => inv.moved = {}
           /\ IF taken /\ ~inv.stuck
              THEN slots' = [slots EXCEPT ![f] = inv.slots] /\ bag' = inv.bag
              ELSE UNCHANGED <<slots, bag>>
           /\ placed' = IF ok THEN placed \ {i} ELSE placed
           /\ posted' = Append(posted, Event("equipped", f, i, ok))
           /\ updates' = Tail(updates)
           /\ UNCHANGED phase
  <2>1. placed' \subseteq placed /\ ok \in BOOLEAN
    BY <1>6
  <2>2. UNCHANGED <<clock, food, act, inbox>> /\ updates' \in Seq(Updates)
    BY <1>1, <1>2, <1>6 DEF clock
  <2>3. CASE ~(taken /\ ~inv.stuck)
    <3>1. slots' = slots /\ bag' = bag
      BY <1>6, <2>3
    <3>2. InOnePlace'
      BY <1>3, <2>1, <3>1 DEF InOnePlace
    <3>3. \A j \in Item : Gone(j) => Gone(j)'
      BY <2>1, <3>1 DEF Gone
    <3>4. InInventory(f, i)' /\ (ok => i \in Equipped(slots[f]))
      BY <1>2, <1>3, <2>3, <3>1 DEF InInventory, BagWith
    <3>5. Moves(f, i, "equipped", ok)
      BY <1>2, <1>3, <1>6, <2>1, <2>2, <3>1, <3>2, <3>3, <3>4 DEF Moves
    <3> QED
      BY <1>2, <3>5, MovesKeeps
  <2>4. CASE taken /\ ~inv.stuck
    <3>1. ~equipped /\ from \in ToSet(BagsOf[f]) /\ i \in bag[from].inside /\ from \in Bag
      <4>1. from \in BagWith(f, i)
        BY <2>4 DEF from
      <4> QED
        BY <1>2, <2>4, <4>1, BagsOfFolk DEF BagWith
    <3> DEFINE bs == [bag EXCEPT ![from] = TakeOut(@, i)]
    <3>2. /\ bs \in Bags /\ bs[from].inside = bag[from].inside \ {i}
          /\ \A b \in Bag : b # from => bs[b] = bag[b]
      <4>1. bag[from] \in [inside : SUBSET Item, volume : Int]
        BY <1>3, <3>1 DEF Bags
      <4>2. /\ TakeOut(bag[from], i) \in [inside : SUBSET Item, volume : Int]
            /\ TakeOut(bag[from], i).inside = bag[from].inside \ {i}
        BY <1>4, <4>1 DEF TakeOut
      <4> QED
        BY <1>3, <3>1, <4>2 DEF Bags
    <3>3. /\ out \in Inv /\ out.slots = slots[f] /\ out.bag = bs /\ out.moved = {} /\ ~out.stuck
      <4>1. out = [Inventory(f) EXCEPT !.bag = bs]
        BY DEF out, Inventory
      <4> HIDE DEF bs
      <4>2. /\ Inventory(f) \in Inv /\ Inventory(f).slots = slots[f]
            /\ Inventory(f).moved = {} /\ Inventory(f).stuck = FALSE
        BY <1>2, <1>3, InventoryFits DEF Inv
      <4> QED
        BY <3>2, <4>1, <4>2 DEF Inv
    <3> HIDE DEF bs
    <3>4. \A b \in Bag : bs[b].inside = bag[b].inside \ {i}
      BY <1>2, <1>3, <3>1, <3>2 DEF InOnePlace, Separate
    <3>5. /\ WellFilled(slots[f]) /\ Separate(slots[f], bs) /\ Separate(slots[f], bag)
      BY <1>2, <1>3, <3>4 DEF InOnePlace, Separate
    <3>6. Spaced(out, out)
      BY <3>3, <3>5 DEF Spaced
    <3>7. Inserted(out, i, inv)
      <4>1. i \notin Equipped(out.slots) /\ \A b \in Bag : i \notin out.bag[b].inside
        BY <3>1, <3>3, <3>4
      <4>2. BagsOf[f] \in Seq(Bag)
        BY <1>2, BagsOfFolk
      <4> QED
        BY <1>2, <1>4, <3>3, <3>6, <4>1, <4>2, ItemInserted DEF inv
    <3>8. /\ slots' = [slots EXCEPT ![f] = inv.slots] /\ bag' = inv.bag /\ ok
          /\ placed' = placed \ {i}
      BY <1>6, <2>4
    <3>9. /\ inv.slots \in Row /\ WellFilled(inv.slots) /\ inv.bag = bs
          /\ Equipped(inv.slots) = Equipped(slots[f]) \cup {i}
          /\ Separate(inv.slots, inv.bag)
      BY <1>6, <2>4, <3>3, <3>7 DEF Inserted
    <3>10. /\ slots' \in [Folk -> Row] /\ slots'[f] = inv.slots /\ bag' = bs /\ bag' \in Bags
           /\ \A g \in Folk : g # f => slots'[g] = slots[g]
      BY <1>2, <1>3, <3>2, <3>8, <3>9
    <3>11. i \notin placed /\ \A g \in Folk : i \notin Equipped(slots[g])
      BY <1>3, <3>1 DEF InOnePlace, Separate
    <3>12. InOnePlace'
      <4>1. ASSUME NEW g \in Folk PROVE WellFilled(slots'[g]) /\ Separate(slots'[g], bag')
        <5>1. CASE g # f
          BY <1>3, <3>4, <3>10, <5>1 DEF InOnePlace, Separate
        <5>2. CASE g = f
          BY <3>9, <3>10, <5>2
        <5> QED
          BY <5>1, <5>2
      <4>2. \A g \in Folk : \A j \in Equipped(slots'[g]) :
              j \in Equipped(slots[g]) \/ (g = f /\ j = i)
        BY <3>9, <3>10
      <4>3. \A g, h \in Folk : g # h => Equipped(slots'[g]) \cap Equipped(slots'[h]) = {}
        BY <1>3, <3>11, <4>2 DEF InOnePlace
      <4>4. \A g \in Folk : Equipped(slots'[g]) \cap placed' = {}
        BY <1>3, <3>8, <4>2 DEF InOnePlace
      <4>5. \A b \in Bag : bag'[b].inside \cap placed' = {}
        BY <1>3, <3>4, <3>8, <3>10 DEF InOnePlace
      <4> QED
        BY <4>1, <4>3, <4>4, <4>5 DEF InOnePlace
    <3>13. \A j \in Item : Gone(j) => Gone(j)'
      <4>1. ASSUME NEW j \in Item, Gone(j) PROVE Gone(j)'
        <5>1. j # i /\ j \notin placed'
          BY <3>1, <3>8, <4>1 DEF Gone
        <5>2. \A g \in Folk : j \notin Equipped(slots'[g])
          BY <3>9, <3>10, <4>1, <5>1 DEF Gone
        <5>3. \A b \in Bag : j \notin bag'[b].inside
          BY <3>4, <3>10, <4>1 DEF Gone
        <5> QED
          BY <5>1, <5>2, <5>3 DEF Gone
      <4> QED
        BY <4>1
    <3>14. \A g \in Folk : g # f =>
             \A b \in ToSet(BagsOf[g]) : bag[b].inside \subseteq bag'[b].inside
      <4>1. ASSUME NEW g \in Folk, g # f, NEW b \in ToSet(BagsOf[g])
            PROVE  bag'[b] = bag[b]
        <5>1. b \in Bag /\ b # from
          BY <1>2, <3>1, <4>1, BagsOfFolk
        <5> QED
          BY <3>2, <3>10, <5>1
      <4> QED
        BY <4>1
    <3>15. InInventory(f, i)' /\ i \in Equipped(slots'[f])
      BY <3>9, <3>10 DEF InInventory
    <3> HIDE DEF ok
    <3>16. Moves(f, i, "equipped", ok)
      BY <1>2, <1>6, <2>1, <2>2, <3>10, <3>12, <3>13, <3>14, <3>15 DEF Moves
    <3> QED
      BY <1>2, <3>16, MovesKeeps
  <2> QED
    BY <2>3, <2>4
<1> QED
  BY <1>1, <1>5, <1>6

\* A meal begins for an eater who is at it, and who has in its hand what it holds.
Served(f, i, how) ==
    /\ phase = "end" /\ act[f].stage = "eat" /\ act[f].item = i
    /\ how = "graze" \/ (how = "held" /\ i \in Equipped(slots[f]))
    /\ \/ eaten' = [eaten EXCEPT ![i] = [by |-> f, how |-> how]] /\ posted' = posted
       \/ eaten' = eaten /\ posted' = posted
       \/ eaten' = eaten /\ posted' = Append(posted, Event("eaten", f, i, FALSE))
    /\ updates' = Tail(updates)
    /\ UNCHANGED <<clock, held, bites, alive, doomed, act, inbox>>

LEMMA ServedKeeps ==
    ASSUME ItemsInv, NEW f \in Folk, NEW i \in Item, NEW how, Served(f, i, how),
           Tail(updates) \in Seq(Updates),
           \A u \in Elements(Tail(updates)) : u \in Elements(updates) /\ u.who \in Folk
    PROVE  ItemsInv'
<1> USE DEF ItemsInv
<1> DEFINE ev == Event("eaten", f, i, FALSE)
<1>1. /\ phase = "end" /\ act[f].stage = "eat" /\ act[f].item = i
      /\ how = "graze" \/ (how = "held" /\ i \in Equipped(slots[f]))
      /\ \/ eaten' = [eaten EXCEPT ![i] = [by |-> f, how |-> how]] /\ posted' = posted
         \/ eaten' = eaten /\ posted' = posted
         \/ eaten' = eaten /\ posted' = Append(posted, ev)
      /\ phase' = phase /\ todo' = todo /\ act' = act /\ inbox' = inbox
      /\ slots' = slots /\ bag' = bag /\ contained' = contained /\ placed' = placed
      /\ bites' = bites /\ alive' = alive /\ doomed' = doomed /\ updates' = Tail(updates)
  BY DEF Served, clock, held
<1>2. ev \in Events /\ ev.what = "eaten" /\ ~ev.ok
  BY DEF Event, Events
<1> HIDE DEF ev
<1>3. /\ posted \in Seq(Events) /\ posted' \in Seq(Events)
      /\ \A e \in Elements(posted') : e \in Elements(posted) \/ e = ev
  <2>1. posted \in Seq(Events)
    BY DEF ItemTypes
  <2>2. CASE posted' = posted
    BY <2>1, <2>2
  <2>3. CASE posted' = Append(posted, ev)
    <3>1. ev \in Events
      BY <1>2
    <3>2. /\ Append(posted, ev) \in Seq(Events)
          /\ Elements(Append(posted, ev)) = Elements(posted) \cup {ev}
      BY <2>1, <3>1, ElementsOfAppend
    <3>3. posted' \in Seq(Events)
      BY <2>3, <3>2
    <3>4. Elements(posted') = Elements(posted) \cup {ev}
      BY <2>3, <3>2
    <3> QED
      BY <2>1, <3>3, <3>4
  <2> QED
    BY <1>1, <2>2, <2>3
<1>4. /\ eaten' \in [Item -> [by : Folk \cup {NoOne}, how : {"none", "held", "graze"}]]
      /\ \A j \in Item : j # i => eaten'[j] = eaten[j]
      /\ eaten'[i] = eaten[i] \/ eaten'[i] = [by |-> f, how |-> how]
  <2> DEFINE Meal == [by : Folk \cup {NoOne}, how : {"none", "held", "graze"}]
             new == [by |-> f, how |-> how]
  <2>1. eaten \in [Item -> Meal]
    BY DEF ItemTypes
  <2>2. new \in Meal
    <3>1. how \in {"held", "graze"}
      BY <1>1
    <3> QED
      BY <3>1
  <2> HIDE DEF Meal, new
  <2>3. eaten' = [eaten EXCEPT ![i] = new] \/ eaten' = eaten
    BY <1>1 DEF new
  <2>4. /\ eaten' \in [Item -> Meal]
        /\ \A j \in Item : j # i => eaten'[j] = eaten[j]
        /\ eaten'[i] = eaten[i] \/ eaten'[i] = new
    BY <2>1, <2>2, <2>3
  <2> QED
    BY <2>4 DEF Meal, new
<1>5. ItemTypes'
  BY <1>1, <1>3, <1>4 DEF ItemTypes
<1>6. InOnePlace'
  BY <1>1 DEF InOnePlace
<1>7. UpdatesAwaited'
  BY <1>1 DEF UpdatesAwaited
<1>8. InboxesMatch'
  BY <1>1 DEF InboxesMatch, HearsEquipped
<1>9. EquipsHeld'
  BY <1>1, <1>2, <1>3 DEF EquipsHeld, Gone, InInventory, BagWith
<1>10. MealsEnd'
  BY <1>1, <1>2, <1>3, <1>4 DEF MealsEnd
<1>11. MealsAreAttended'
  BY <1>1, <1>4 DEF MealsAreAttended
<1> QED
  BY <1>5, <1>6, <1>7, <1>8, <1>9, <1>10, <1>11

LEMMA BeginEatHeldKeeps ==
    ASSUME ItemsInv, BeginEatHeld
    PROVE  ItemsInv'
<1>1. PICK f \in Folk, i \in Item : f = Head(updates).who /\ i = Head(updates).item
  BY NextUpdate DEF BeginEatHeld
<1>2. /\ phase = "end" /\ act[f].stage = "eat" /\ act[f].item = i /\ i \in Equipped(slots[f])
      /\ Tail(updates) \in Seq(Updates)
      /\ \A u \in Elements(Tail(updates)) : u \in Elements(updates) /\ u.who \in Folk
  <2>1. Runs("eatheld")
    BY DEF BeginEatHeld
  <2>2. /\ Head(updates) \in Elements(updates) /\ Head(updates).op = "eatheld"
        /\ phase = "end" /\ act[f].item = i
    BY <1>1, <2>1, NextUpdate
  <2>3. act[f].stage = "eat" /\ i \in Equipped(slots[f])
    BY <1>1, <2>2 DEF ItemsInv, UpdatesAwaited
  <2> QED
    BY <2>1, <2>2, <2>3, NextUpdate
<1>3. Served(f, i, "held")
  BY <1>1, <1>2 DEF BeginEatHeld, Served, Post
<1> QED
  BY <1>2, <1>3, ServedKeeps

LEMMA BeginGrazeKeeps ==
    ASSUME ItemsInv, BeginGraze
    PROVE  ItemsInv'
<1>1. PICK f \in Folk, i \in Item : f = Head(updates).who /\ i = Head(updates).item
  BY NextUpdate DEF BeginGraze
<1>2. /\ phase = "end" /\ act[f].stage = "eat" /\ act[f].item = i
      /\ Tail(updates) \in Seq(Updates)
      /\ \A u \in Elements(Tail(updates)) : u \in Elements(updates) /\ u.who \in Folk
  <2>1. Runs("graze")
    BY DEF BeginGraze
  <2>2. /\ Head(updates) \in Elements(updates) /\ Head(updates).op = "graze"
        /\ phase = "end" /\ act[f].item = i
    BY <1>1, <2>1, NextUpdate
  <2>3. act[f].stage = "eat"
    BY <1>1, <2>2 DEF ItemsInv, UpdatesAwaited
  <2> QED
    BY <2>1, <2>2, <2>3, NextUpdate
<1>3. Served(f, i, "graze")
  BY <1>1, <1>2 DEF BeginGraze, Served, talk
<1> QED
  BY <1>2, <1>3, ServedKeeps

LEMMA MaintainKeeps ==
    ASSUME ItemsInv, Maintain
    PROVE  ItemsInv'
<1> USE DEF ItemsInv
<1>1. /\ phase = "end" /\ updates = <<>> /\ phase' = "eat"
      /\ alive' = alive \ doomed /\ placed' = placed \ doomed /\ doomed' = {}
      /\ eaten' = [i \in Item |-> IF i \in doomed THEN NotEaten ELSE eaten[i]]
      /\ todo' = {i \in Item : eaten'[i] # NotEaten}
      /\ slots' = slots /\ bag' = bag /\ bites' = bites /\ act' = act /\ updates' = updates
      /\ posted' = posted /\ inbox' = inbox
  BY DEF Maintain, talk
<1>2. /\ NotEaten \in [by : Folk \cup {NoOne}, how : {"none", "held", "graze"}]
      /\ NotEaten.by = NoOne /\ NoOne \notin Folk
  BY ItemsAssumption DEF NotEaten, ItemsAssumption
<1>3. /\ eaten' \in [Item -> [by : Folk \cup {NoOne}, how : {"none", "held", "graze"}]]
      /\ \A i \in Item : IF i \in doomed THEN eaten'[i] = NotEaten ELSE eaten'[i] = eaten[i]
  BY <1>1, <1>2 DEF ItemTypes
<1>4. Elements(updates) = {}
  BY <1>1, EmptyElements
<1>5. ItemTypes'
  BY <1>1, <1>3 DEF ItemTypes
<1>6. InOnePlace'
  BY <1>1 DEF InOnePlace
<1>7. UpdatesAwaited'
  BY <1>1, <1>4 DEF UpdatesAwaited
<1>8. InboxesMatch'
  BY <1>1 DEF InboxesMatch, HearsEquipped
<1>9. EquipsHeld'
  <2>1. \A i \in Item : Gone(i) => Gone(i)'
    BY <1>1 DEF Gone
  <2>2. \A e \in Elements(posted) : e.item \in Item
    <3>1. Elements(posted) \subseteq Events
      BY ElementsType DEF ItemTypes
    <3> QED
      BY <3>1 DEF Events
  <2> QED
    BY <1>1, <2>1, <2>2 DEF EquipsHeld, InInventory, BagWith
<1>10. MealsEnd'
  <2>1. ASSUME NEW i \in Item, eaten'[i] # NotEaten PROVE eaten'[i].by \in Folk
    <3>1. i \notin doomed /\ eaten'[i] = eaten[i]
      BY <1>3, <2>1
    <3> QED
      BY <2>1, <3>1 DEF MealsEnd
  <2>2. ASSUME NEW e \in Elements(posted), e.what = "eaten", e.ok PROVE FALSE
    BY <1>1, <2>2 DEF MealsEnd
  <2>3. ASSUME NEW f \in Folk, NEW e \in Elements(inbox[f]), e.what = "eaten", e.ok
        PROVE  eaten'[e.item] = NotEaten
    <3>1. e.item \in doomed /\ e.item \in Item
      BY <1>1, <2>3 DEF MealsEnd, ItemTypes
    <3> QED
      BY <1>3, <3>1
  <2> QED
    BY <1>1, <2>1, <2>2, <2>3 DEF MealsEnd
<1>11. MealsAreAttended'
  BY <1>1, <1>2, <1>3 DEF MealsAreAttended
<1> QED
  BY <1>5, <1>6, <1>7, <1>8, <1>9, <1>10, <1>11

-----------------------------------------------------------------------------
(* Theorems *)

\* Each part of the invariant needs the others, and together every step keeps them.
THEOREM ItemsInvariant == ItemsSpec => []ItemsInv
<1>1. Init => ItemsInv
  BY InitHolds
<1>2. ItemsInv /\ [Next]_itvars => ItemsInv'
  <2> SUFFICES ASSUME ItemsInv, [Next]_itvars PROVE ItemsInv'
    OBVIOUS
  <2>1. ASSUME NEW i \in Item, Eat(i) PROVE ItemsInv'
    BY <2>1, EatKeeps
  <2>2. ASSUME NEW f \in Folk, Decide(f) PROVE ItemsInv'
    BY <2>2, DecideKeeps
  <2>3. ASSUME NEW f \in Folk, Begin(f) PROVE ItemsInv'
    BY <2>3, BeginKeeps
  <2>4. ASSUME NEW f \in Folk, Walk(f) PROVE ItemsInv'
    BY <2>4, WalkKeeps
  <2>5. ASSUME NEW f \in Folk, Hear(f) PROVE ItemsInv'
    BY <2>5, HearKeeps
  <2>6. CASE AllEaten \/ AllDecided \/ Panicked
    BY <2>6, PhasesKeep
  <2>7. CASE Deliver
    BY <2>7, DeliverKeeps
  <2>8. CASE PickUp
    BY <2>8, PickUpKeeps
  <2>9. CASE Equip
    BY <2>9, EquipKeeps
  <2>10. CASE BeginEatHeld
    BY <2>10, BeginEatHeldKeeps
  <2>11. CASE BeginGraze
    BY <2>11, BeginGrazeKeeps
  <2>12. CASE Maintain
    BY <2>12, MaintainKeeps
  <2>13. CASE UNCHANGED itvars
    BY <2>13, StutterKeeps
  <2> QED
    BY <2>1, <2>2, <2>3, <2>4, <2>5, <2>6, <2>7, <2>8, <2>9, <2>10, <2>11, <2>12, <2>13, Zenon
       DEF Next
<1> QED
  BY <1>1, <1>2, PTL DEF ItemsSpec

\* What is eaten from the hand is in a slot of the eater, who is busy with it
\* (subactivity/eat.rs, needs/food/system.rs), however others graze on it or fetch it.
THEOREM MealsAttended == ItemsSpec => []MealsAreAttended
<1>1. ItemsInv => MealsAreAttended
  BY DEF ItemsInv
<1> QED
  BY <1>1, ItemsInvariant, PTL

\* An item is in one slot, in one container or out in the world, however insert_item
\* pushes things around and wherever it gives up (item/inventory/component.rs).
THEOREM ItemsInOnePlace == ItemsSpec => []InOnePlace
<1>1. ItemsInv => InOnePlace
  BY DEF ItemsInv
<1> QED
  BY <1>1, ItemsInvariant, PTL

-----------------------------------------------------------------------------
(* What the player has selected *)

\* A sequence made of a finite set holds each of its elements once.
LEMMA SetToSeqElements ==
    ASSUME NEW S, IsFiniteSet(S)
    PROVE  SetToSeq(S) \in Seq(S) /\ Elements(SetToSeq(S)) = S /\ IsInjective(SetToSeq(S))
<1> DEFINE s == SetToSeq(S)
           n == Cardinality(S)
<1>1. n \in Nat /\ ExistsBijection(1 .. n, S)
  BY FS_CardinalityType
<1>2. PICK f \in [1 .. n -> S] : IsInjective(f)
  <2>1. PICK f \in Bijection(1 .. n, S) : TRUE
    BY <1>1 DEF ExistsBijection
  <2> QED
    BY <2>1 DEF Bijection, Injection, IsInjective
<1>3. s \in [1 .. n -> S] /\ IsInjective(s)
  BY <1>2 DEF SetToSeq
<1>4. Elements(s) \subseteq S /\ DOMAIN s = 1 .. n
  BY <1>3 DEF Elements
<1>5. s \in Bijection(1 .. n, Elements(s))
  BY <1>3, <1>4 DEF Bijection, Injection, Surjection, IsInjective, Elements
<1>6. Cardinality(Elements(s)) = n
  <2>1. IsFiniteSet(1 .. n) /\ Cardinality(1 .. n) = n
    BY <1>1, FS_Interval
  <2>2. ExistsBijection(1 .. n, Elements(s))
    BY <1>5 DEF ExistsBijection
  <2> QED
    BY <2>1, <2>2, FS_Bijection
<1>7. Elements(s) = S
  BY <1>4, <1>6, FS_Subset
<1>8. s \in Seq(S)
  BY <1>1, <1>3
<1> QED
  BY <1>3, <1>7, <1>8

\* A sequence of whatever it holds.
IsSequence(s) == s \in Seq(Elements(s))

LEMMA SequenceOf ==
    ASSUME NEW s, IsSequence(s)
    PROVE  Len(s) \in Nat /\ DOMAIN s = 1 .. Len(s)
BY DEF IsSequence

LEMMA AppendsToSequence ==
    ASSUME NEW s, IsSequence(s), NEW x
    PROVE  IsSequence(Append(s, x))
<1> DEFINE S == Elements(s) \cup {x}
<1>1. s \in Seq(S)
  BY DEF IsSequence
<1>2. Append(s, x) \in Seq(S) /\ Elements(Append(s, x)) = S
  <2> HIDE DEF S
  <2>1. x \in S
    BY DEF S
  <2>2. Append(s, x) \in Seq(S) /\ Elements(Append(s, x)) = Elements(s) \cup {x}
    BY <1>1, <2>1, ElementsOfAppend
  <2> QED
    BY <2>2 DEF S
<1> QED
  BY <1>2 DEF IsSequence

LEMMA EmptyIsSequence == IsSequence(<<>>)
BY DEF IsSequence

\* What the player sees is right whatever the blocks are, of these living entities.
Shown(ui, solid) ==
    /\ {"selected", "marked", "tiles"} \subseteq DOMAIN ui
    /\ ui.selected \in Seq(Selectable) /\ IsInjective(ui.selected)
    /\ ui.marked = Elements(ui.selected) \cap living
    /\ IsComplete(ui.tiles) => ui.tiles[1].makeup = Makeup(ui.tiles[1].range, solid)

PlayerInv ==
    /\ selected \in Seq(Selectable) /\ living \subseteq Selectable
    /\ IsSequence(events) /\ IsSequence(commands)
    /\ SelectionIsCurrent

LEMMA ShowsSelectAll ==
    ASSUME PlayerInv, NEW ui, NEW solid, NEW es, Shown(ui, solid)
    PROVE  Shown(SelectAll(ui, es), solid)
<1> DEFINE new == (es \cap living) \ ui.marked
           all == ui.selected \o SetToSeq(new)
           next == [ui EXCEPT !.selected = all, !.marked = ui.marked \cup new]
<1>1. IsFiniteSet(new) /\ new \subseteq Selectable
  BY PlayerAssumption, FS_Subset DEF PlayerInv
<1> HIDE DEF new
<1>2. SetToSeq(new) \in Seq(new) /\ Elements(SetToSeq(new)) = new /\ IsInjective(SetToSeq(new))
  BY <1>1, SetToSeqElements
<1>3. SetToSeq(new) \in Seq(Selectable)
  BY <1>1, <1>2
<1>4. all \in Seq(Selectable) /\ Elements(all) = Elements(ui.selected) \cup new
  BY <1>2, <1>3, ElementsOfConcat DEF Shown
<1>5. Elements(ui.selected) \cap new = {}
  BY DEF Shown, new
<1>6. IsInjective(all)
  BY <1>2, <1>3, <1>5, InjectiveConcat DEF Shown
<1>7. new \subseteq living
  BY DEF new
<1> HIDE DEF all
<1>8. Shown(next, solid)
  <2>1. /\ DOMAIN next = DOMAIN ui /\ next.selected = all /\ next.marked = ui.marked \cup new
        /\ next.tiles = ui.tiles
    BY DEF Shown
  <2> HIDE DEF next
  <2> QED
    BY <1>4, <1>6, <1>7, <2>1 DEF Shown
<1> QED
  BY <1>8 DEF SelectAll, new, all

LEMMA ShowsUnselected ==
    ASSUME NEW ui, NEW solid, Shown(ui, solid)
    PROVE  Shown(Unselected(ui), solid)
<1> DEFINE next == [ui EXCEPT !.selected = <<>>, !.marked = ui.marked \ ToSet(ui.selected)]
<1>1. /\ DOMAIN next = DOMAIN ui /\ next.selected = <<>> /\ next.tiles = ui.tiles
      /\ next.marked = {}
  BY DEF Shown, ToSet, Elements
<1>2. <<>> \in Seq(Selectable) /\ IsInjective(<<>>) /\ Elements(<<>>) = {}
  BY DEF IsInjective, Elements
<1> HIDE DEF next
<1>3. Shown(next, solid)
  BY <1>1, <1>2 DEF Shown
<1> QED
  BY <1>3 DEF Unselected, next

\* Only the fields that Shown is about matter.
LEMMA ShowsTiles ==
    ASSUME NEW ui, NEW next, NEW solid, Shown(ui, solid), DOMAIN next = DOMAIN ui,
           next.selected = ui.selected, next.marked = ui.marked,
           IsComplete(next.tiles) => next.tiles[1].makeup = Makeup(next.tiles[1].range, solid)
    PROVE  Shown(next, solid)
BY DEF Shown

LEMMA ShowsHandle ==
    ASSUME PlayerInv, NEW ui, NEW e, Shown(ui, blocks)
    PROVE  Shown(Handle(ui, e), blocks)
<1>1. \A v : Shown(v, blocks) => Shown(LeftSelect(v, e), blocks) /\ Shown(LeftClick(v, e), blocks)
  BY ShowsSelectAll DEF LeftSelect, LeftClick
<1>2. Shown(UpdateTiles(ui, e.from, e.to, e.progress, blocks), blocks)
  <2> DEFINE lo == Walkable(Column(Min({e.from.x, e.to.x}), e.from.top), blocks)
             hi == Walkable(Column(Max({e.from.x, e.to.x}), e.from.top), blocks)
             r == <<<<Min({e.from.x, e.to.x}), Max(lo) - 1>>, <<Max({e.from.x, e.to.x}), Max(hi) - 1>>>>
             next == [ui EXCEPT !.last = <<r, e.progress>>, !.tiles = <<Selection(r, e.progress, blocks)>>]
  <2>1. UpdateTiles(ui, e.from, e.to, e.progress, blocks) \in {ui, next}
    BY DEF UpdateTiles
  <2> HIDE DEF r
  <2>2. /\ DOMAIN next = DOMAIN ui /\ next.selected = ui.selected /\ next.marked = ui.marked
        /\ next.tiles = <<Selection(r, e.progress, blocks)>>
    BY DEF Shown
  <2>3. next.tiles[1].makeup = Makeup(next.tiles[1].range, blocks)
    BY <2>2 DEF Selection
  <2> HIDE DEF next
  <2>4. Shown(next, blocks)
    BY <2>2, <2>3, ShowsTiles
  <2> QED
    BY <2>1, <2>4
<1>3. Shown(RightClick(ui, e), blocks)
  <2>1. ASSUME NEW ty PROVE Shown(Opened(ui, ty), blocks)
    <3> DEFINE next == [ui EXCEPT !.popup = <<[ty |-> ty, content |-> <<>>]>>]
    <3>1. /\ DOMAIN next = DOMAIN ui /\ next.selected = ui.selected /\ next.marked = ui.marked
          /\ next.tiles = ui.tiles
      BY DEF Shown
    <3> HIDE DEF next
    <3>2. Shown(next, blocks)
      BY <3>1, ShowsTiles DEF Shown
    <3> QED
      BY <3>2 DEF Opened, next
  <2> QED
    BY <2>1 DEF RightClick
<1>4. Shown(Unselected(ui), blocks)
  BY ShowsUnselected
<1> QED
  BY <1>1, <1>2, <1>3, <1>4 DEF Handle

\* The events of a frame are handled one after the other.
LEMMA HandledIs ==
    ASSUME PlayerInv
    PROVE  \A n \in 0 .. Len(events) :
             Handled[n] = IF n = 0 THEN Ui ELSE Handle(Handled[n - 1], events[n])
<1> DEFINE F(f, m) == f = [n \in 0 .. m |-> IF n = 0 THEN Ui ELSE Handle(f[n - 1], events[n])]
           S == {m \in Nat : \E f : F(f, m)}
<1>1. 0 \in S
  <2>1. F([n \in {0} |-> Ui], 0)
    OBVIOUS
  <2> QED
    BY <2>1
<1>2. ASSUME NEW m \in Nat, m \in S PROVE m + 1 \in S
  <2>1. PICK f : F(f, m)
    BY <1>2
  <2> DEFINE g == [n \in 0 .. m + 1 |-> IF n \in 0 .. m THEN f[n] ELSE Handle(f[m], events[m + 1])]
  <2>2. \A n \in 0 .. m : f[n] = IF n = 0 THEN Ui ELSE Handle(f[n - 1], events[n])
    BY <2>1
  <2>3. ASSUME NEW n \in 0 .. m + 1 PROVE g[n] = IF n = 0 THEN Ui ELSE Handle(g[n - 1], events[n])
    <3>1. CASE n = 0
      BY <2>2, <3>1
    <3>2. CASE n \in 1 .. m
      <4>1. g[n] = f[n] /\ g[n - 1] = f[n - 1]
        BY <3>2
      <4> QED
        BY <2>2, <3>2, <4>1
    <3>3. CASE n = m + 1
      <4>1. g[n] = Handle(f[m], events[m + 1]) /\ g[n - 1] = f[m] /\ n # 0
        BY <3>3
      <4> QED
        BY <3>3, <4>1
    <3> QED
      BY <3>1, <3>2, <3>3
  <2>4. F(g, m + 1)
    BY <2>3
  <2> HIDE DEF g, F
  <2>5. \E h : F(h, m + 1)
    BY <2>4
  <2> QED
    BY <2>5
<1> HIDE DEF S
<1>3. Nat \subseteq S
  BY <1>1, <1>2, NatSetInduction
<1>4. PICK f : F(f, Len(events))
  BY <1>3, SequenceOf DEF PlayerInv, S
<1>5. F(Handled, Len(events))
  BY <1>4 DEF Handled
<1> QED
  BY <1>5

LEMMA ShowsInput ==
    ASSUME PlayerInv
    PROVE  Shown(RunInput, blocks)
<1> DEFINE S == {n \in Nat : n <= Len(events) => Shown(Handled[n], blocks)}
<1>0. Len(events) \in Nat
  BY SequenceOf DEF PlayerInv
<1>1. Shown(Ui, blocks)
  BY DEF Shown, Ui, PlayerInv, SelectionIsCurrent, ToSet, Elements
<1>2. 0 \in S
  BY <1>0, <1>1, HandledIs
<1>3. ASSUME NEW n \in Nat, n \in S PROVE n + 1 \in S
  <2> SUFFICES ASSUME n + 1 <= Len(events) PROVE Shown(Handled[n + 1], blocks)
    OBVIOUS
  <2>1. Handled[n + 1] = Handle(Handled[n], events[n + 1])
    BY <1>0, HandledIs
  <2>2. Shown(Handled[n], blocks)
    BY <1>0, <1>3
  <2> QED
    BY <2>1, <2>2, ShowsHandle
<1> HIDE DEF S
<1>4. Nat \subseteq S
  BY <1>2, <1>3, NatSetInduction
<1> QED
  BY <1>0, <1>4 DEF S, RunInput

\* The state of a tick between two requests.
Ticking(t) == "blocks" \in DOMAIN t /\ Shown(t, t.blocks)

LEMMA TickingTiles ==
    ASSUME NEW t, NEW next, Ticking(t), DOMAIN next = DOMAIN t,
           next.selected = t.selected, next.marked = t.marked, next.blocks = t.blocks,
           IsComplete(next.tiles) => next.tiles[1].makeup = Makeup(next.tiles[1].range, t.blocks)
    PROVE  Ticking(next)
BY DEF Ticking, Shown

LEMMA TickingElse ==
    ASSUME NEW t, NEW next, Ticking(t), DOMAIN next = DOMAIN t,
           next.selected = t.selected, next.marked = t.marked, next.blocks = t.blocks,
           next.tiles = t.tiles
    PROVE  Ticking(next)
BY DEF Ticking, Shown

\* A request that is not about the selection leaves it alone.
LEMMA TickingOthers ==
    ASSUME NEW t, Ticking(t), NEW x
    PROVE  /\ Ticking([t EXCEPT !.divine = x]) /\ Ticking([t EXCEPT !.changes = x])
           /\ Ticking([t EXCEPT !.orders = x]) /\ Ticking([t EXCEPT !.jobs = x])
           /\ Ticking([t EXCEPT !.doomed = x]) /\ Ticking([t EXCEPT !.popup = x])
           /\ Ticking([t EXCEPT !.paused = x]) /\ Ticking([t EXCEPT !.change = x])
           /\ Ticking([t EXCEPT !.exit = x])
<1>1. {"selected", "marked", "tiles", "blocks"} \subseteq DOMAIN t
  BY DEF Ticking, Shown
<1>2. ASSUME NEW k \in {"divine", "changes", "orders", "jobs", "doomed", "popup", "paused", "change", "exit"}
      PROVE  Ticking([t EXCEPT ![k] = x])
  <2> DEFINE next == [t EXCEPT ![k] = x]
  <2>1. /\ DOMAIN next = DOMAIN t /\ next.selected = t.selected /\ next.marked = t.marked
        /\ next.tiles = t.tiles /\ next.blocks = t.blocks
    BY <1>1
  <2> HIDE DEF next
  <2>2. Ticking(next)
    BY <2>1, TickingElse
  <2> QED
    BY <2>2 DEF next
<1> QED
  BY <1>2

LEMMA TickingProcess ==
    ASSUME NEW t, NEW req, Ticking(t)
    PROVE  Ticking(Process(t, req))
<1>1. \A p : Ticking(FillTiles(t, p))
  BY TickingOthers DEF FillTiles
<1>2. \A what : Ticking(Divine(t, what))
  BY TickingOthers DEF Divine
<1>3. ASSUME NEW d PROVE Ticking([t EXCEPT !.tiles = ModifyTiles(t.tiles, d, t.blocks)])
  <2> DEFINE new == ModifyTiles(t.tiles, d, t.blocks)
             next == [t EXCEPT !.tiles = new]
  <2>1. IsComplete(new) => new[1].makeup = Makeup(new[1].range, t.blocks)
    BY DEF ModifyTiles, Selection, Ticking, Shown
  <2> HIDE DEF new
  <2>2. /\ DOMAIN next = DOMAIN t /\ next.selected = t.selected /\ next.marked = t.marked
        /\ next.tiles = new /\ next.blocks = t.blocks
    BY DEF Ticking, Shown
  <2> HIDE DEF next
  <2>3. Ticking(next)
    BY <2>1, <2>2, TickingTiles
  <2> QED
    BY <2>3 DEF next, new
<1>4. Ticking(CancelSelection(t))
  <2>1. Ticking([t EXCEPT !.popup = <<>>])
    BY TickingOthers
  <2>2. Ticking([Unselected(t) EXCEPT !.tiles = <<>>])
    <3> DEFINE u == Unselected(t)
               next == [u EXCEPT !.tiles = <<>>]
    <3>1. "blocks" \in DOMAIN u /\ u.blocks = t.blocks
      BY DEF Unselected, Ticking
    <3>2. Shown(u, t.blocks)
      BY ShowsUnselected DEF Ticking
    <3> HIDE DEF u
    <3>3. /\ DOMAIN next = DOMAIN u /\ next.selected = u.selected /\ next.marked = u.marked
          /\ next.tiles = <<>> /\ next.blocks = t.blocks
      BY <3>1, <3>2 DEF Shown
    <3> HIDE DEF next
    <3>4. Ticking(next)
      BY <3>1, <3>2, <3>3, TickingTiles DEF Ticking, IsComplete
    <3> QED
      BY <3>4 DEF next, u
  <2> QED
    BY <2>1, <2>2 DEF CancelSelection
<1>5. ASSUME NEW x
      PROVE  /\ Ticking([t EXCEPT !.orders = x]) /\ Ticking([t EXCEPT !.jobs = x])
             /\ Ticking([t EXCEPT !.doomed = x]) /\ Ticking([t EXCEPT !.popup = x])
             /\ Ticking([t EXCEPT !.paused = x]) /\ Ticking([t EXCEPT !.change = x])
             /\ Ticking([t EXCEPT !.exit = x])
  BY TickingOthers
<1> QED
  BY <1>1, <1>2, <1>3, <1>4, <1>5 DEF Process

\* The requests of a tick are processed one after the other.
LEMMA ProcessedIs ==
    ASSUME PlayerInv
    PROVE  \A n \in 0 .. Len(commands) :
             Processed[n] = IF n = 0 THEN Ticked(Edited) ELSE Process(Processed[n - 1], commands[n])
<1> DEFINE T == Ticked(Edited)
           F(f, m) == f = [n \in 0 .. m |-> IF n = 0 THEN T ELSE Process(f[n - 1], commands[n])]
           S == {m \in Nat : \E f : F(f, m)}
<1> HIDE DEF T
<1>1. 0 \in S
  <2>1. F([n \in {0} |-> T], 0)
    OBVIOUS
  <2> QED
    BY <2>1
<1>2. ASSUME NEW m \in Nat, m \in S PROVE m + 1 \in S
  <2>1. PICK f : F(f, m)
    BY <1>2
  <2> DEFINE g == [n \in 0 .. m + 1 |-> IF n \in 0 .. m THEN f[n] ELSE Process(f[m], commands[m + 1])]
  <2>2. \A n \in 0 .. m : f[n] = IF n = 0 THEN T ELSE Process(f[n - 1], commands[n])
    BY <2>1
  <2>3. ASSUME NEW n \in 0 .. m + 1 PROVE g[n] = IF n = 0 THEN T ELSE Process(g[n - 1], commands[n])
    <3>1. CASE n = 0
      BY <2>2, <3>1
    <3>2. CASE n \in 1 .. m
      <4>1. g[n] = f[n] /\ g[n - 1] = f[n - 1]
        BY <3>2
      <4> QED
        BY <2>2, <3>2, <4>1
    <3>3. CASE n = m + 1
      <4>1. g[n] = Process(f[m], commands[m + 1]) /\ g[n - 1] = f[m] /\ n # 0
        BY <3>3
      <4> QED
        BY <3>3, <4>1
    <3> QED
      BY <3>1, <3>2, <3>3
  <2>4. F(g, m + 1)
    BY <2>3
  <2> HIDE DEF g, F
  <2>5. \E h : F(h, m + 1)
    BY <2>4
  <2> QED
    BY <2>5
<1> HIDE DEF S
<1>3. Nat \subseteq S
  BY <1>1, <1>2, NatSetInduction
<1>4. PICK f : F(f, Len(commands))
  BY <1>3, SequenceOf DEF PlayerInv, S
<1>5. F(Processed, Len(commands))
  BY <1>4 DEF Processed, T
<1> QED
  BY <1>5 DEF T

\* An edit that a complete selection overlaps makes it count again; another leaves its
\* blocks as they were.
LEMMA TickingTicked ==
    ASSUME PlayerInv, NEW solid
    PROVE  Ticking(Ticked(solid))
<1>1. ASSUME IsComplete(tiles), CellsOf(tiles[1].range) \cap Differing(solid) = {}
      PROVE  Makeup(tiles[1].range, solid) = Makeup(tiles[1].range, blocks)
  <2> DEFINE cells == CellsOf(tiles[1].range)
  <2>1. cells \cap Differing(solid) = {}
    BY <1>1
  <2> HIDE DEF cells
  <2>2. cells \cap solid = cells \cap blocks /\ (cells \cap Loaded) \ solid = (cells \cap Loaded) \ blocks
    BY <2>1 DEF Differing
  <2> QED
    BY <2>2 DEF Makeup, cells
<1> DEFINE new == OnWorldChanges(tiles, solid)
           t == Ticked(solid)
<1>2. IsComplete(new) => new[1].makeup = Makeup(new[1].range, solid)
  BY <1>1 DEF OnWorldChanges, Selection, PlayerInv, SelectionIsCurrent
<1> HIDE DEF new
<1>3. /\ {"selected", "marked", "tiles", "blocks"} \subseteq DOMAIN t /\ t.selected = selected
      /\ t.marked = marked /\ t.tiles = new /\ t.blocks = solid
  BY DEF Ticked, new
<1>4. marked = Elements(selected) \cap living
  BY DEF PlayerInv, SelectionIsCurrent, ToSet, Elements
<1> HIDE DEF t
<1>5. Ticking(t)
  BY <1>2, <1>3, <1>4 DEF Ticking, Shown, PlayerInv, SelectionIsCurrent
<1> QED
  BY <1>5 DEF t

LEMMA TickingCommands ==
    ASSUME PlayerInv
    PROVE  Ticking(Processed[Len(commands)])
<1> DEFINE S == {n \in Nat : n <= Len(commands) => Ticking(Processed[n])}
<1>0. Len(commands) \in Nat
  BY SequenceOf DEF PlayerInv
<1>2. 0 \in S
  <2>1. Processed[0] = Ticked(Edited)
    BY <1>0, ProcessedIs
  <2>2. Ticking(Processed[0])
    BY <2>1, TickingTicked
  <2> QED
    BY <2>2
<1>3. ASSUME NEW n \in Nat, n \in S PROVE n + 1 \in S
  <2> SUFFICES ASSUME n + 1 <= Len(commands) PROVE Ticking(Processed[n + 1])
    OBVIOUS
  <2>1. Processed[n + 1] = Process(Processed[n], commands[n + 1])
    BY <1>0, ProcessedIs
  <2>2. Ticking(Processed[n])
    BY <1>0, <1>3
  <2> QED
    BY <2>1, <2>2, TickingProcess
<1> HIDE DEF S
<1>4. Nat \subseteq S
  BY <1>2, <1>3, NatSetInduction
<1> QED
  BY <1>0, <1>4 DEF S

-----------------------------------------------------------------------------
\* A tick prunes the list, unless paused, and takes the components of the dead.
LEMMA TickKeepsPlayer ==
    ASSUME PlayerInv, Tick
    PROVE  PlayerInv'
<1> DEFINE t == Processed[Len(commands)]
<1>1. Ticking(t)
  BY TickingCommands
<1>2. /\ selected' = Prune(t) /\ living' = living \ Dying(t) /\ marked' = t.marked \ Dying(t)
      /\ tiles' = t.tiles /\ blocks' = t.blocks /\ events' = events /\ commands' = <<>>
  BY DEF Tick
<1> HIDE DEF t
<1>3. /\ Prune(t) \in Seq(Selectable) /\ IsInjective(Prune(t))
      /\ Elements(Prune(t)) \cap living = Elements(t.selected) \cap living
  BY <1>1, KeptElements DEF Prune, Ticking, Shown
<1>4. marked' = Elements(selected') \cap living'
  BY <1>1, <1>2, <1>3 DEF Ticking, Shown
<1>5. IsComplete(tiles') => tiles'[1].makeup = Makeup(tiles'[1].range, blocks')
  BY <1>1, <1>2 DEF Ticking, Shown
<1>6. SelectionIsCurrent'
  BY <1>2, <1>3, <1>4, <1>5 DEF SelectionIsCurrent, ToSet, Elements, Makeup, IsComplete, Loaded, CellsOf, Between
<1> QED
  BY <1>2, <1>3, <1>6, EmptyIsSequence DEF PlayerInv, IsSequence, Elements

LEMMA RenderKeepsPlayer ==
    ASSUME PlayerInv, Render
    PROVE  PlayerInv'
<1> DEFINE ui == RunInput
<1>1. Shown(ui, blocks)
  BY ShowsInput
<1>2. /\ selected' = ui.selected /\ marked' = ui.marked /\ tiles' = ui.tiles /\ events' = <<>>
      /\ living' = living /\ blocks' = blocks
  BY DEF Render, RenderIdle, RenderPress, RenderPanel, Showed
<1>3. commands' = commands \/ \E req : commands' = Append(commands, req)
  BY DEF Render, RenderIdle, RenderPress, RenderPanel, Queued
<1> HIDE DEF ui
<1>4. IsSequence(commands')
  BY <1>3, AppendsToSequence DEF PlayerInv
<1>5. SelectionIsCurrent'
  BY <1>1, <1>2 DEF Shown, SelectionIsCurrent, ToSet, Elements, Makeup, IsComplete, Loaded, CellsOf, Between
<1> QED
  BY <1>1, <1>2, <1>4, <1>5, EmptyIsSequence DEF PlayerInv, Shown, IsSequence, Elements

\* Whatever leaves the selection alone keeps it right when nobody comes to life.
LEMMA SameSelection ==
    ASSUME PlayerInv, UNCHANGED <<selected, marked, tiles, living, blocks>>,
           events' = events \/ (\E e : events' = Append(events, e)),
           commands' = commands \/ (\E req : commands' = Append(commands, req))
    PROVE  PlayerInv'
<1>1. IsSequence(events') /\ IsSequence(commands')
  BY AppendsToSequence DEF PlayerInv
<1>2. SelectionIsCurrent'
  BY DEF PlayerInv, SelectionIsCurrent, ToSet, Makeup, IsComplete, Loaded, CellsOf, Between
<1> QED
  BY <1>1, <1>2 DEF PlayerInv, IsSequence, Elements

LEMMA PlayerInvInit == PlayerInit => PlayerInv
<1> SUFFICES ASSUME PlayerInit PROVE PlayerInv
  OBVIOUS
<1>1. IsInjective(<<>>) /\ ToSet(<<>>) = {}
  BY DEF IsInjective, ToSet
<1>2. SelectionIsCurrent
  BY <1>1 DEF PlayerInit, SelectionIsCurrent, IsComplete
<1>3. selected = <<>> /\ events = <<>> /\ commands = <<>> /\ living = Selectable
  BY DEF PlayerInit
<1>4. <<>> \in Seq(Selectable) /\ IsSequence(events) /\ IsSequence(commands)
  BY <1>3, EmptyIsSequence
<1> QED
  BY <1>2, <1>3, <1>4 DEF PlayerInv

LEMMA PlayerInvNext == PlayerInv /\ [PlayerNext]_plvars => PlayerInv'
<1> SUFFICES ASSUME PlayerInv, [PlayerNext]_plvars PROVE PlayerInv'
  OBVIOUS
<1>1. ASSUME NEW side \in Sides, MouseDown(side) PROVE PlayerInv'
  BY <1>1, SameSelection DEF MouseDown, simulated
<1>2. ASSUME NEW side \in Sides, NEW x \in Columns, NEW shift \in BOOLEAN,
             MouseMove(side, Column(x, view), shift)
      PROVE  PlayerInv'
  BY <1>2, SameSelection DEF MouseMove, Emit, simulated
<1>3. ASSUME NEW side \in Sides, NEW x \in Columns, NEW shift \in BOOLEAN,
             MouseUp(side, Column(x, view), shift)
      PROVE  PlayerInv'
  BY <1>3, SameSelection DEF MouseUp, Emit, simulated
<1>4. ASSUME NEW req \in Keys, Key(req) PROVE PlayerInv'
  BY <1>4, SameSelection DEF Key, simulated
<1>5. ASSUME NEW top \in Views, MoveView(top) PROVE PlayerInv'
  BY <1>5, SameSelection DEF MoveView, simulated
<1>6. CASE Render
  BY <1>6, RenderKeepsPlayer
<1>7. CASE Tick
  BY <1>7, TickKeepsPlayer
<1>8. CASE EndFrame
  BY <1>8, SameSelection DEF EndFrame
<1>9. ASSUME NEW change \in Digs, Dig(change) PROVE PlayerInv'
  BY <1>9, SameSelection DEF Dig
<1>10. ASSUME NEW e \in Selectable, Die(e) PROVE PlayerInv'
  BY <1>10, SameSelection DEF Die
<1>11. CASE UNCHANGED plvars
  BY <1>11, SameSelection DEF plvars
<1> QED
  BY <1>1, <1>2, <1>3, <1>4, <1>5, <1>6, <1>7, <1>8, <1>9, <1>10, <1>11 DEF PlayerNext

\* The inductive invariant of the player's selection.
THEOREM PlayerInvariant == PlayerSpec => []PlayerInv
<1>1. PlayerInit => PlayerInv
  BY PlayerInvInit
<1>2. PlayerInv /\ [PlayerNext]_plvars => PlayerInv'
  BY PlayerInvNext
<1> QED
  BY <1>1, <1>2, PTL DEF PlayerSpec

\* The list of the selected and their components agree on the living, nobody is listed
\* twice, and a complete selection of tiles shows the blocks that are there: however many
\* input events a frame has (input/system.rs) and commands a tick has
\* (process_ui_commands), in whichever order, and whoever dies or digs between them.
THEOREM SelectionCurrent == PlayerSpec => []SelectionIsCurrent
<1>1. PlayerInv => SelectionIsCurrent
  BY DEF PlayerInv
<1> QED
  BY <1>1, PlayerInvariant, PTL

-----------------------------------------------------------------------------
(* Herds *)


Membership == [herd : Herd, ticks : 0 .. Member]

HerdTypes ==
    /\ flock \subseteq Herdable /\ next_herd \in Nat /\ herd_phase \in {"idle", "join"}
    /\ herded \in [Herdable -> Membership \cup {NoHerd}]
    /\ alone \in [Herdable -> Nat]
    /\ \A h \in DOMAIN mapping : mapping[h] \in Herd
    /\ \A e \in Herdable : herded[e] # NoHerd => e \in flock

\* The groups that are left have nobody in common, and who is found has a herd by now.
GroupsApart ==
    /\ herd_phase = "idle" => subgraphs = {} /\ DOMAIN found = {}
    /\ \A G \in subgraphs : G # {} /\ G \subseteq flock
    /\ \A G, K \in subgraphs : \A e \in G : e \in K => G = K
    /\ \A h \in DOMAIN found : \A e \in found[h] :
          e \in Herdable /\ herded[e] # NoHerd /\ \A G \in subgraphs : e \notin G

\* The runs in which one was alone by itself, this one's only when it has been its turn.
RunsAlone(e) == IF {e} \in subgraphs THEN alone[e] - 1 ELSE alone[e]

\* The time that one has left says how long it has been alone.
TicksMatch ==
    /\ \A G \in subgraphs : \A e \in G : IF G = {e} THEN alone[e] > 0 ELSE alone[e] = 0
    /\ \A e \in Herdable : herded[e] # NoHerd =>
          \/ \E G \in subgraphs : e \in G /\ G # {e}
          \/ RunsAlone(e) = 0 /\ herded[e].ticks = Member
          \/ /\ RunsAlone(e) > 0 /\ herded[e].ticks = Expiry - RUN_FREQUENCY * (RunsAlone(e) - 1)
             /\ RunsAlone(e) > 1 => herded[e].ticks > 0

HerdsInv == HerdTypes /\ GroupsApart /\ TicksMatch /\ LeadersAreHerded

-----------------------------------------------------------------------------
LEMMA LargerOf ==
    ASSUME NEW m \in Int, NEW n \in Int
    PROVE  /\ Max({m, n}) = IF m > n THEN m ELSE n
           /\ Min({m, n}) = IF m < n THEN m ELSE n
<1>1. PICK x \in {m, n} : \A y \in {m, n} : x >= y
  <2>1. CASE m >= n
    BY <2>1
  <2>2. CASE n >= m
    BY <2>2
  <2> QED
    BY <2>1, <2>2
<1>2. PICK z \in {m, n} : \A y \in {m, n} : z <= y
  <2>1. CASE m <= n
    BY <2>1
  <2>2. CASE n <= m
    BY <2>2
  <2> QED
    BY <2>1, <2>2
<1>3. Max({m, n}) \in {m, n} /\ \A y \in {m, n} : Max({m, n}) >= y
  BY <1>1 DEF Max
<1>4. Min({m, n}) \in {m, n} /\ \A y \in {m, n} : Min({m, n}) <= y
  BY <1>2 DEF Min
<1> QED
  BY <1>3, <1>4

LEMMA MembershipIsNone ==
    ASSUME NEW h \in Herd, NEW t \in 0 .. Member
    PROVE  /\ PendingDeparture(h, t) \in Membership /\ PendingDeparture(h, t) # NoHerd
           /\ MemberOf(h) \in Membership /\ MemberOf(h) # NoHerd
BY HerdsAssumption DEF PendingDeparture, MemberOf, Membership, Member

LEMMA ManyAreNotOne ==
    ASSUME NEW e, NEW G, Many(G)
    PROVE  G # {e}
BY FS_Singleton DEF Many

LEMMA InMapIsHerd ==
    ASSUME HerdTypes, NEW h \in Herd
    PROVE  InMap(mapping, h) \in Herd
BY DEF InMap, HerdTypes

\* A way to split entities covers them, by groups that have nobody in common.
LEMMA GroupingsSplit ==
    ASSUME NEW S, NEW P \in Groupings(S)
    PROVE  /\ \A G \in P : G # {} /\ G \subseteq S
           /\ \A G, K \in P : \A e \in G : e \in K => G = K
           /\ \A e \in S : \E G \in P : e \in G
<1>1. PICK of \in [S -> S] : P = {{y \in S : of[y] = of[x]} : x \in S}
  BY DEF Groupings
<1> DEFINE group(x) == {y \in S : of[y] = of[x]}
<1>2. \A x \in S : x \in group(x) /\ group(x) \subseteq S /\ group(x) \in P
  BY <1>1
<1>3. ASSUME NEW G \in P PROVE \E x \in S : G = group(x)
  BY <1>1
<1>4. ASSUME NEW G \in P, NEW K \in P, NEW e \in G, e \in K PROVE G = K
  <2>1. PICK x \in S, z \in S : G = group(x) /\ K = group(z)
    BY <1>3
  <2>2. of[e] = of[x] /\ of[e] = of[z]
    BY <1>4, <2>1
  <2> QED
    BY <2>1, <2>2
<1> HIDE DEF group
<1> QED
  BY <1>2, <1>3, <1>4

-----------------------------------------------------------------------------
LEMMA HerdsInvInit == HerdsInit => HerdsInv
<1> SUFFICES ASSUME HerdsInit PROVE HerdsInv
  OBVIOUS
<1>1. DOMAIN << >> = {}
  OBVIOUS
<1>2. HerdTypes
  BY <1>1 DEF HerdsInit, HerdTypes
<1>3. GroupsApart /\ LeadersAreHerded
  BY <1>1 DEF HerdsInit, GroupsApart, LeadersAreHerded
<1>4. TicksMatch
  BY DEF HerdsInit, TicksMatch
<1> QED
  BY <1>2, <1>3, <1>4 DEF HerdsInv

LEMMA LeaveKeeps ==
    ASSUME HerdsInv, NEW e \in flock, Leave(e)
    PROVE  HerdsInv'
<1>1. /\ herd_phase = "idle" /\ subgraphs = {} /\ subgraphs' = {} /\ flock' = flock \ {e}
      /\ herded' = [herded EXCEPT ![e] = NoHerd] /\ alone' = [alone EXCEPT ![e] = 0]
      /\ herds' = herds /\ next_herd' = next_herd /\ herd_phase' = herd_phase
      /\ found' = found /\ mapping' = mapping
  BY DEF Leave, HerdsInv, GroupsApart
<1>2. /\ \A f \in Herdable : f # e => herded'[f] = herded[f] /\ alone'[f] = alone[f]
      /\ herded'[e] = NoHerd /\ e \in Herdable
  BY <1>1 DEF HerdsInv, HerdTypes
<1>3. HerdTypes'
  BY <1>1, <1>2 DEF HerdsInv, HerdTypes, Membership, Herd, Member
<1>4. GroupsApart'
  BY <1>1 DEF HerdsInv, GroupsApart
<1>5. TicksMatch'
  BY <1>1, <1>2 DEF HerdsInv, HerdTypes, TicksMatch, RunsAlone, Member
<1>6. LeadersAreHerded'
  BY <1>1, <1>2 DEF HerdsInv, HerdTypes, LeadersAreHerded
<1> QED
  BY <1>3, <1>4, <1>5, <1>6 DEF HerdsInv

LEMMA StartJoiningKeeps ==
    ASSUME HerdsInv, StartJoining
    PROVE  HerdsInv'
<1>1. /\ herd_phase = "idle" /\ herd_phase' = "join" /\ subgraphs = {}
      /\ subgraphs' \in Groupings(flock)
      /\ alone' = [e \in Herdable |->
                     IF {e} \in subgraphs' THEN Min({alone[e] + 1, AloneBound}) ELSE 0]
      /\ DOMAIN found' = {} /\ DOMAIN mapping' = {}
      /\ flock' = flock /\ herded' = herded /\ herds' = herds /\ next_herd' = next_herd
  BY DEF StartJoining, HerdsInv, GroupsApart
<1>2. /\ \A G \in subgraphs' : G # {} /\ G \subseteq flock
      /\ \A G, K \in subgraphs' : \A e \in G : e \in K => G = K
      /\ \A e \in flock : \E G \in subgraphs' : e \in G
  BY <1>1, GroupingsSplit
<1>3. AloneBound \in Nat /\ AloneBound > 0 /\ \A n \in Nat : RUN_FREQUENCY * n <= Expiry => n + 2 < AloneBound
  BY HerdsAssumption DEF AloneBound, RUN_FREQUENCY
<1>4. ASSUME NEW e \in Herdable
      PROVE  /\ alone[e] \in Nat /\ alone'[e] \in Nat
             /\ {e} \notin subgraphs' => alone'[e] = 0
             /\ {e} \in subgraphs' => alone'[e] > 0
             /\ {e} \in subgraphs' /\ alone[e] + 1 <= AloneBound => alone'[e] = alone[e] + 1
  <2>1. alone[e] \in Nat
    BY DEF HerdsInv, HerdTypes
  <2>2. alone'[e] = IF {e} \in subgraphs' THEN Min({alone[e] + 1, AloneBound}) ELSE 0
    BY <1>1
  <2>3. Min({alone[e] + 1, AloneBound}) = IF alone[e] + 1 < AloneBound THEN alone[e] + 1 ELSE AloneBound
    <3>1. alone[e] + 1 \in Int /\ AloneBound \in Int
      BY <1>3, <2>1
    <3> QED
      BY <3>1, LargerOf
  <2> QED
    BY <1>3, <2>1, <2>2, <2>3
<1>5. HerdTypes'
  <2>1. alone' \in [Herdable -> Nat]
    BY <1>1, <1>4
  <2> QED
    BY <1>1, <2>1 DEF HerdsInv, HerdTypes, Membership, Herd, Member
<1>6. GroupsApart'
  BY <1>1, <1>2 DEF GroupsApart
<1>7. TicksMatch'
  <2>1. ASSUME NEW G \in subgraphs', NEW e \in G
        PROVE  IF G = {e} THEN alone'[e] > 0 ELSE alone'[e] = 0
    <3>1. e \in Herdable /\ ({e} \in subgraphs' => G = {e})
      BY <1>2 DEF HerdsInv, HerdTypes
    <3> QED
      BY <1>4, <3>1
  <2>2. ASSUME NEW e \in Herdable, herded'[e] # NoHerd,
               \A G \in subgraphs' : ~(e \in G /\ G # {e})
        PROVE  \/ RunsAlone(e)' = 0 /\ herded'[e].ticks = Member
               \/ /\ RunsAlone(e)' > 0 /\ herded'[e].ticks = Expiry - RUN_FREQUENCY * (RunsAlone(e)' - 1)
                  /\ RunsAlone(e)' > 1 => herded'[e].ticks > 0
    <3>1. {e} \in subgraphs'
      <4>1. e \in flock
        BY <1>1, <2>2 DEF HerdsInv, HerdTypes
      <4>2. PICK G \in subgraphs' : e \in G
        BY <1>2, <4>1
      <4> QED
        BY <2>2, <4>2
    <3>2. /\ \/ alone[e] = 0 /\ herded[e].ticks = Member
             \/ /\ alone[e] > 0 /\ herded[e].ticks = Expiry - RUN_FREQUENCY * (alone[e] - 1)
                /\ alone[e] > 1 => herded[e].ticks > 0
          /\ herded'[e] = herded[e]
      BY <1>1, <2>2 DEF HerdsInv, TicksMatch, RunsAlone
    <3>3. alone[e] + 1 <= AloneBound
      <4> DEFINE n == alone[e]
                 T == herded[e].ticks
      <4>1. n \in Nat /\ (n > 1 => T > 0 /\ T = Expiry - RUN_FREQUENCY * (n - 1))
        <5>1. n \in Nat
          BY DEF HerdsInv, HerdTypes
        <5> QED
          BY <3>2, <5>1
      <4> HIDE DEF n, T
      <4>2. CASE n > 1
        <5>1. RUN_FREQUENCY * (n - 1) <= Expiry /\ n - 1 \in Nat
          BY <4>1, <4>2, HerdsAssumption DEF RUN_FREQUENCY
        <5>2. (n - 1) + 2 < AloneBound
          BY <1>3, <5>1
        <5> QED
          BY <1>3, <4>1, <5>2 DEF n
      <4>3. CASE ~(n > 1)
        <5>1. AloneBound > 2
          BY HerdsAssumption DEF AloneBound, RUN_FREQUENCY
        <5> QED
          BY <1>3, <4>1, <4>3, <5>1 DEF n
      <4> QED
        BY <4>2, <4>3
    <3>4. RunsAlone(e)' = alone[e]
      BY <1>4, <3>1, <3>3 DEF RunsAlone
    <3> QED
      BY <3>2, <3>4
  <2> QED
    BY <2>1, <2>2 DEF TicksMatch, Member
<1>8. LeadersAreHerded'
  BY <1>1 DEF LeadersAreHerded
<1> QED
  BY <1>5, <1>6, <1>7, <1>8 DEF HerdsInv

\* A group that takes a herd: all its members are counted for the herd, none for another.
LEMMA FoundAre ==
    ASSUME HerdsInv, NEW S, NEW h,
           NEW k \in DOMAIN AddMembers(found, mapping', h, S)
    PROVE  \A e \in AddMembers(found, mapping', h, S)[k] : e \in S \/ \E l \in DOMAIN found : e \in found[l]
BY DEF AddMembers

LEMMA JoinToKeeps ==
    ASSUME HerdsInv, NEW G \in subgraphs, Many(G), subgraphs' = subgraphs \ {G},
           NEW h \in Herd, JoinTo(G, h), next_herd' \in Nat, herd_phase = "join",
           UNCHANGED <<flock, herds, herd_phase, alone>>
    PROVE  HerdsInv'
<1>1. /\ herded' = [e \in Herdable |-> IF e \in G THEN MemberOf(h) ELSE herded[e]]
      /\ \A k \in DOMAIN mapping' :
            mapping'[k] = IF k \in HerdsOf(G) \ {h} THEN h ELSE mapping[k]
      /\ DOMAIN mapping' = (HerdsOf(G) \ {h}) \cup DOMAIN mapping
      /\ found' = AddMembers(found, mapping', h, G)
  BY DEF JoinTo
<1>2. /\ MemberOf(h) \in Membership /\ MemberOf(h) # NoHerd /\ MemberOf(h).ticks = Member
  BY MembershipIsNone, HerdsAssumption DEF MemberOf, Member
<1>3. G \subseteq flock /\ G \subseteq Herdable /\ \A e \in G : G # {e}
  BY ManyAreNotOne DEF HerdsInv, HerdTypes, GroupsApart
<1>4. \A e \in G : \A K \in subgraphs' : e \notin K
  BY DEF HerdsInv, GroupsApart
<1>5. HerdTypes'
  <2>1. herded' \in [Herdable -> Membership \cup {NoHerd}]
    BY <1>1, <1>2 DEF HerdsInv, HerdTypes
  <2>2. \A k \in DOMAIN mapping' : mapping'[k] \in Herd
    BY <1>1 DEF HerdsInv, HerdTypes
  <2>3. \A e \in Herdable : herded'[e] # NoHerd => e \in flock
    BY <1>1, <1>3 DEF HerdsInv, HerdTypes
  <2> QED
    BY <2>1, <2>2, <2>3 DEF HerdsInv, HerdTypes, Membership, Herd, Member
<1>6. GroupsApart'
  <2>1. ASSUME NEW k \in DOMAIN found', NEW e \in found'[k]
        PROVE  e \in Herdable /\ herded'[e] # NoHerd /\ \A K \in subgraphs' : e \notin K
    <3>1. e \in G \/ \E l \in DOMAIN found : e \in found[l]
      BY <1>1, <2>1, FoundAre
    <3>2. CASE e \in G
      BY <1>1, <1>2, <1>3, <1>4, <3>2
    <3>3. CASE e \notin G /\ \E l \in DOMAIN found : e \in found[l]
      BY <1>1, <3>3 DEF HerdsInv, GroupsApart
    <3> QED
      BY <3>1, <3>2, <3>3
  <2> QED
    BY <2>1 DEF HerdsInv, GroupsApart
<1>7. TicksMatch'
  <2>1. ASSUME NEW K \in subgraphs', NEW e \in K
        PROVE  IF K = {e} THEN alone'[e] > 0 ELSE alone'[e] = 0
    BY DEF HerdsInv, TicksMatch
  <2>2. ASSUME NEW e \in Herdable, herded'[e] # NoHerd,
               \A K \in subgraphs' : ~(e \in K /\ K # {e})
        PROVE  \/ RunsAlone(e)' = 0 /\ herded'[e].ticks = Member
               \/ /\ RunsAlone(e)' > 0 /\ herded'[e].ticks = Expiry - RUN_FREQUENCY * (RunsAlone(e)' - 1)
                  /\ RunsAlone(e)' > 1 => herded'[e].ticks > 0
    <3>1. CASE e \in G
      <4>1. {e} \notin subgraphs' /\ alone'[e] = 0
        BY <1>3, <1>4, <3>1 DEF HerdsInv, TicksMatch
      <4>2. RunsAlone(e)' = 0 /\ herded'[e].ticks = Member
        BY <1>1, <1>2, <3>1, <4>1 DEF RunsAlone
      <4> QED
        BY <4>2
    <3>2. CASE e \notin G
      <4>1. herded'[e] = herded[e] /\ ({e} \in subgraphs' <=> {e} \in subgraphs)
        BY <1>1, <3>2
      <4>2. \A K \in subgraphs : ~(e \in K /\ K # {e})
        BY <2>2, <3>2
      <4>3. RunsAlone(e)' = RunsAlone(e)
        BY <4>1 DEF RunsAlone
      <4> QED
        BY <2>2, <4>1, <4>2, <4>3 DEF HerdsInv, TicksMatch
    <3> QED
      BY <3>1, <3>2
  <2> QED
    BY <2>1, <2>2 DEF TicksMatch, Member
<1>8. LeadersAreHerded'
  BY DEF LeadersAreHerded
<1> QED
  BY <1>5, <1>6, <1>7, <1>8 DEF HerdsInv

LEMMA JoinManyKeeps ==
    ASSUME HerdsInv, NEW G \in subgraphs, JoinMany(G)
    PROVE  HerdsInv'
<1>1. Many(G) /\ subgraphs' = subgraphs \ {G} /\ herd_phase = "join"
      /\ UNCHANGED <<flock, herds, herd_phase, alone>>
  BY DEF JoinMany
<1>2. ASSUME NEW h \in WinningHerds(G), JoinTo(G, h), next_herd' = next_herd PROVE HerdsInv'
  <2>1. h \in HerdsOf(G)
    BY DEF WinningHerds
  <2>2. PICK e \in G : herded[e] # NoHerd /\ h = herded[e].herd
    BY <2>1 DEF HerdsOf
  <2>3. h \in Herd
    BY <2>2 DEF HerdsInv, HerdTypes, GroupsApart, Membership
  <2> QED
    BY <1>1, <1>2, <2>3, JoinToKeeps DEF HerdsInv, HerdTypes
<1>3. ASSUME JoinTo(G, NewHerd(G)), next_herd' = next_herd + 1 PROVE HerdsInv'
  <2>1. NewHerd(G) \in Herd
    <3>1. (CHOOSE e \in G : TRUE) \in Herdable
      BY DEF HerdsInv, HerdTypes, GroupsApart
    <3> QED
      BY <3>1 DEF NewHerd, Herd, HerdsInv, HerdTypes
  <2> QED
    BY <1>1, <1>3, <2>1, JoinToKeeps DEF HerdsInv, HerdTypes
<1> QED
  BY <1>2, <1>3 DEF JoinMany

\* One who is alone in its turn: it stays a member of its herd, or leaves it, by how long
\* it has been alone.
LEMMA DepartingIs ==
    ASSUME HerdsInv, NEW e \in Herdable, {e} \in subgraphs, herded[e] # NoHerd
    PROVE  LET now == Departing(herded[e]) IN
           /\ now = NoHerd <=> (alone[e] > 1 /\ (alone[e] - 1) * RUN_FREQUENCY >= Expiry)
           /\ now # NoHerd =>
                /\ now \in Membership
                /\ now.ticks = Expiry - RUN_FREQUENCY * (alone[e] - 1)
                /\ alone[e] > 1 => now.ticks > 0
<1> DEFINE h == herded[e]
           n == alone[e]
           to == InMap(mapping, h.herd)
           left == Max({h.ticks - RUN_FREQUENCY, 0})
<1>1. h \in Membership /\ n \in Nat /\ n > 0
  BY DEF HerdsInv, HerdTypes, TicksMatch
<1>2. to \in Herd
  BY <1>1, InMapIsHerd DEF HerdsInv, Membership
<1>3. h.ticks \in 0 .. Member /\ Member = Expiry + 1 /\ Expiry \in Nat /\ RUN_FREQUENCY = 5
  BY <1>1, HerdsAssumption DEF Membership, Member, RUN_FREQUENCY
<1>4. left = IF h.ticks - RUN_FREQUENCY > 0 THEN h.ticks - RUN_FREQUENCY ELSE 0
  <2>1. h.ticks - RUN_FREQUENCY \in Int /\ 0 \in Int
    BY <1>3
  <2> QED
    BY <2>1, LargerOf
<1>5. \/ n = 1 /\ h.ticks = Member
      \/ n > 1 /\ h.ticks = Expiry - RUN_FREQUENCY * ((n - 1) - 1) /\ (n - 1 > 1 => h.ticks > 0)
  <2>1. \A G \in subgraphs : ~(e \in G /\ G # {e})
    BY DEF HerdsInv, GroupsApart
  <2>2. \/ n - 1 = 0 /\ h.ticks = Member
        \/ /\ n - 1 > 0 /\ h.ticks = Expiry - RUN_FREQUENCY * ((n - 1) - 1)
           /\ n - 1 > 1 => h.ticks > 0
    BY <2>1 DEF HerdsInv, TicksMatch, RunsAlone
  <2> QED
    BY <1>1, <2>2
<1>6. Departing(herded[e]) = IF h.ticks = Member THEN PendingDeparture(to, Expiry)
                             ELSE IF left = 0 THEN NoHerd ELSE PendingDeparture(to, left)
  BY DEF Departing
<1>7. /\ PendingDeparture(to, Expiry) \in Membership /\ PendingDeparture(to, Expiry) # NoHerd
      /\ PendingDeparture(to, Expiry).ticks = Expiry
  BY <1>2, <1>3, MembershipIsNone DEF PendingDeparture
<1> HIDE DEF to
<1>8. left # 0 => /\ PendingDeparture(to, left) \in Membership /\ PendingDeparture(to, left) # NoHerd
                  /\ PendingDeparture(to, left).ticks = left
  <2>1. left # 0 => left \in 0 .. Member
    BY <1>3, <1>4
  <2> HIDE DEF left
  <2> QED
    BY <1>2, <2>1, MembershipIsNone DEF PendingDeparture
<1> HIDE DEF h, n, left
<1>9. CASE h.ticks = Member
  <2>1. n = 1
    BY <1>1, <1>3, <1>5, <1>9
  <2> QED
    BY <1>3, <1>6, <1>7, <1>9, <2>1 DEF n
<1>10. CASE h.ticks # Member
  <2>1. n > 1 /\ h.ticks = Expiry - 5 * (n - 2)
    BY <1>1, <1>3, <1>5, <1>10
  <2>2. left = 0 <=> (n - 1) * 5 >= Expiry
    BY <1>1, <1>3, <1>4, <2>1
  <2>3. left # 0 => left = Expiry - 5 * (n - 1) /\ left > 0
    BY <1>1, <1>3, <1>4, <2>1
  <2> QED
    BY <1>3, <1>6, <1>8, <1>10, <2>1, <2>2, <2>3 DEF n
<1> QED
  BY <1>9, <1>10

LEMMA JoinSingleIs ==
    ASSUME HerdsInv, NEW e \in flock, JoinSingle(e)
    PROVE  /\ {e} \in subgraphs /\ subgraphs' = subgraphs \ {{e}} /\ e \in Herdable
           /\ \A f \in Herdable : f # e => herded'[f] = herded[f]
           /\ herded[e] = NoHerd => herded'[e] = NoHerd
           /\ herded[e] # NoHerd =>
                /\ herded'[e] = NoHerd <=> (alone[e] > 1 /\ (alone[e] - 1) * RUN_FREQUENCY >= Expiry)
                /\ herded'[e] # NoHerd =>
                     /\ herded'[e] \in Membership
                     /\ herded'[e].ticks = Expiry - RUN_FREQUENCY * (alone[e] - 1)
                     /\ alone[e] > 1 => herded'[e].ticks > 0
           /\ herded' \in [Herdable -> Membership \cup {NoHerd}]
<1>1. /\ {e} \in subgraphs /\ subgraphs' = subgraphs \ {{e}} /\ e \in Herdable
      /\ herded' = [herded EXCEPT ![e] = IF herded[e] = NoHerd THEN NoHerd ELSE Departing(herded[e])]
      /\ herded \in [Herdable -> Membership \cup {NoHerd}]
  BY DEF JoinSingle, HerdsInv, HerdTypes
<1>2. herded'[e] = IF herded[e] = NoHerd THEN NoHerd ELSE Departing(herded[e])
  BY <1>1
<1>3. CASE herded[e] = NoHerd
  BY <1>1, <1>2, <1>3
<1>4. CASE herded[e] # NoHerd
  <2>1. herded'[e] = Departing(herded[e])
    BY <1>2, <1>4
  <2> QED
    BY <1>1, <1>4, <2>1, DepartingIs
<1> QED
  BY <1>3, <1>4

LEMMA JoinSingleKeeps ==
    ASSUME HerdsInv, NEW e \in flock, JoinSingle(e)
    PROVE  HerdsInv'
<1>1. /\ {e} \in subgraphs /\ subgraphs' = subgraphs \ {{e}} /\ e \in Herdable
      /\ \A f \in Herdable : f # e => herded'[f] = herded[f]
      /\ herded[e] = NoHerd => herded'[e] = NoHerd
      /\ herded'[e] # NoHerd =>
           /\ herded'[e].ticks = Expiry - RUN_FREQUENCY * (alone[e] - 1)
           /\ alone[e] > 1 => herded'[e].ticks > 0
      /\ herded' \in [Herdable -> Membership \cup {NoHerd}]
  BY JoinSingleIs
<1>2. /\ herd_phase = "join" /\ mapping' = mapping /\ alone' = alone
      /\ UNCHANGED <<flock, herds, next_herd, herd_phase>>
      /\ found' = IF herded'[e] = NoHerd THEN found
                  ELSE AddMembers(found, mapping', herded'[e].herd, {e})
  BY <1>1 DEF JoinSingle, HerdsInv, HerdTypes
<1>3. \A K \in subgraphs' : e \notin K
  BY <1>1 DEF HerdsInv, GroupsApart
<1>4. HerdTypes'
  BY <1>1, <1>2 DEF HerdsInv, HerdTypes, Membership, Herd, Member
<1>5. GroupsApart'
  <2>1. ASSUME NEW k \in DOMAIN found', NEW f \in found'[k]
        PROVE  f \in Herdable /\ herded'[f] # NoHerd /\ \A K \in subgraphs' : f \notin K
    <3>1. CASE herded'[e] = NoHerd
      <4>1. k \in DOMAIN found /\ f \in found[k]
        BY <1>2, <2>1, <3>1
      <4>2. f # e
        BY <1>1, <4>1 DEF HerdsInv, GroupsApart
      <4> QED
        BY <1>1, <4>1, <4>2 DEF HerdsInv, GroupsApart
    <3>2. CASE herded'[e] # NoHerd
      <4>1. f \in {e} \/ \E l \in DOMAIN found : f \in found[l]
        BY <1>2, <2>1, <3>2, FoundAre
      <4>2. CASE f = e
        BY <1>1, <1>3, <3>2, <4>2
      <4>3. CASE f # e /\ \E l \in DOMAIN found : f \in found[l]
        BY <1>1, <4>3 DEF HerdsInv, GroupsApart
      <4> QED
        BY <4>1, <4>2, <4>3
    <3> QED
      BY <3>1, <3>2
  <2> QED
    BY <1>1, <1>2, <2>1 DEF HerdsInv, GroupsApart
<1>6. TicksMatch'
  <2>1. ASSUME NEW K \in subgraphs', NEW f \in K
        PROVE  IF K = {f} THEN alone'[f] > 0 ELSE alone'[f] = 0
    BY <1>1, <1>2 DEF HerdsInv, TicksMatch
  <2>2. ASSUME NEW f \in Herdable, herded'[f] # NoHerd,
               \A K \in subgraphs' : ~(f \in K /\ K # {f})
        PROVE  \/ RunsAlone(f)' = 0 /\ herded'[f].ticks = Member
               \/ /\ RunsAlone(f)' > 0 /\ herded'[f].ticks = Expiry - RUN_FREQUENCY * (RunsAlone(f)' - 1)
                  /\ RunsAlone(f)' > 1 => herded'[f].ticks > 0
    <3>1. CASE f = e
      <4>1. RunsAlone(e)' = alone[e] /\ alone[e] > 0
        BY <1>1, <1>2, <1>3 DEF RunsAlone, HerdsInv, TicksMatch
      <4> QED
        BY <1>1, <2>2, <3>1, <4>1
    <3>2. CASE f # e
      <4>1. herded'[f] = herded[f] /\ ({f} \in subgraphs' <=> {f} \in subgraphs)
        BY <1>1, <3>2
      <4>2. \A K \in subgraphs : ~(f \in K /\ K # {f})
        BY <1>1, <2>2, <3>2
      <4>3. RunsAlone(f)' = RunsAlone(f)
        BY <1>2, <4>1 DEF RunsAlone
      <4> QED
        BY <2>2, <4>1, <4>2, <4>3 DEF HerdsInv, TicksMatch
    <3> QED
      BY <3>1, <3>2
  <2> QED
    BY <2>1, <2>2 DEF TicksMatch, Member
<1>7. LeadersAreHerded'
  BY <1>2 DEF LeadersAreHerded
<1> QED
  BY <1>4, <1>5, <1>6, <1>7 DEF HerdsInv

\* Who leads is in the herd, or was found in it.
LEMMA RegisterKeeps ==
    ASSUME HerdsInv, RegisterAssignedHerds
    PROVE  HerdsInv'
<1>1. /\ subgraphs = {} /\ herd_phase' = "idle" /\ DOMAIN found' = {} /\ DOMAIN mapping' = {}
      /\ UNCHANGED <<flock, herded, next_herd, subgraphs, alone>>
  BY DEF RegisterAssignedHerds
<1>2. PICK leader \in [DOMAIN found -> Herdable] :
        /\ \A h \in DOMAIN found : leader[h] \in Leaders(h)
        /\ herds' = [h \in DOMAIN found |->
                       [leader |-> leader[h], members |-> Cardinality(found[h])]]
  BY DEF RegisterAssignedHerds
<1>3. ASSUME NEW h \in DOMAIN found PROVE herded[leader[h]] # NoHerd
  <2>1. leader[h] \in Leaders(h)
    BY <1>2
  <2>2. IsIn(leader[h], h) \/ leader[h] \in found[h]
    BY <2>1 DEF Leaders
  <2> QED
    BY <2>2 DEF IsIn, HerdsInv, GroupsApart
<1>4. LeadersAreHerded'
  <2>1. \A h \in DOMAIN herds' : h \in DOMAIN found /\ herds'[h].leader = leader[h]
    BY <1>2
  <2> QED
    BY <1>1, <1>3, <2>1 DEF LeadersAreHerded
<1>5. HerdTypes' /\ GroupsApart' /\ TicksMatch'
  BY <1>1 DEF HerdsInv, HerdTypes, GroupsApart, TicksMatch, RunsAlone, Membership, Herd, Member
<1> QED
  BY <1>4, <1>5 DEF HerdsInv

LEMMA HerdsInvNext == HerdsInv /\ [HerdsNext]_herdVars => HerdsInv'
<1> SUFFICES ASSUME HerdsInv, [HerdsNext]_herdVars PROVE HerdsInv'
  OBVIOUS
<1>1. ASSUME NEW e \in flock, Leave(e) PROVE HerdsInv'
  BY <1>1, LeaveKeeps
<1>2. ASSUME NEW e \in flock, JoinSingle(e) PROVE HerdsInv'
  BY <1>2, JoinSingleKeeps
<1>3. ASSUME NEW G \in subgraphs, JoinMany(G) PROVE HerdsInv'
  BY <1>3, JoinManyKeeps
<1>4. CASE StartJoining
  BY <1>4, StartJoiningKeeps
<1>5. CASE RegisterAssignedHerds
  BY <1>5, RegisterKeeps
<1>6. CASE UNCHANGED herdVars
  <2>1. UNCHANGED <<flock, herded, herds, next_herd, herd_phase, subgraphs, found, mapping, alone>>
    BY <1>6 DEF herdVars
  <2> QED
    BY <2>1 DEF HerdsInv, HerdTypes, GroupsApart, TicksMatch, RunsAlone, LeadersAreHerded, Membership, Herd, Member
<1> QED
  BY <1>1, <1>2, <1>3, <1>4, <1>5, <1>6 DEF HerdsNext

\* When a herd is left, and when not.
LeftInTime(e) ==
    LET expired == alone[e] > 1 /\ (alone[e] - 1) * RUN_FREQUENCY >= Expiry
    IN (herded[e]' = NoHerd) <=> ({e} \in subgraphs \ subgraphs' /\ expired)

LEMMA DepartureStep ==
    ASSUME HerdsInv, HerdsNext, NEW e \in flock', herded[e] # NoHerd
    PROVE  LeftInTime(e)
<1>0. /\ flock \subseteq Herdable /\ herded \in [Herdable -> Membership \cup {NoHerd}]
  BY DEF HerdsInv, HerdTypes
<1>1. ASSUME NEW f \in flock, Leave(f) PROVE LeftInTime(e)
  <2>1. e \in flock /\ e # f /\ subgraphs' = subgraphs /\ herded'[e] = herded[e]
    BY <1>0, <1>1 DEF Leave
  <2> QED
    BY <2>1 DEF LeftInTime
<1>2. ASSUME NEW f \in flock, JoinSingle(f) PROVE LeftInTime(e)
  <2>1. e \in Herdable
    BY <1>0, <1>2 DEF JoinSingle
  <2>2. CASE e = f
    BY <1>2, <2>2, JoinSingleIs DEF LeftInTime
  <2>3. CASE e # f
    <3>1. subgraphs' = subgraphs \ {{f}} /\ herded'[e] = herded[e]
      BY <1>2, <2>1, <2>3, JoinSingleIs
    <3>2. {e} # {f}
      BY <2>3
    <3>3. {e} \notin subgraphs \ subgraphs'
      BY <3>1, <3>2
    <3> QED
      BY <3>1, <3>3 DEF LeftInTime
  <2> QED
    BY <2>2, <2>3
<1>3. ASSUME NEW G \in subgraphs, JoinMany(G) PROVE LeftInTime(e)
  <2>1. e \in Herdable /\ subgraphs' = subgraphs \ {G} /\ Many(G)
    BY <1>0, <1>3 DEF JoinMany
  <2>2. {e} \notin subgraphs \ subgraphs'
    BY <2>1, ManyAreNotOne
  <2>3. \E h \in Herd : herded'[e] \in {MemberOf(h), herded[e]}
    <3>1. ASSUME NEW h, JoinTo(G, h) PROVE herded'[e] \in {MemberOf(h), herded[e]}
      BY <2>1, <3>1 DEF JoinTo
    <3>2. ASSUME NEW h \in WinningHerds(G) PROVE h \in Herd
      <4>1. PICK f \in G : herded[f] # NoHerd /\ h = herded[f].herd
        BY DEF WinningHerds, HerdsOf
      <4> QED
        BY <1>0, <4>1 DEF HerdsInv, GroupsApart, Membership
    <3>3. NewHerd(G) \in Herd
      <4>1. (CHOOSE f \in G : TRUE) \in Herdable
        BY DEF HerdsInv, HerdTypes, GroupsApart
      <4> QED
        BY <4>1 DEF NewHerd, Herd, HerdsInv, HerdTypes
    <3> QED
      BY <1>3, <3>1, <3>2, <3>3 DEF JoinMany
  <2>4. herded'[e] # NoHerd
    BY <2>3, MembershipIsNone, HerdsAssumption DEF Member
  <2> QED
    BY <2>2, <2>4 DEF LeftInTime
<1>4. CASE StartJoining
  <2>1. subgraphs = {} /\ herded' = herded
    BY <1>4 DEF StartJoining, HerdsInv, GroupsApart
  <2> QED
    BY <2>1 DEF LeftInTime
<1>5. CASE RegisterAssignedHerds
  <2>1. subgraphs = {} /\ herded' = herded
    BY <1>5 DEF RegisterAssignedHerds
  <2> QED
    BY <2>1 DEF LeftInTime
<1> QED
  BY <1>1, <1>2, <1>3, <1>4, <1>5 DEF HerdsNext

\* The inductive invariant of herds.
THEOREM HerdsInvariant == HerdsSpec => []HerdsInv
<1>1. HerdsInit => HerdsInv
  BY HerdsInvInit
<1>2. HerdsInv /\ [HerdsNext]_herdVars => HerdsInv'
  BY HerdsInvNext
<1> QED
  BY <1>1, <1>2, PTL DEF HerdsSpec

\* The leader of every herd belongs to it after HerdJoiningSystem, and one leaves its
\* herd in a run of the system exactly when it has been by itself in all the runs
\* of DEPARTURE_EXPIRY: never earlier, never later, and not by being with others.
THEOREM HerdsKept == HerdsSpec => HerdsAreKept
<1>1. HerdsInv => LeadersAreHerded
  BY DEF HerdsInv
<1>2. HerdsInv /\ [HerdsNext]_herdVars =>
        [\A e \in flock' : herded[e] # NoHerd =>
           LET expired == alone[e] > 1 /\ (alone[e] - 1) * RUN_FREQUENCY >= Expiry
           IN (herded[e]' = NoHerd) <=> ({e} \in subgraphs \ subgraphs' /\ expired)]_herdVars
  BY DepartureStep DEF LeftInTime
<1> QED
  BY <1>1, <1>2, HerdsInvariant, PTL DEF HerdsSpec, HerdsAreKept, DepartureTakesItsTime

-----------------------------------------------------------------------------
(* Sums over a set, as Functions defines them *)
\* What is left of a sum, and what it is of: a sum is a function of the sets summed over.
SumsUp(f, G) ==
    LET S == DOMAIN f IN
    G = [s \in SUBSET S |-> IF s = {} THEN 0
                            ELSE LET x == CHOOSE x \in s : TRUE IN f[x] + G[s \ {x}]]

LEMMA CardinalityWithout ==
    ASSUME NEW S, IsFiniteSet(S), NEW s \in SUBSET S, NEW x \in s
    PROVE  /\ Cardinality(s) \in Nat /\ Cardinality(s) > 0
           /\ Cardinality(s \ {x}) = Cardinality(s) - 1
<1>1. IsFiniteSet(s)
  BY FS_Subset
<1>2. Cardinality(s) \in Nat /\ Cardinality(s \ {x}) = Cardinality(s) - 1
  BY <1>1, FS_CardinalityType, FS_RemoveElement
<1>3. Cardinality(s \ {x}) \in Nat
  BY <1>1, FS_Subset, FS_CardinalityType
<1> QED
  BY <1>2, <1>3

LEMMA SumExists ==
    ASSUME NEW S, IsFiniteSet(S), NEW f \in [S -> Int]
    PROVE  \E G : SumsUp(f, G)
<1> DEFINE Upto(n) == {s \in SUBSET S : Cardinality(s) <= n}
           Is(g, n) == g = [s \in Upto(n) |-> IF s = {} THEN 0
                            ELSE LET x == CHOOSE x \in s : TRUE IN f[x] + g[s \ {x}]]
           N == {n \in Nat : \E g : Is(g, n)}
<1>0. \A s \in SUBSET S : Cardinality(s) \in Nat /\ IsFiniteSet(s) /\ (Cardinality(s) = 0 <=> s = {})
  BY FS_Subset, FS_CardinalityType, FS_EmptySet
<1>1. 0 \in N
  <2> DEFINE g == [s \in Upto(0) |-> 0]
  <2>1. \A s \in Upto(0) : s = {}
    BY <1>0
  <2>2. Is(g, 0)
    BY <2>1
  <2> HIDE DEF g, Is
  <2> QED
    BY <2>2
<1>2. ASSUME NEW n \in Nat, n \in N PROVE n + 1 \in N
  <2>1. PICK g : Is(g, n)
    BY <1>2
  <2> DEFINE Body(h, s) == IF s = {} THEN 0
                            ELSE LET x == CHOOSE x \in s : TRUE IN f[x] + h[s \ {x}]
             h == [s \in Upto(n + 1) |-> IF s \in Upto(n) THEN g[s] ELSE Body(g, s)]
  <2>2. \A s \in Upto(n) : g[s] = Body(g, s)
    BY <2>1
  <2>3. ASSUME NEW s \in Upto(n + 1) PROVE h[s] = Body(h, s)
    <3>1. CASE s = {}
      BY <1>0, <2>2, <2>3, <3>1
    <3>2. CASE s # {}
      <4> DEFINE x == CHOOSE x \in s : TRUE
      <4>1. x \in s
        BY <3>2
      <4>2. Cardinality(s \ {x}) = Cardinality(s) - 1 /\ Cardinality(s) \in Nat
        BY <4>1, CardinalityWithout
      <4>3. s \ {x} \in Upto(n)
        BY <2>3, <4>2
      <4>4. s \ {x} \in Upto(n + 1)
        BY <4>3, <4>2
      <4>5. h[s \ {x}] = g[s \ {x}]
        BY <4>3, <4>4
      <4>6. h[s] = f[x] + g[s \ {x}]
        BY <2>2, <2>3, <3>2
      <4> QED
        BY <3>2, <4>5, <4>6
    <3> QED
      BY <3>1, <3>2
  <2>4. h = [s \in Upto(n + 1) |-> h[s]]
    OBVIOUS
  <2> HIDE DEF h
  <2>5. h = [s \in Upto(n + 1) |-> Body(h, s)]
    BY <2>3, <2>4
  <2>6. Is(h, n + 1)
    BY <2>5
  <2> HIDE DEF Is
  <2> QED
    BY <2>6
<1> HIDE DEF N
<1>3. Nat \subseteq N
  BY <1>1, <1>2, NatSetInduction
<1>4. PICK g : Is(g, Cardinality(S))
  BY <1>3, FS_CardinalityType DEF N
<1>5. Upto(Cardinality(S)) = SUBSET S
  BY FS_Subset
<1> HIDE DEF Upto
<1>6. g = [s \in SUBSET S |-> IF s = {} THEN 0
                            ELSE LET x == CHOOSE x \in s : TRUE IN f[x] + g[s \ {x}]]
  BY <1>4, <1>5
<1>7. DOMAIN f = S
  OBVIOUS
<1> QED
  BY <1>6, <1>7 DEF SumsUp

LEMMA SumIsSum ==
    ASSUME NEW f
    PROVE  SumFunction(f) = (CHOOSE G : SumsUp(f, G))[DOMAIN f]
BY DEF SumFunction, SumFunctionOnSet, FoldFunctionOnSet, MapThenFoldSet, SumsUp

\* The sum over s is that without y and y's, whichever y is taken.
Apart(f, G, s) == G[s] \in Int /\ \A y \in s : G[s] = f[y] + G[s \ {y}]

\* A sum may be taken in any order.
LEMMA SumInAnyOrder ==
    ASSUME NEW S, IsFiniteSet(S), NEW f \in [S -> Int], NEW G, SumsUp(f, G)
    PROVE  /\ G \in [SUBSET S -> Int] /\ G[{}] = 0
           /\ \A s \in SUBSET S : Apart(f, G, s)
<1> DEFINE N == {n \in Nat : \A s \in SUBSET S : Cardinality(s) <= n => Apart(f, G, s)}
<1>0. \A s \in SUBSET S : Cardinality(s) \in Nat /\ IsFiniteSet(s) /\ (Cardinality(s) = 0 <=> s = {})
  BY FS_Subset, FS_CardinalityType, FS_EmptySet
<1> DEFINE One(s) == CHOOSE x \in s : TRUE
<1>1. /\ G = [s \in SUBSET S |-> G[s]] /\ G[{}] = 0
      /\ \A s \in SUBSET S : s # {} => G[s] = f[One(s)] + G[s \ {One(s)}]
  <2>1. DOMAIN f = S
    OBVIOUS
  <2>2. G = [s \in SUBSET S |-> IF s = {} THEN 0 ELSE f[One(s)] + G[s \ {One(s)}]]
    BY <2>1 DEF SumsUp
  <2> HIDE DEF One
  <2> QED
    BY <2>2
<1> HIDE DEF One
<1>2. 0 \in N
  <2>1. \A s \in SUBSET S : Cardinality(s) <= 0 => s = {}
    BY <1>0
  <2>2. Apart(f, G, {})
    BY <1>1 DEF Apart
  <2> QED
    BY <2>1, <2>2
<1>3. ASSUME NEW n \in Nat, n \in N PROVE n + 1 \in N
  <2>0. SUFFICES ASSUME NEW s \in SUBSET S, Cardinality(s) <= n + 1 PROVE Apart(f, G, s)
    OBVIOUS
  <2>1. CASE Cardinality(s) <= n
    BY <1>3, <2>1
  <2>2. CASE Cardinality(s) = n + 1
    <3> DEFINE x == One(s)
    <3>1a. s # {}
      BY <1>0, <2>2
    <3>1b. x \in s
      BY <3>1a DEF One
    <3>2. x \in s /\ G[s] = f[x] + G[s \ {x}]
      BY <1>1, <3>1a, <3>1b
    <3> HIDE DEF x
    <3>3. \A y \in s : Cardinality(s \ {y}) = n /\ s \ {y} \in SUBSET S
      BY <2>2, CardinalityWithout
    <3>4. \A y \in s : Apart(f, G, s \ {y})
      BY <1>3, <3>3
    <3>5. \A y \in s : f[y] \in Int
      OBVIOUS
    <3>6. ASSUME NEW y \in s PROVE G[s] = f[y] + G[s \ {y}]
      <4>1. CASE y = x
        BY <3>2, <4>1
      <4>2. CASE y # x
        <5>1. G[s \ {x}] = f[y] + G[(s \ {x}) \ {y}]
          BY <3>2, <3>4, <4>2 DEF Apart
        <5>2. G[s \ {y}] = f[x] + G[(s \ {y}) \ {x}]
          BY <3>2, <3>4, <4>2 DEF Apart
        <5>3. (s \ {x}) \ {y} = (s \ {y}) \ {x}
          OBVIOUS
        <5>4. G[(s \ {x}) \ {y}] \in Int
          <6>1. Cardinality(s \ {x}) = n /\ y \in s \ {x}
            BY <3>2, <3>3, <4>2
          <6>2. Cardinality((s \ {x}) \ {y}) = n - 1 /\ n > 0 /\ (s \ {x}) \ {y} \in SUBSET S
            BY <3>2, <3>3, <6>1, CardinalityWithout
          <6>3. Apart(f, G, (s \ {x}) \ {y})
            BY <1>3, <6>2
          <6> QED
            BY <6>3 DEF Apart
        <5>5. f[x] \in Int /\ f[y] \in Int
          BY <3>2, <3>5
        <5>6. G[(s \ {x}) \ {y}] = G[(s \ {y}) \ {x}]
          BY <5>3
        <5>7. G[s] = f[x] + (f[y] + G[(s \ {x}) \ {y}])
          BY <3>2, <5>1
        <5>8. G[s] = f[y] + (f[x] + G[(s \ {x}) \ {y}])
          BY <5>4, <5>5, <5>7
        <5> QED
          BY <5>2, <5>6, <5>8
      <4> QED
        BY <4>1, <4>2
    <3>7. G[s] \in Int
      <4>1. f[x] \in Int /\ G[s \ {x}] \in Int
        BY <3>2, <3>4, <3>5 DEF Apart
      <4> QED
        BY <3>2, <4>1
    <3> QED
      BY <3>6, <3>7 DEF Apart
  <2> QED
    BY <1>0, <2>0, <2>1, <2>2
<1> HIDE DEF N
<1>4. Nat \subseteq N
  BY <1>2, <1>3, NatSetInduction
<1>5. \A s \in SUBSET S : Apart(f, G, s)
  BY <1>0, <1>4 DEF N
<1>6. G \in [SUBSET S -> Int]
  BY <1>1, <1>5 DEF Apart
<1> QED
  BY <1>1, <1>5, <1>6

\* The parts of a sum: a function of the sets that are summed over.
LEMMA SumParts ==
    ASSUME NEW S, IsFiniteSet(S), NEW f \in [S -> Int]
    PROVE  \E G \in [SUBSET S -> Int] :
              /\ SumFunction(f) = G[S] /\ G[{}] = 0
              /\ \A s \in SUBSET S : Apart(f, G, s)
<1>1. \E G : SumsUp(f, G)
  BY SumExists
<1>2. PICK G : SumsUp(f, G) /\ G = CHOOSE H : SumsUp(f, H)
  BY <1>1
<1>3. DOMAIN f = S
  OBVIOUS
<1>4. SumFunction(f) = G[S]
  BY <1>2, <1>3, SumIsSum
<1>5. /\ G \in [SUBSET S -> Int] /\ G[{}] = 0
      /\ \A s \in SUBSET S : Apart(f, G, s)
  BY <1>2, SumInAnyOrder
<1> QED
  BY <1>4, <1>5

\* A sum of integers is one.
LEMMA SumType ==
    ASSUME NEW S, IsFiniteSet(S), NEW f \in [S -> Int]
    PROVE  SumFunction(f) \in Int
<1>1. PICK G \in [SUBSET S -> Int] : /\ SumFunction(f) = G[S] /\ G[{}] = 0
                                     /\ \A s \in SUBSET S : Apart(f, G, s)
  BY SumParts
<1> QED
  BY <1>1

\* Sums of what agrees agree.
LEMMA SumsAgree ==
    ASSUME NEW S, IsFiniteSet(S), NEW f \in [S -> Int], NEW g \in [S -> Int],
           NEW F, NEW G, F[{}] = 0, G[{}] = 0,
           \A s \in SUBSET S : Apart(f, F, s) /\ Apart(g, G, s)
    PROVE  \A s \in SUBSET S : (\A x \in s : f[x] = g[x]) => F[s] = G[s]
<1> DEFINE Same(s) == (\A x \in s : f[x] = g[x]) => F[s] = G[s]
           N == {n \in Nat : \A s \in SUBSET S : Cardinality(s) = n => Same(s)}
<1>0. \A s \in SUBSET S : Cardinality(s) \in Nat /\ (Cardinality(s) = 0 <=> s = {})
  BY FS_Subset, FS_CardinalityType, FS_EmptySet
<1>1. 0 \in N
  BY <1>0
<1>2. ASSUME NEW n \in Nat, n \in N PROVE n + 1 \in N
  <2>1. SUFFICES ASSUME NEW s \in SUBSET S, Cardinality(s) = n + 1, \A x \in s : f[x] = g[x]
                 PROVE  F[s] = G[s]
    OBVIOUS
  <2>2. PICK y \in s : TRUE
    BY <1>0, <2>1
  <2>3. Cardinality(s \ {y}) = n /\ s \ {y} \in SUBSET S
    BY <2>1, CardinalityWithout
  <2>4. F[s \ {y}] = G[s \ {y}]
    BY <1>2, <2>1, <2>3
  <2>5. F[s] = f[y] + F[s \ {y}] /\ G[s] = g[y] + G[s \ {y}]
    BY <2>2 DEF Apart
  <2> QED
    BY <2>1, <2>2, <2>4, <2>5
<1> HIDE DEF N
<1>3. Nat \subseteq N
  BY <1>1, <1>2, NatSetInduction
<1> QED
  BY <1>0, <1>3 DEF N

\* Changing what is summed at one place changes the sum by as much.
LEMMA SumChanges ==
    ASSUME NEW S, IsFiniteSet(S), NEW f \in [S -> Int], NEW g \in [S -> Int], NEW y \in S,
           \A x \in S : x # y => f[x] = g[x]
    PROVE  /\ SumFunction(f) \in Int
           /\ SumFunction(g) = (SumFunction(f) - f[y]) + g[y]
<1>1. PICK F \in [SUBSET S -> Int] : /\ SumFunction(f) = F[S] /\ F[{}] = 0
                                     /\ \A s \in SUBSET S : Apart(f, F, s)
  BY SumParts
<1>2. PICK G \in [SUBSET S -> Int] : /\ SumFunction(g) = G[S] /\ G[{}] = 0
                                     /\ \A s \in SUBSET S : Apart(g, G, s)
  BY SumParts
<1>3. \A s \in SUBSET S : (\A x \in s : f[x] = g[x]) => F[s] = G[s]
  BY <1>1, <1>2, SumsAgree
<1>4. S \ {y} \in SUBSET S /\ \A x \in S \ {y} : f[x] = g[x]
  OBVIOUS
<1>5. F[S \ {y}] = G[S \ {y}]
  BY <1>3, <1>4
<1>6. F[S] = f[y] + F[S \ {y}] /\ G[S] = g[y] + G[S \ {y}]
  BY <1>1, <1>2 DEF Apart
<1>7. F[S \ {y}] \in Int /\ f[y] \in Int /\ g[y] \in Int /\ F[S] \in Int
  OBVIOUS
<1> QED
  BY <1>1, <1>2, <1>5, <1>6, <1>7

LEMMA SumOfZeros ==
    ASSUME NEW S, IsFiniteSet(S), NEW f \in [S -> Int], \A x \in S : f[x] = 0
    PROVE  SumFunction(f) = 0
<1>1. PICK F \in [SUBSET S -> Int] : /\ SumFunction(f) = F[S] /\ F[{}] = 0
                                     /\ \A s \in SUBSET S : Apart(f, F, s)
  BY SumParts
<1> DEFINE G == [s \in SUBSET S |-> 0]
<1>2. G[{}] = 0 /\ \A s \in SUBSET S : Apart(f, G, s)
  BY DEF Apart
<1> HIDE DEF G
<1>3. \A s \in SUBSET S : (\A x \in s : f[x] = f[x]) => F[s] = G[s]
  BY <1>1, <1>2, SumsAgree
<1>4. G[S] = 0
  BY DEF G
<1> QED
  BY <1>1, <1>3, <1>4

-----------------------------------------------------------------------------
(* Things that are hauled, and the chests they are in *)

Stations == {"idle", "new", "walk", "exit", "pickup", "carry", "enter"}
HaulJobs == [thing : Thing, source : Nat, target : Nat]
Requests == [op : {"remove", "pickup", "abort", "stop", "drop", "put"}, who : Hauler, thing : Thing,
             box : Nat, needs : BOOLEAN]
Breakings == [op : {"destroy"}, place : Place]
HaulEvents == [what : {"exited", "hauled", "entered"}, who : Hauler, thing : Thing, ok : BOOLEAN]
Boxes == [contents : [Thing -> Nat], volume : Int]

\* Blocks change before the haulers' turn.
Moments ==
    /\ moment \in {"apply", "commands", "ai", "act", "end"} /\ visits \subseteq Hauler
    /\ \A n \in DOMAIN queue : queue[n].op # "destroy" => moment \in {"ai", "act", "end"}
ChestTypes ==
    /\ voxel \subseteq Place /\ edits \subseteq Place /\ associated \in [Place -> Nat]
    /\ boxes \in Seq(Boxes) /\ standing \subseteq DOMAIN boxes /\ falling \subseteq standing
ThingTypes ==
    /\ kept_in \in [Thing -> Hauler \cup Nat \cup {Nobody}]
    /\ hauled_by \in [Thing -> Hauler \cup {Nobody}] /\ lying \subseteq Thing
WorkTypes ==
    /\ haul_jobs \in Seq(HaulJobs) /\ open \subseteq DOMAIN haul_jobs
    /\ work \in [Hauler -> [job : Nat, at : Stations]]
    /\ \A h \in Hauler : IF work[h].at = "idle" THEN work[h].job = 0
                         ELSE work[h].job \in DOMAIN haul_jobs
TalkTypes ==
    /\ queue \in Seq(Requests \cup Breakings)
    /\ told \in Seq(HaulEvents) /\ mail \in [Hauler -> Seq(HaulEvents)]

\* A chest has a container of its own; when it is broken, its container is about to be
\* destroyed, once.
ChestsStand ==
    /\ \A p \in voxel : associated[p] \in standing \ falling
    /\ \A p \in Place \ voxel : associated[p] # Ground =>
          \E n \in DOMAIN queue : queue[n] = [op |-> "destroy", place |-> p]
    /\ \A n \in DOMAIN queue : queue[n].op = "destroy" =>
          /\ queue[n].place \notin voxel /\ associated[queue[n].place] \in standing \ falling
          /\ moment = "apply" => queue[n].place \notin edits
          /\ \A m \in DOMAIN queue : queue[m] = queue[n] => m = n
    /\ \A p, q \in Place : associated[p] = associated[q] /\ associated[p] # Ground => p = q

BoxesFit ==
    \A b \in standing :
        /\ boxes[b].volume = SumFunction([i \in Thing |-> Size[i] * boxes[b].contents[i]])
        /\ boxes[b].volume <= BoxLimit

\* What no update was wrong about is in one place, and listed once there.
OutThere(i) == i \in lying /\ kept_in[i] = Nobody /\ hauled_by[i] = Nobody /\ InBoxes(i) = {}
Boxed(i) == i \notin lying /\ hauled_by[i] = Nobody /\ InBoxes(i) = {kept_in[i]}
Found(i) ==
    \/ OutThere(i) \/ Boxed(i)
    \/ InBoxes(i) = {} /\ (InTransit(i) \/ InHands(i))
ListedOnce(i) == \A b \in standing \ falling : boxes[b].contents[i] <= 1
ThingsInPlace == \A i \in Thing \ misled : Found(i) /\ ListedOnce(i)

Has(h, i) == hauled_by[i] = h \/ i \in misled
OwnHaul(h, s) == \E e \in Elements(s) : e.what = "hauled" /\ e.who = h

\* What is queued for a hauler says where it is; it asks for one thing, then gives up.
Visited(h) == moment = "act" => h \notin visits
MayAbort(h) ==
    \/ work[h].at \in {"idle", "new"}
    \/ work[h].at = "walk" /\ moment # "ai" /\ Visited(h)
AskedToRemove(u) ==
    /\ moment # "ai" /\ Visited(u.who) /\ work[u.who].at = "exit"
    /\ Job(u.who).thing = u.thing /\ Job(u.who).source # Ground
AskedToPickUp(u, n) ==
    /\ moment # "ai"
    /\ \A m \in DOMAIN queue : queue[m].op = "pickup" /\ queue[m].who = u.who => m = n
    /\ \/ /\ work[u.who].at = "pickup" /\ Job(u.who).thing = u.thing
          /\ ~OwnHaul(u.who, told) /\ ~OwnHaul(u.who, mail[u.who])
       \/ /\ work[u.who].at = "idle"
          /\ \E m \in DOMAIN queue : /\ m > n /\ queue[m].op = "abort"
                                     /\ queue[m].who = u.who /\ queue[m].thing = u.thing
AskedToStop(u, n) ==
    /\ moment # "ai" /\ Visited(u.who) /\ work[u.who].at \in {"idle", "enter"}
    /\ Has(u.who, u.thing)
    /\ \A m \in DOMAIN queue : m < n /\ queue[m].op # "destroy" => queue[m].who # u.who
AskedToPut(u, n) ==
    /\ moment # "ai" /\ Visited(u.who) /\ work[u.who].at = "enter"
    /\ IF n = 1 THEN u.thing \in misled \/ OutThere(u.thing)
       ELSE /\ queue[n - 1].op = "stop"
            /\ queue[n - 1].who = u.who /\ queue[n - 1].thing = u.thing
Asked(n) ==
    LET u == queue[n] IN
    /\ u.op = "remove" => AskedToRemove(u)
    /\ u.op = "pickup" => AskedToPickUp(u, n)
    /\ u.op \in {"abort", "drop"} => MayAbort(u.who)
    /\ u.op = "stop" => AskedToStop(u, n)
    /\ u.op = "put" => AskedToPut(u, n)
AllAsked == \A n \in DOMAIN queue : queue[n].op # "destroy" => Asked(n)

\* A pickup that succeeded is still true when it is heard.
ToldRight(e) ==
    \/ work[e.who].at \in {"idle", "new"}
    \/ work[e.who].at = "walk" /\ moment = "act" /\ e.who \notin visits
    \/ /\ work[e.who].at = "pickup" /\ e.thing = Job(e.who).thing
       /\ ~OwnHaul(e.who, mail[e.who])
       /\ e.ok => Has(e.who, e.thing)
ToldOf == \A e \in Elements(told) : e.what = "hauled" => ToldRight(e)
MailRight(h) ==
    \A e \in Elements(mail[h]) : e.what = "hauled" /\ e.who = h =>
       /\ work[h].at # "exit"
       /\ work[h].at = "pickup" /\ e.ok => Has(h, Job(h).thing)
MailOf == \A h \in Hauler : MailRight(h)
CarriesIt(h) == work[h].at = "carry" => Has(h, Job(h).thing)
Carried == \A h \in Hauler : CarriesIt(h)

ContainersInv ==
    /\ Moments /\ ChestTypes /\ ThingTypes /\ WorkTypes /\ TalkTypes
    /\ ChestsStand /\ BoxesFit /\ ThingsInPlace
    /\ AllAsked /\ ToldOf /\ MailOf /\ Carried

-----------------------------------------------------------------------------
LEMMA HaulRequests ==
    ASSUME TalkTypes, NEW n \in DOMAIN queue
    PROVE  /\ n \in Nat /\ n >= 1 /\ n <= Len(queue) /\ DOMAIN queue = 1 .. Len(queue) /\ Len(queue) \in Nat
           /\ queue[n] \in Requests \cup Breakings
           /\ queue[n].op # "destroy" => queue[n] \in Requests
           /\ queue[n].op = "destroy" => queue[n] \in Breakings
BY DEF TalkTypes, Requests, Breakings

LEMMA JobsOfHaulers ==
    ASSUME WorkTypes, NEW h \in Hauler
    PROVE  /\ work[h] \in [job : Nat, at : Stations] /\ work[h].job \in Nat /\ work[h].at \in Stations
           /\ work[h].at # "idle" => /\ work[h].job \in DOMAIN haul_jobs /\ work[h].job # 0
                                     /\ Job(h) \in HaulJobs /\ Job(h).thing \in Thing
                                     /\ Job(h).source \in Nat /\ Job(h).target \in Nat
<1>1. work[h] \in [job : Nat, at : Stations] /\ work[h].job \in Nat /\ work[h].at \in Stations
  BY DEF WorkTypes
<1>2. ASSUME work[h].at # "idle"
      PROVE  work[h].job \in DOMAIN haul_jobs /\ work[h].job # 0 /\ Job(h) \in HaulJobs
  BY <1>2 DEF WorkTypes, Job
<1> QED
  BY <1>1, <1>2 DEF HaulJobs

LEMMA UpdateIsRequest ==
    ASSUME WorkTypes, NEW h \in Hauler, work[h].at # "idle",
           NEW op \in {"remove", "pickup", "abort", "stop", "drop", "put"}
    PROVE  /\ HaulUpdate(op, h) \in Requests
           /\ HaulUpdate(op, h).op = op /\ HaulUpdate(op, h).who = h
           /\ HaulUpdate(op, h).thing = Job(h).thing
           /\ HaulUpdate(op, h).needs = NeedsTransform(h)
<1>1. /\ Job(h).thing \in Thing /\ Job(h).source \in Nat /\ Job(h).target \in Nat
  BY JobsOfHaulers
<1>2. NeedsTransform(h) \in BOOLEAN
  BY DEF NeedsTransform
<1> QED
  BY <1>1, <1>2 DEF HaulUpdate, Requests

-----------------------------------------------------------------------------
(* A hauler's turn *)

Fetches(h, i) == work[h].job # 0 /\ Job(h).thing = i /\ NeedsTransform(h)
HoldsIt(h, i) == work[h].job # 0 /\ Job(h).thing = i /\ work[h].at \in {"pickup", "carry"}
WillDrop(i) == \E n \in DOMAIN queue : queue[n].op = "drop" /\ queue[n].thing = i /\ queue[n].needs
WillStop(h, i) ==
    \E n \in DOMAIN queue : queue[n].op \in {"stop", "abort"} /\ queue[n].thing = i /\ queue[n].who = h

LEMMA OnItsWay ==
    ASSUME NEW i
    PROVE  /\ InTransit(i) <=> /\ i \notin lying /\ kept_in[i] = Nobody /\ hauled_by[i] = Nobody
                               /\ WillDrop(i) \/ \E h \in Hauler : Fetches(h, i)
           /\ InHands(i) <=> /\ hauled_by[i] \in Hauler /\ kept_in[i] = hauled_by[i] /\ i \in lying
                             /\ HoldsIt(hauled_by[i], i) \/ WillStop(hauled_by[i], i)
BY DEF InTransit, InHands, WillDrop, WillStop, Fetches, HoldsIt

\* What a hauler does in its turn touches nothing but its own work, mail and requests.
TurnOf(h, w, ms, ops) ==
    /\ moment \in {"ai", "act"} /\ moment' = moment /\ visits' \subseteq visits
    /\ w \in [job : Nat, at : Stations] /\ work' = [work EXCEPT ![h] = w]
    /\ IF w.at = "idle" THEN w.job = 0 ELSE w.job \in DOMAIN haul_jobs
    /\ ms \in Seq(HaulEvents) /\ mail' = [mail EXCEPT ![h] = ms]
    /\ ops \in Seq(Requests) /\ queue' = queue \o ops /\ \A k \in DOMAIN ops : ops[k].who = h
    /\ UNCHANGED <<voxel, edits, associated, boxes, standing, falling>>
    /\ UNCHANGED <<kept_in, hauled_by, lying, misled, haul_jobs, open, told>>

OwnAsked(h) ==
    \A n \in DOMAIN queue : queue[n].op # "destroy" /\ queue[n].who = h => Asked(n)

LEMMA QueueGrows ==
    ASSUME TalkTypes, NEW ops \in Seq(Requests), queue' = queue \o ops
    PROVE  /\ queue' \in Seq(Requests \cup Breakings)
           /\ \A n \in DOMAIN queue : n \in DOMAIN queue' /\ queue'[n] = queue[n] /\ n <= Len(queue)
           /\ \A n \in DOMAIN queue' \ DOMAIN queue :
                 /\ n > Len(queue) /\ n - Len(queue) \in DOMAIN ops
                 /\ queue'[n] = ops[n - Len(queue)] /\ queue'[n] \in Requests /\ queue'[n].op # "destroy"
           /\ \A k \in DOMAIN ops : Len(queue) + k \in DOMAIN queue' /\ queue'[Len(queue) + k] = ops[k]
           /\ DOMAIN queue' = 1 .. Len(queue') /\ DOMAIN queue = 1 .. Len(queue) /\ Len(queue) \in Nat
<1>1. queue \in Seq(Requests \cup Breakings) /\ ops \in Seq(Requests \cup Breakings)
  BY DEF TalkTypes
<1>2. /\ \A n \in DOMAIN queue : n \in DOMAIN queue' /\ queue'[n] = queue[n]
      /\ \A n \in DOMAIN queue' \ DOMAIN queue :
            n > Len(queue) /\ n - Len(queue) \in DOMAIN ops /\ queue'[n] = ops[n - Len(queue)]
      /\ \A k \in DOMAIN ops : Len(queue) + k \in DOMAIN queue' /\ queue'[Len(queue) + k] = ops[k]
  BY <1>1, PositionsInConcat
<1>3. ASSUME NEW k \in DOMAIN ops PROVE ops[k] \in Requests /\ ops[k].op # "destroy"
  <2>1. ops[k] \in Requests
    OBVIOUS
  <2> QED
    BY <2>1 DEF Requests
<1>4. queue' \in Seq(Requests \cup Breakings)
  BY <1>1, ElementsOfConcat
<1>5. DOMAIN queue = 1 .. Len(queue) /\ Len(queue) \in Nat /\ DOMAIN queue' = 1 .. Len(queue')
  BY <1>1, <1>4
<1> QED
  BY <1>2, <1>3, <1>4, <1>5

LEMMA OthersAsked ==
    ASSUME ContainersInv, NEW h \in Hauler, NEW w, NEW ms, NEW ops, TurnOf(h, w, ms, ops),
           NEW n \in DOMAIN queue, queue[n].op # "destroy", queue[n].who # h
    PROVE  n \in DOMAIN queue' /\ Asked(n)'
<1>1. /\ \A m \in DOMAIN queue : m \in DOMAIN queue' /\ queue'[m] = queue[m] /\ m <= Len(queue)
      /\ \A m \in DOMAIN queue' \ DOMAIN queue :
            m - Len(queue) \in DOMAIN ops /\ queue'[m] = ops[m - Len(queue)] /\ m > Len(queue)
  BY QueueGrows DEF TurnOf, ContainersInv
<1>14. PICK u \in Requests : u = queue[n]
  BY HaulRequests DEF ContainersInv
<1>15. PICK g \in Hauler : g = u.who
  BY DEF Requests
<1>2. n \in Nat /\ n >= 1 /\ g # h /\ g = u.who /\ u = queue[n]
  BY <1>14, <1>15, HaulRequests DEF ContainersInv
<1>3. /\ work'[g] = work[g] /\ mail'[g] = mail[g] /\ Job(g)' = Job(g) /\ NeedsTransform(g)' = NeedsTransform(g)
  BY <1>2 DEF TurnOf, ContainersInv, WorkTypes, TalkTypes, Job, NeedsTransform
<1>4. /\ moment' = moment /\ visits' \subseteq visits /\ misled' = misled /\ told' = told
      /\ hauled_by' = hauled_by /\ kept_in' = kept_in /\ lying' = lying
      /\ boxes' = boxes /\ standing' = standing /\ falling' = falling
  BY DEF TurnOf
<1>5. Visited(g) => Visited(g)'
  BY <1>4 DEF Visited
<1>6. Asked(n) /\ queue'[n] = u /\ queue[n] = u
  BY <1>1, <1>2 DEF ContainersInv, AllAsked
<1>7. \A k \in DOMAIN ops : ops[k].who = h
  BY DEF TurnOf
<1>8. \A i : OutThere(i)' <=> OutThere(i)
  BY <1>4 DEF OutThere, InBoxes, Contents
<1>9. CASE u.op = "remove"
  BY <1>1, <1>2, <1>3, <1>4, <1>5, <1>6, <1>9 DEF Asked, AskedToRemove
<1>10. CASE u.op = "pickup"
  <2>1. AskedToPickUp(u, n)
    BY <1>6, <1>2, <1>10 DEF Asked
  <2>2. \A m \in DOMAIN queue' : queue'[m].op = "pickup" /\ queue'[m].who = g => m = n
    BY <1>1, <1>2, <1>6, <1>7, <2>1 DEF AskedToPickUp
  <2>3. OwnHaul(g, told)' = OwnHaul(g, told) /\ OwnHaul(g, mail[g])' = OwnHaul(g, mail[g])
    BY <1>3, <1>4 DEF OwnHaul
  <2>4. AskedToPickUp(u, n)'
    BY <1>1, <1>2, <1>3, <1>4, <1>6, <2>1, <2>2, <2>3 DEF AskedToPickUp
  <2> QED
    BY <1>1, <1>2, <1>6, <1>10, <2>4 DEF Asked
<1>11. CASE u.op \in {"abort", "drop"}
  BY <1>1, <1>3, <1>4, <1>5, <1>2, <1>6, <1>11 DEF Asked, MayAbort
<1>12. CASE u.op = "stop"
  <2>1. AskedToStop(u, n)
    BY <1>6, <1>2, <1>12 DEF Asked
  <2>2. \A m \in DOMAIN queue' : m < n /\ queue'[m].op # "destroy" => queue'[m].who # g
    BY <1>1, <1>2, <1>7, <2>1 DEF AskedToStop
  <2>3. AskedToStop(u, n)'
    BY <1>2, <1>3, <1>4, <1>5, <1>6, <2>1, <2>2 DEF AskedToStop, Has
  <2> QED
    BY <1>1, <1>2, <1>6, <1>12, <2>3 DEF Asked
<1>13. CASE u.op = "put"
  <2>1. AskedToPut(u, n)
    BY <1>6, <1>2, <1>13 DEF Asked
  <2>2. n # 1 => n - 1 \in DOMAIN queue
    BY <1>2, HaulRequests DEF ContainersInv
  <2>3. AskedToPut(u, n)'
    BY <1>1, <1>2, <1>3, <1>4, <1>5, <1>6, <1>8, <2>1, <2>2 DEF AskedToPut
  <2> QED
    BY <1>1, <1>2, <1>6, <1>13, <2>3 DEF Asked
<1> QED
  BY <1>1, <1>2, <1>9, <1>10, <1>11, <1>12, <1>13 DEF Requests

\* What h must see to in its turn: that what it fetches is dropped when it gives up, and what
\* it has is put down; that its requests, old and new, fit what it does now.
SeesToIt(h, ops) ==
    /\ \A i \in Thing \ misled : hauled_by[i] = Nobody /\ Fetches(h, i) =>
          \/ Fetches(h, i)'
          \/ \E k \in DOMAIN ops : ops[k].op = "drop" /\ ops[k].thing = i /\ ops[k].needs
    /\ \A i \in Thing \ misled : HoldsIt(h, i) =>
          \/ HoldsIt(h, i)'
          \/ \E k \in DOMAIN ops : ops[k].op \in {"stop", "abort"} /\ ops[k].thing = i

LEMMA OthersWork ==
    ASSUME ContainersInv, NEW h \in Hauler, NEW w, NEW ms, NEW ops, TurnOf(h, w, ms, ops),
           NEW g \in Hauler, g # h
    PROVE  /\ work'[g] = work[g] /\ mail'[g] = mail[g] /\ Job(g)' = Job(g)
           /\ NeedsTransform(g)' = NeedsTransform(g)
           /\ \A i : Fetches(g, i)' = Fetches(g, i) /\ HoldsIt(g, i)' = HoldsIt(g, i)
BY DEF TurnOf, ContainersInv, WorkTypes, TalkTypes, Job, NeedsTransform, Fetches, HoldsIt

LEMMA HaulerStep ==
    ASSUME ContainersInv, NEW h \in Hauler, NEW w, NEW ms, NEW ops, TurnOf(h, w, ms, ops),
           SeesToIt(h, ops), OwnAsked(h)',
           \A e \in Elements(told) : e.what = "hauled" /\ e.who = h => ToldRight(e)',
           MailRight(h)', CarriesIt(h)'
    PROVE  ContainersInv'
<1>1. /\ \A m \in DOMAIN queue : m \in DOMAIN queue' /\ queue'[m] = queue[m] /\ m <= Len(queue)
      /\ \A m \in DOMAIN queue' \ DOMAIN queue :
            /\ m - Len(queue) \in DOMAIN ops /\ queue'[m] = ops[m - Len(queue)] /\ m > Len(queue)
            /\ queue'[m] \in Requests /\ queue'[m].op # "destroy"
      /\ \A k \in DOMAIN ops : Len(queue) + k \in DOMAIN queue' /\ queue'[Len(queue) + k] = ops[k]
      /\ queue' \in Seq(Requests \cup Breakings)
  BY QueueGrows DEF TurnOf, ContainersInv
<1>2. /\ moment' = moment /\ moment \in {"ai", "act"} /\ visits' \subseteq visits
      /\ misled' = misled /\ told' = told
      /\ hauled_by' = hauled_by /\ kept_in' = kept_in /\ lying' = lying
      /\ boxes' = boxes /\ standing' = standing /\ falling' = falling
      /\ voxel' = voxel /\ edits' = edits /\ associated' = associated
      /\ haul_jobs' = haul_jobs /\ open' = open
  BY DEF TurnOf
<1>3. \A k \in DOMAIN ops : ops[k].who = h
  BY DEF TurnOf
<1>4. Moments'
  BY <1>1, <1>2 DEF ContainersInv, Moments
<1>5. ChestTypes' /\ ThingTypes' /\ BoxesFit'
  BY <1>2 DEF ContainersInv, ChestTypes, ThingTypes, BoxesFit
<1>6. WorkTypes'
  BY <1>2 DEF ContainersInv, WorkTypes, TurnOf
<1>7. TalkTypes'
  BY <1>1, <1>2 DEF ContainersInv, TalkTypes, TurnOf
<1>8. ChestsStand'
  BY <1>1, <1>2 DEF ContainersInv, ChestsStand
<1>9. ASSUME NEW i \in Thing \ misled PROVE Found(i)' /\ ListedOnce(i)'
  <2>1. Found(i) /\ ListedOnce(i)
    BY DEF ContainersInv, ThingsInPlace
  <2>2. InBoxes(i)' = InBoxes(i) /\ ListedOnce(i)'
    BY <1>2, <2>1 DEF InBoxes, Contents, ListedOnce
  <2>3. WillDrop(i) => WillDrop(i)'
    BY <1>1 DEF WillDrop
  <2>4. \A g \in Hauler : WillStop(g, i) => WillStop(g, i)'
    BY <1>1 DEF WillStop
  <2>5. \A g \in Hauler : g # h => Fetches(g, i)' = Fetches(g, i) /\ HoldsIt(g, i)' = HoldsIt(g, i)
    BY OthersWork
  <2>6. hauled_by[i] = Nobody /\ Fetches(h, i) => Fetches(h, i)' \/ WillDrop(i)'
    BY <1>1 DEF SeesToIt, WillDrop
  <2>7. HoldsIt(h, i) => HoldsIt(h, i)' \/ WillStop(h, i)'
    BY <1>1, <1>3 DEF SeesToIt, WillStop
  <2> QED
    BY <1>2, <2>1, <2>2, <2>3, <2>4, <2>5, <2>6, <2>7 DEF Found, OutThere, Boxed, InTransit, InHands, WillDrop, WillStop, Fetches, HoldsIt
<1>10. ThingsInPlace'
  BY <1>2, <1>9 DEF ThingsInPlace
<1>11. AllAsked'
  <2> SUFFICES ASSUME NEW n \in DOMAIN queue', queue'[n].op # "destroy" PROVE Asked(n)'
    BY DEF AllAsked
  <2>1. CASE queue'[n].who = h
    BY <2>1 DEF OwnAsked
  <2>2. CASE queue'[n].who # h
    <3>1. n \in DOMAIN queue /\ queue[n].op # "destroy" /\ queue[n].who # h
      BY <1>1, <1>3, <2>2
    <3> QED
      BY <3>1, OthersAsked
  <2> QED
    BY <2>1, <2>2
<1>12. ToldOf'
  <2> SUFFICES ASSUME NEW e \in Elements(told), e.what = "hauled", e.who # h PROVE ToldRight(e)'
    BY <1>2 DEF ToldOf, Elements
  <2>1. e \in HaulEvents /\ e.who \in Hauler /\ ToldRight(e)
    <3>1. told \in Seq(HaulEvents) /\ ToldOf
      BY DEF ContainersInv, TalkTypes
    <3>2. e \in HaulEvents
      BY <3>1, ElementsType
    <3> QED
      BY <3>1, <3>2 DEF ToldOf, HaulEvents
  <2>2. /\ work'[e.who] = work[e.who] /\ mail'[e.who] = mail[e.who] /\ Job(e.who)' = Job(e.who)
    BY <2>1, OthersWork
  <2> QED
    BY <1>2, <2>1, <2>2 DEF ToldRight, Has, OwnHaul
<1>13. MailOf' /\ Carried'
  <2> SUFFICES ASSUME NEW g \in Hauler, g # h PROVE MailRight(g)' /\ CarriesIt(g)'
    BY DEF MailOf, Carried
  <2>1. work'[g] = work[g] /\ mail'[g] = mail[g] /\ Job(g)' = Job(g)
    BY OthersWork
  <2>2. MailRight(g) /\ CarriesIt(g)
    BY DEF ContainersInv, MailOf, Carried
  <2> QED
    BY <1>2, <2>1, <2>2 DEF MailRight, CarriesIt, Has
<1> QED
  BY <1>4, <1>5, <1>6, <1>7, <1>8, <1>10, <1>11, <1>12, <1>13 DEF ContainersInv

\* What is asked of and told to a hauler before its turn.
LEMMA BeforeItsTurn ==
    ASSUME ContainersInv, NEW h \in Hauler, moment = "ai" \/ (moment = "act" /\ h \in visits)
    PROVE  /\ \A n \in DOMAIN queue : queue[n].op # "destroy" /\ queue[n].who = h =>
                 \/ /\ queue[n].op = "pickup" /\ moment = "act" /\ AskedToPickUp(queue[n], n)
                    /\ work[h].at \in {"pickup", "idle"}
                 \/ queue[n].op \in {"abort", "drop"} /\ work[h].at \in {"idle", "new"}
           /\ \A e \in Elements(told) : e.what = "hauled" /\ e.who = h =>
                 \/ work[h].at \in {"idle", "new"}
                 \/ /\ work[h].at = "pickup" /\ e.thing = Job(h).thing /\ ~OwnHaul(h, mail[h])
                    /\ e.ok => Has(h, e.thing)
<1>1. ASSUME NEW n \in DOMAIN queue, queue[n].op # "destroy", queue[n].who = h
      PROVE  \/ /\ queue[n].op = "pickup" /\ moment = "act" /\ AskedToPickUp(queue[n], n)
                /\ work[h].at \in {"pickup", "idle"}
             \/ queue[n].op \in {"abort", "drop"} /\ work[h].at \in {"idle", "new"}
  <2>1. Asked(n) /\ queue[n] \in Requests /\ moment \in {"ai", "act"} /\ ~(moment # "ai" /\ Visited(h))
    BY <1>1, HaulRequests DEF ContainersInv, AllAsked, Visited
  <2> QED
    BY <1>1, <2>1 DEF Asked, Requests, AskedToRemove, AskedToPickUp, AskedToStop, AskedToPut, MayAbort
<1>2. ASSUME NEW e \in Elements(told), e.what = "hauled", e.who = h
      PROVE  \/ work[h].at \in {"idle", "new"}
             \/ /\ work[h].at = "pickup" /\ e.thing = Job(h).thing /\ ~OwnHaul(h, mail[h])
                /\ e.ok => Has(h, e.thing)
  BY <1>2 DEF ContainersInv, ToldOf, ToldRight
<1> QED
  BY <1>1, <1>2

\* What Abandon asks for.
LEMMA AbandonAsks ==
    ASSUME WorkTypes, NEW h \in Hauler
    PROVE  /\ Abandon(h) \in Seq(Requests)
           /\ \A k \in DOMAIN Abandon(h) : Abandon(h)[k].who = h /\ Abandon(h)[k].op \in {"abort", "drop"}
           /\ work[h].at \in {"exit", "pickup", "carry"} =>
                 /\ 1 \in DOMAIN Abandon(h) /\ Abandon(h)[1] = HaulUpdate("abort", h)
                 /\ 2 \in DOMAIN Abandon(h) /\ Abandon(h)[2] = HaulUpdate("drop", h)
<1>1. CASE work[h].at \in {"exit", "pickup", "carry"}
  <2>1. /\ HaulUpdate("abort", h) \in Requests /\ HaulUpdate("drop", h) \in Requests
        /\ HaulUpdate("abort", h).op = "abort" /\ HaulUpdate("abort", h).who = h
        /\ HaulUpdate("drop", h).op = "drop" /\ HaulUpdate("drop", h).who = h
    BY <1>1, UpdateIsRequest
  <2>2. Abandon(h) = <<HaulUpdate("abort", h), HaulUpdate("drop", h)>>
    BY <1>1 DEF Abandon
  <2> QED
    BY <2>1, <2>2
<1>2. CASE ~(work[h].at \in {"exit", "pickup", "carry"})
  BY <1>2 DEF Abandon
<1> QED
  BY <1>1, <1>2

\* Whatever it does, a hauler may leave it for nothing, or for a new job.
LEMMA TurnKeeps ==
    ASSUME ContainersInv, NEW h \in Hauler, moment = "ai" \/ (moment = "act" /\ h \in visits),
           NEW w \in [job : Nat, at : Stations], moment = "ai" \/ w.at = "idle",
           IF w.at = "idle" THEN w.job = 0 ELSE w.at = "new" /\ w.job \in DOMAIN haul_jobs,
           TurnTo(h, w), moment' = moment, visits' \subseteq visits,
           UNCHANGED <<voxel, edits, associated, boxes, standing, falling>>,
           UNCHANGED <<kept_in, hauled_by, lying, misled, haul_jobs, open, told>>
    PROVE  ContainersInv'
<1> DEFINE ops == Abandon(h)
<1>1. /\ ops \in Seq(Requests)
      /\ \A k \in DOMAIN ops : ops[k].who = h /\ ops[k].op \in {"abort", "drop"}
      /\ work[h].at \in {"exit", "pickup", "carry"} =>
            /\ 1 \in DOMAIN ops /\ ops[1] = HaulUpdate("abort", h)
            /\ 2 \in DOMAIN ops /\ ops[2] = HaulUpdate("drop", h)
  BY AbandonAsks DEF ContainersInv
<1>2. TurnOf(h, w, <<>>, ops)
  BY <1>1 DEF TurnOf, TurnTo
<1>3. work'[h] = w /\ mail'[h] = <<>> /\ work[h] \in [job : Nat, at : Stations]
  BY DEF TurnTo, ContainersInv, WorkTypes, TalkTypes
<1>4. work[h].at # "idle" =>
         /\ HaulUpdate("abort", h).op = "abort" /\ HaulUpdate("abort", h).thing = Job(h).thing
         /\ HaulUpdate("drop", h).op = "drop" /\ HaulUpdate("drop", h).thing = Job(h).thing
         /\ HaulUpdate("drop", h).needs = NeedsTransform(h)
  BY UpdateIsRequest DEF ContainersInv
<1>5. SeesToIt(h, ops)
  BY <1>1, <1>4 DEF SeesToIt, Fetches, HoldsIt, NeedsTransform
<1>6. /\ \A m \in DOMAIN queue : m \in DOMAIN queue' /\ queue'[m] = queue[m] /\ m <= Len(queue) /\ m \in Nat
      /\ \A m \in DOMAIN queue' \ DOMAIN queue : m - Len(queue) \in DOMAIN ops /\ queue'[m] = ops[m - Len(queue)]
      /\ \A k \in DOMAIN ops : Len(queue) + k \in DOMAIN queue' /\ queue'[Len(queue) + k] = ops[k]
      /\ Len(queue) \in Nat
  BY <1>2, QueueGrows DEF TurnOf, ContainersInv
<1> HIDE DEF ops
<1>7. ASSUME NEW n \in DOMAIN queue', queue'[n].op # "destroy", queue'[n].who = h PROVE Asked(n)'
  <2> PICK u : u = queue'[n]
    OBVIOUS
  <2>1. w.at \in {"idle", "new"}
    OBVIOUS
  <2>2. CASE n \notin DOMAIN queue
    <3>1. n - Len(queue) \in DOMAIN ops /\ queue'[n] = ops[n - Len(queue)]
      BY <1>6, <2>2
    <3>2. queue'[n].op \in {"abort", "drop"} /\ MayAbort(h)'
      BY <1>1, <1>3, <2>1, <3>1 DEF MayAbort
    <3> QED
      BY <1>7, <3>2 DEF Asked
  <2>3. CASE n \in DOMAIN queue
    <3>1. queue[n] = u /\ u.op # "destroy" /\ u.who = h
      BY <1>6, <1>7, <2>3
    <3>2. CASE u.op \in {"abort", "drop"}
      BY <1>3, <2>1, <3>1, <3>2 DEF Asked, MayAbort
    <3>3. CASE ~(u.op \in {"abort", "drop"})
      <4>1. /\ u.op = "pickup" /\ moment = "act" /\ AskedToPickUp(u, n) /\ work[h].at \in {"pickup", "idle"}
        BY <2>3, <3>1, <3>3, BeforeItsTurn
      <4>2. w.at = "idle" /\ n \in Nat /\ n <= Len(queue)
        BY <1>6, <2>3, <4>1
      <4>3. \A m \in DOMAIN queue' : queue'[m].op = "pickup" /\ queue'[m].who = h => m = n
        <5> SUFFICES ASSUME NEW m \in DOMAIN queue', queue'[m].op = "pickup", queue'[m].who = h PROVE m = n
          OBVIOUS
        <5>1. ASSUME m \notin DOMAIN queue PROVE FALSE
          <6>1. m - Len(queue) \in DOMAIN ops /\ queue'[m] = ops[m - Len(queue)]
            BY <1>6, <5>1
          <6>2. ops[m - Len(queue)].op \in {"abort", "drop"}
            BY <1>1, <6>1
          <6> QED
            BY <6>1, <6>2
        <5>2. m \in DOMAIN queue /\ queue[m] = queue'[m]
          BY <1>6, <5>1
        <5> QED
          BY <3>1, <4>1, <5>2 DEF AskedToPickUp
      <4>4. \E m \in DOMAIN queue' : m > n /\ queue'[m].op = "abort" /\ queue'[m].who = h /\ queue'[m].thing = u.thing
        <5>1. CASE work[h].at = "pickup"
          <6>1. u.thing = Job(h).thing
            BY <3>1, <4>1, <5>1 DEF AskedToPickUp
          <6>2. Len(queue) + 1 \in DOMAIN queue' /\ queue'[Len(queue) + 1] = HaulUpdate("abort", h) /\ Len(queue) + 1 > n
            BY <1>1, <1>6, <4>2, <5>1
          <6>3. HaulUpdate("abort", h).who = h
            BY DEF HaulUpdate
          <6> QED
            BY <1>4, <5>1, <6>1, <6>2, <6>3
        <5>2. CASE work[h].at = "idle"
          BY <1>6, <3>1, <4>1, <5>2 DEF AskedToPickUp
        <5> QED
          BY <4>1, <5>1, <5>2
      <4>5. AskedToPickUp(u, n)'
        BY <1>3, <3>1, <4>1, <4>2, <4>3, <4>4 DEF AskedToPickUp
      <4> QED
        BY <3>1, <4>1, <4>5 DEF Asked
    <3> QED
      BY <3>2, <3>3
  <2> QED
    BY <2>2, <2>3
<1>8. OwnAsked(h)'
  BY <1>7 DEF OwnAsked
<1>9. \A e \in Elements(told) : e.what = "hauled" /\ e.who = h => ToldRight(e)'
  BY <1>3 DEF ToldRight
<1>10. MailRight(h)' /\ CarriesIt(h)'
  BY <1>3 DEF MailRight, CarriesIt, Elements
<1> QED
  BY <1>2, <1>5, <1>8, <1>9, <1>10, HaulerStep

-----------------------------------------------------------------------------
(* GoHaulActivity *)

\* Nothing that a hauler asked for is open, nor told to it, when it is its turn to do more.
LEMMA FreshTurn ==
    ASSUME ContainersInv, NEW h \in Hauler, moment = "act", h \in visits,
           \/ work[h].at \in {"walk", "exit", "carry", "enter"}
           \/ work[h].at = "pickup" /\ OwnHaul(h, mail[h]),
           NEW w, NEW ms, NEW ops, TurnOf(h, w, ms, ops), SeesToIt(h, ops),
           \A n \in DOMAIN queue' \ DOMAIN queue : Asked(n)', MailRight(h)', CarriesIt(h)'
    PROVE  ContainersInv'
<1>1. \A n \in DOMAIN queue : queue[n].op # "destroy" => queue[n].who # h
  <2> SUFFICES ASSUME NEW n \in DOMAIN queue, queue[n].op # "destroy", queue[n].who = h PROVE FALSE
    OBVIOUS
  <2>1. AskedToPickUp(queue[n], n) /\ work[h].at = "pickup"
    BY BeforeItsTurn
  <2> QED
    BY <2>1 DEF AskedToPickUp
<1>2. \A e \in Elements(told) : e.what = "hauled" => e.who # h
  BY BeforeItsTurn
<1>3. OwnAsked(h)'
  <2>1. \A m \in DOMAIN queue : queue'[m] = queue[m]
    BY QueueGrows DEF TurnOf, ContainersInv
  <2> QED
    BY <1>1, <2>1 DEF OwnAsked
<1> QED
  BY <1>2, <1>3, HaulerStep

\* h goes on to a stage of its job, and asks for something.
GoOn(h, stage, ms, ops) ==
    /\ moment = "act" /\ h \in visits /\ work[h].at # "idle" /\ stage \in Stations \ {"idle"}
    /\ ms \in Seq(HaulEvents) /\ ops \in Seq(Requests) /\ \A k \in DOMAIN ops : ops[k].who = h
    /\ work' = [work EXCEPT ![h].at = stage] /\ mail' = [mail EXCEPT ![h] = ms]
    /\ queue' = queue \o ops /\ moment' = moment /\ visits' \subseteq visits
    /\ UNCHANGED <<voxel, edits, associated, boxes, standing, falling>>
    /\ UNCHANGED <<kept_in, hauled_by, lying, misled, haul_jobs, open, told>>

LEMMA GoesOn ==
    ASSUME ContainersInv, NEW h \in Hauler, NEW stage, NEW ms, NEW ops, GoOn(h, stage, ms, ops)
    PROVE  /\ TurnOf(h, [work[h] EXCEPT !.at = stage], ms, ops)
           /\ work'[h].at = stage /\ work'[h].job = work[h].job /\ mail'[h] = ms
           /\ Job(h)' = Job(h)
<1>1. work[h] \in [job : Nat, at : Stations] /\ work[h].job \in DOMAIN haul_jobs
  BY JobsOfHaulers DEF ContainersInv, GoOn
<1>2. work' = [work EXCEPT ![h] = [work[h] EXCEPT !.at = stage]]
  BY DEF ContainersInv, WorkTypes, GoOn
<1>4. TurnOf(h, [work[h] EXCEPT !.at = stage], ms, ops)
  BY <1>1, <1>2 DEF TurnOf, GoOn
<1>5. work'[h].at = stage /\ work'[h].job = work[h].job /\ mail'[h] = ms
  BY <1>1 DEF ContainersInv, WorkTypes, TalkTypes, GoOn
<1> QED
  BY <1>4, <1>5 DEF Job, GoOn

LEMMA NoRequest ==
    ASSUME TalkTypes
    PROVE  queue = queue \o <<>>
BY DEF TalkTypes

\* Requests that a hauler makes of its job.
Asks == {"remove", "pickup", "abort", "stop", "drop", "put"}
RequestsFor(h, names) == [n \in DOMAIN names |-> HaulUpdate(names[n], h)]

LEMMA RequestsMade ==
    ASSUME ContainersInv, NEW h \in Hauler, work[h].at # "idle",
           NEW names \in Seq(Asks),
           NEW ops, ops = RequestsFor(h, names)
    PROVE  /\ ops \in Seq(Requests) /\ DOMAIN ops = DOMAIN names
           /\ \A k \in DOMAIN ops : ops[k].who = h /\ ops[k].thing = Job(h).thing /\ ops[k].op = names[k]
<1>1. \A k \in DOMAIN names : names[k] \in {"remove", "pickup", "abort", "stop", "drop", "put"}
  BY DEF Asks
<1>2. \A k \in DOMAIN names : /\ HaulUpdate(names[k], h) \in Requests
                              /\ HaulUpdate(names[k], h).op = names[k] /\ HaulUpdate(names[k], h).who = h
                              /\ HaulUpdate(names[k], h).thing = Job(h).thing
                              /\ HaulUpdate(names[k], h).needs = NeedsTransform(h)
  BY <1>1, UpdateIsRequest DEF ContainersInv
<1> QED
  BY <1>2 DEF RequestsFor

LEMMA BeginHaulKeeps ==
    ASSUME ContainersInv, NEW h \in Hauler, BeginHaul(h)
    PROVE  ContainersInv'
<1>1. /\ moment = "act" /\ h \in visits /\ work[h].at = "new" /\ moment' = moment /\ visits' \subseteq visits
      /\ UNCHANGED <<voxel, edits, associated, boxes, standing, falling>>
      /\ UNCHANGED <<kept_in, hauled_by, lying, misled, haul_jobs, open, told>>
  BY DEF BeginHaul, HaulerActs, places, store, things
<1>2. CASE Fail(h)
  <2>1. TurnTo(h, Unemployed) /\ Unemployed \in [job : Nat, at : Stations] /\ Unemployed.at = "idle" /\ Unemployed.job = 0
    BY <1>2 DEF Fail, Unemployed, Stations
  <2> QED
    BY <1>1, <2>1, TurnKeeps
<1>3. CASE ProceedTo(h, "walk", <<>>) /\ UNCHANGED mail
  <2> PICK ops : ops = [n \in DOMAIN <<>> |-> HaulUpdate(<<>>[n], h)]
    OBVIOUS
  <2>1. ops \in Seq(Requests) /\ DOMAIN ops = {}
    OBVIOUS
  <2>2. /\ mail[h] \in Seq(HaulEvents) /\ mail' = [mail EXCEPT ![h] = mail[h]]
    BY <1>3 DEF ContainersInv, TalkTypes
  <2>3. /\ TurnOf(h, [work[h] EXCEPT !.at = "walk"], mail[h], ops)
        /\ work'[h].at = "walk" /\ work'[h].job = work[h].job /\ mail'[h] = mail[h]
        /\ Job(h)' = Job(h)
    <3>1. work' = [work EXCEPT ![h].at = "walk"] /\ queue' = queue \o ops
      BY <1>3 DEF ProceedTo
    <3>2. GoOn(h, "walk", mail[h], ops)
      BY <1>1, <2>1, <2>2, <3>1 DEF GoOn, Stations
    <3> QED
      BY <3>2, GoesOn
  <2>4. SeesToIt(h, ops)
    BY <1>1 DEF SeesToIt, Fetches, HoldsIt, NeedsTransform
  <2>5. /\ \A m \in DOMAIN queue : m \in DOMAIN queue' /\ queue'[m] = queue[m]
        /\ \A m \in DOMAIN queue' \ DOMAIN queue : m - Len(queue) \in DOMAIN ops
    BY <2>3, QueueGrows DEF TurnOf, ContainersInv
  <2>6. h \notin visits'
    BY DEF BeginHaul
  <2>7. OwnAsked(h)'
    <3> SUFFICES ASSUME NEW n \in DOMAIN queue', queue'[n].op # "destroy", queue'[n].who = h PROVE Asked(n)'
      BY DEF OwnAsked
    <3>1. n \in DOMAIN queue /\ queue[n] = queue'[n]
      BY <2>1, <2>5
    <3>2. queue'[n].op \in {"abort", "drop"}
      BY <1>1, <3>1, BeforeItsTurn
    <3>3. MayAbort(h)'
      BY <1>1, <2>3, <2>6 DEF MayAbort, Visited
    <3> QED
      BY <3>2, <3>3 DEF Asked
  <2>8. \A e \in Elements(told) : e.what = "hauled" /\ e.who = h => ToldRight(e)'
    BY <1>1, <2>3, <2>6 DEF ToldRight
  <2>9. MailRight(h)' /\ CarriesIt(h)'
    BY <2>3 DEF MailRight, CarriesIt
  <2> QED
    BY <2>3, <2>4, <2>7, <2>8, <2>9, HaulerStep
<1> QED
  BY <1>2, <1>3 DEF BeginHaul

\* h stays where it is in its job.
LEMMA StaysOn ==
    ASSUME ContainersInv, NEW h \in Hauler, moment = "act", h \in visits, work[h].at # "idle",
           work' = work, mail' = [mail EXCEPT ![h] = <<>>], queue' = queue,
           moment' = moment, visits' \subseteq visits,
           UNCHANGED <<voxel, edits, associated, boxes, standing, falling>>,
           UNCHANGED <<kept_in, hauled_by, lying, misled, haul_jobs, open, told>>
    PROVE  GoOn(h, work[h].at, <<>>, <<>>)
<1>1. work = [work EXCEPT ![h].at = work[h].at] /\ work[h].at \in Stations
  BY DEF ContainersInv, WorkTypes
<1>2. queue = queue \o <<>>
  BY NoRequest DEF ContainersInv
<1> QED
  BY <1>1, <1>2 DEF GoOn

\* A request to take its thing out of its container, or into its hands, fits what h does then.
AskFor(h, op, stage, ms) ==
    /\ moment = "act" /\ h \in visits /\ work[h].at \in {"walk", "exit"}
    /\ stage = IF op = "remove" THEN "exit" ELSE "pickup"
    /\ op = "remove" => Job(h).source # Ground /\ work[h].at = "walk" /\ h \notin visits'
    /\ ms \in Seq(HaulEvents) /\ ~OwnHaul(h, ms) /\ mail' = [mail EXCEPT ![h] = ms]
    /\ ProceedTo(h, stage, <<op>>) /\ moment' = moment /\ visits' \subseteq visits
    /\ UNCHANGED <<voxel, edits, associated, boxes, standing, falling>>
    /\ UNCHANGED <<kept_in, hauled_by, lying, misled, haul_jobs, open, told>>

LEMMA AsksFor ==
    ASSUME ContainersInv, NEW h \in Hauler, NEW op \in {"remove", "pickup"}, NEW stage, NEW ms,
           AskFor(h, op, stage, ms)
    PROVE  ContainersInv'
<1>0. /\ moment = "act" /\ h \in visits /\ work[h].at \in {"walk", "exit"}
      /\ stage = IF op = "remove" THEN "exit" ELSE "pickup"
      /\ op = "remove" => Job(h).source # Ground /\ work[h].at = "walk" /\ h \notin visits'
      /\ ms \in Seq(HaulEvents) /\ ~OwnHaul(h, ms) /\ mail' = [mail EXCEPT ![h] = ms]
      /\ ProceedTo(h, stage, <<op>>) /\ moment' = moment /\ visits' \subseteq visits
      /\ UNCHANGED <<voxel, edits, associated, boxes, standing, falling>>
      /\ UNCHANGED <<kept_in, hauled_by, lying, misled, haul_jobs, open, told>>
  BY DEF AskFor
<1>11. PICK ops : ops = [n \in DOMAIN <<op>> |-> HaulUpdate(<<op>>[n], h)]
  BY <1>0
<1>12. PICK names : names = <<op>>
  BY <1>0
<1>1. /\ ops \in Seq(Requests) /\ DOMAIN ops = {1}
      /\ \A k \in DOMAIN ops : ops[k].who = h /\ ops[k].thing = Job(h).thing /\ ops[k].op = op
  <2>1. names \in Seq(Asks) /\ DOMAIN names = {1} /\ names[1] = op
    BY <1>0, <1>12 DEF Asks
  <2>2. ops = RequestsFor(h, names)
    BY <1>0, <1>11, <1>12 DEF RequestsFor
  <2>3. work[h].at # "idle"
    BY <1>0
  <2>4. /\ ops \in Seq(Requests) /\ DOMAIN ops = DOMAIN names
        /\ \A k \in DOMAIN ops : ops[k].who = h /\ ops[k].thing = Job(h).thing /\ ops[k].op = names[k]
    BY <1>0, <2>1, <2>2, <2>3, RequestsMade
  <2> QED
    BY <1>0, <2>1, <2>4
<1>2. GoOn(h, stage, ms, ops)
  <2>1. work' = [work EXCEPT ![h].at = stage] /\ queue' = queue \o ops /\ mail' = [mail EXCEPT ![h] = ms]
    BY <1>0, <1>11 DEF ProceedTo
  <2> QED
    BY <1>0, <1>1, <2>1 DEF GoOn, Stations
<1>3. /\ TurnOf(h, [work[h] EXCEPT !.at = stage], ms, ops)
      /\ work'[h].at = stage /\ work'[h].job = work[h].job /\ mail'[h] = ms /\ Job(h)' = Job(h)
  BY <1>0, <1>2, GoesOn
<1>4. SeesToIt(h, ops) /\ MailRight(h)' /\ CarriesIt(h)'
  BY <1>0, <1>1, <1>3 DEF SeesToIt, MailRight, CarriesIt, OwnHaul, Fetches, HoldsIt, NeedsTransform
<1>5. /\ \A m \in DOMAIN queue' \ DOMAIN queue : m - Len(queue) \in DOMAIN ops /\ queue'[m] = ops[m - Len(queue)] /\ m > Len(queue)
      /\ \A m \in DOMAIN queue : queue'[m] = queue[m]
      /\ DOMAIN queue' = 1 .. Len(queue') /\ Len(queue) \in Nat
  BY <1>0, <1>3, QueueGrows DEF TurnOf, ContainersInv
<1>6. ASSUME NEW n \in DOMAIN queue' \ DOMAIN queue PROVE Asked(n)'
  <2> PICK u : u = queue'[n]
    BY <1>0
  <2>1. u.who = h /\ u.thing = Job(h).thing /\ u.op = op
    <3>1. n - Len(queue) \in DOMAIN ops /\ u = ops[n - Len(queue)]
      BY <1>0, <1>5, <1>6
    <3> QED
      BY <1>0, <1>1, <3>1
  <2>2. CASE op = "remove"
    BY <1>0, <1>3, <2>1, <2>2 DEF Asked, AskedToRemove, Visited
  <2>3. CASE op = "pickup"
    <3>1. \A m \in DOMAIN queue : queue[m].op # "destroy" => queue[m].who # h
      BY <1>0, BeforeItsTurn
    <3>2. \A m \in DOMAIN queue' \ DOMAIN queue : m = n
      BY <1>0, <1>1, <1>5, <1>6
    <3>3. \A e \in Elements(told) : e.what = "hauled" => e.who # h
      BY <1>0, BeforeItsTurn
    <3>4. ~OwnHaul(h, told)' /\ ~OwnHaul(h, mail[h])'
      BY <1>0, <1>3, <3>3 DEF OwnHaul, Elements
    <3>5. \A m \in DOMAIN queue' : queue'[m].op = "pickup" /\ queue'[m].who = h => m = n
      BY <1>0, <1>5, <3>1, <3>2
    <3>6. AskedToPickUp(u, n)'
      BY <1>0, <1>3, <2>1, <2>3, <3>4, <3>5 DEF AskedToPickUp
    <3> QED
      BY <1>0, <2>1, <2>3, <3>6 DEF Asked
  <2> QED
    BY <1>0, <2>2, <2>3
<1> QED
  BY <1>0, <1>3, <1>4, <1>6, FreshTurn

LEMMA WalkToThingKeeps ==
    ASSUME ContainersInv, NEW h \in Hauler, WalkToThing(h)
    PROVE  ContainersInv'
<1>1. /\ moment = "act" /\ h \in visits /\ work[h].at = "walk" /\ moment' = moment /\ visits' \subseteq visits
      /\ h \notin visits'
      /\ UNCHANGED <<voxel, edits, associated, boxes, standing, falling>>
      /\ UNCHANGED <<kept_in, hauled_by, lying, misled, haul_jobs, open, told>>
  BY DEF WalkToThing, HaulerActs, places, store, things
<1>2. CASE Fail(h)
  <2>1. TurnTo(h, Unemployed) /\ Unemployed \in [job : Nat, at : Stations] /\ Unemployed.at = "idle" /\ Unemployed.job = 0
    BY <1>2 DEF Fail, Unemployed, Stations
  <2> QED
    BY <1>1, <2>1, TurnKeeps
<1>3. \A i : ~Fetches(h, i) /\ ~HoldsIt(h, i)
  BY <1>1 DEF Fetches, HoldsIt, NeedsTransform
<1>4. Stations = {"idle", "new", "walk", "exit", "pickup", "carry", "enter"} /\ <<>> \in Seq(HaulEvents)
  BY DEF Stations
<1>5. CASE HeardAll(h) /\ UNCHANGED <<work, queue>>
  <2>1. GoOn(h, work[h].at, <<>>, <<>>)
    BY <1>1, <1>5, StaysOn DEF HeardAll
  <2>2. /\ TurnOf(h, [work[h] EXCEPT !.at = "walk"], <<>>, <<>>)
        /\ work'[h].at = "walk" /\ work'[h].job = work[h].job /\ mail'[h] = <<>>
    BY <1>1, <2>1, GoesOn
  <2>3. SeesToIt(h, <<>>) /\ MailRight(h)' /\ CarriesIt(h)'
    BY <1>3, <2>2 DEF SeesToIt, MailRight, CarriesIt, Elements
  <2> QED
    BY <1>1, <1>5, <2>2, <2>3, FreshTurn
<1>6. ASSUME NEW op \in {"remove", "pickup"}, NEW stage, stage = IF op = "remove" THEN "exit" ELSE "pickup",
             op = "remove" => Job(h).source # Ground,
             HeardAll(h), ProceedTo(h, stage, <<op>>)
      PROVE  ContainersInv'
  <2>1. AskFor(h, op, stage, <<>>)
    BY <1>1, <1>4, <1>6 DEF AskFor, HeardAll, OwnHaul, Elements
  <2> QED
    BY <2>1, AsksFor
<1> QED
  BY <1>2, <1>5, <1>6 DEF WalkToThing

\* Until it hears what it waits for, a hauler stays as it is.
LEMMA StaysKeeps ==
    ASSUME ContainersInv, NEW h \in Hauler, moment = "act", h \in visits,
           work[h].at \in {"walk", "exit", "pickup", "carry", "enter"},
           HeardAll(h), UNCHANGED <<work, queue>>, moment' = moment, visits' \subseteq visits,
           UNCHANGED <<voxel, edits, associated, boxes, standing, falling>>,
           UNCHANGED <<kept_in, hauled_by, lying, misled, haul_jobs, open, told>>
    PROVE  ContainersInv'
<1>1. GoOn(h, work[h].at, <<>>, <<>>)
  BY StaysOn DEF HeardAll
<1>2. /\ TurnOf(h, [work[h] EXCEPT !.at = work[h].at], <<>>, <<>>)
      /\ mail'[h] = <<>> /\ Job(h)' = Job(h)
  BY <1>1, GoesOn
<1>3. SeesToIt(h, <<>>) /\ MailRight(h)'
  BY <1>2 DEF SeesToIt, MailRight, Elements, Fetches, HoldsIt, NeedsTransform
<1>4. CarriesIt(h)'
  BY <1>2 DEF ContainersInv, Carried, CarriesIt, Has
<1>5. ASSUME NEW n \in DOMAIN queue', queue'[n].op # "destroy", queue'[n].who = h PROVE Asked(n)'
  <2>1. PICK u : u = queue[n]
    OBVIOUS
  <2>2. /\ n \in DOMAIN queue /\ queue'[n] = u /\ u.who = h
        /\ u.op = "pickup" /\ AskedToPickUp(u, n) /\ work[h].at = "pickup"
    BY <1>5, <2>1, BeforeItsTurn
  <2>3. OwnHaul(h, told)' = OwnHaul(h, told) /\ ~OwnHaul(h, mail[h])'
    BY <1>2 DEF OwnHaul, Elements
  <2>4. AskedToPickUp(u, n)'
    BY <1>2, <2>2, <2>3 DEF AskedToPickUp
  <2> QED
    BY <2>2, <2>4 DEF Asked
<1>6. OwnAsked(h)'
  BY <1>5 DEF OwnAsked
<1>7. ASSUME NEW e \in Elements(told), e.what = "hauled", e.who = h PROVE ToldRight(e)'
  <2>1. work[h].at = "pickup" /\ e.thing = Job(h).thing /\ (e.ok => Has(h, e.thing))
    BY <1>7, BeforeItsTurn
  <2> QED
    BY <1>2, <1>7, <2>1 DEF ToldRight, Has, OwnHaul, Elements
<1> QED
  BY <1>2, <1>3, <1>4, <1>6, <1>7, HaulerStep

\* What a hauler has in hand it may carry.
LEMMA CarryBegins ==
    ASSUME ContainersInv, NEW h \in Hauler, moment = "act", h \in visits, work[h].at = "pickup",
           NEW n \in DOMAIN mail[h], mail[h][n].what = "hauled", mail[h][n].who = h, mail[h][n].ok,
           NEW ms \in Seq(HaulEvents), mail' = [mail EXCEPT ![h] = ms],
           ProceedTo(h, "carry", <<>>), moment' = moment, visits' \subseteq visits,
           UNCHANGED <<voxel, edits, associated, boxes, standing, falling>>,
           UNCHANGED <<kept_in, hauled_by, lying, misled, haul_jobs, open, told>>
    PROVE  ContainersInv'
<1>1. PICK ops : ops = [k \in DOMAIN <<>> |-> HaulUpdate(<<>>[k], h)]
  OBVIOUS
<1>2. ops \in Seq(Requests) /\ DOMAIN ops = {}
  BY <1>1
<1>3. work' = [work EXCEPT ![h].at = "carry"] /\ queue' = queue \o ops
  BY <1>1 DEF ProceedTo
<1>4. GoOn(h, "carry", ms, ops)
  BY <1>2, <1>3 DEF GoOn, Stations
<1>5. /\ TurnOf(h, [work[h] EXCEPT !.at = "carry"], ms, ops)
      /\ work'[h].at = "carry" /\ work'[h].job = work[h].job /\ mail'[h] = ms /\ Job(h)' = Job(h)
  BY <1>4, GoesOn
<1>6. OwnHaul(h, mail[h]) /\ Has(h, Job(h).thing)
  <2>1. mail[h][n] \in Elements(mail[h]) /\ MailRight(h)
    BY DEF Elements, ContainersInv, MailOf
  <2> QED
    BY <2>1 DEF OwnHaul, MailRight
<1>7. SeesToIt(h, ops)
  <2>1. \A i : Fetches(h, i) => i = Job(h).thing
    BY DEF Fetches
  <2>2. \A i : HoldsIt(h, i) => HoldsIt(h, i)'
    BY <1>5 DEF HoldsIt
  <2> QED
    BY <1>6, <2>1, <2>2, ContainersAssumption DEF SeesToIt, Has
<1>8. MailRight(h)' /\ CarriesIt(h)'
  BY <1>5, <1>6 DEF MailRight, CarriesIt, Has
<1>9. \A m \in DOMAIN queue' \ DOMAIN queue : m - Len(queue) \in DOMAIN ops
  BY <1>5, QueueGrows DEF TurnOf, ContainersInv
<1> QED
  BY <1>2, <1>5, <1>6, <1>7, <1>8, <1>9, FreshTurn

LEMMA HearHaulKeeps ==
    ASSUME ContainersInv, NEW h \in Hauler, HearHaul(h)
    PROVE  ContainersInv'
<1>1. /\ moment = "act" /\ h \in visits /\ work[h].at \in {"exit", "pickup", "enter"}
      /\ moment' = moment /\ visits' \subseteq visits
      /\ UNCHANGED <<voxel, edits, associated, boxes, standing, falling>>
      /\ UNCHANGED <<kept_in, hauled_by, lying, misled, haul_jobs, open, told>>
  BY DEF HearHaul, HaulerActs, places, store, things
<1>2. CASE TurnTo(h, Unemployed)
  <2>1. Unemployed \in [job : Nat, at : Stations] /\ Unemployed.at = "idle" /\ Unemployed.job = 0
    BY DEF Unemployed, Stations
  <2> QED
    BY <1>1, <1>2, <2>1, TurnKeeps
<1>3. CASE HeardAll(h) /\ UNCHANGED <<work, queue>>
  BY <1>1, <1>3, StaysKeeps
<1>4. ASSUME NEW n \in DOMAIN mail[h], AwaitsEvent(h, mail[h][n]), mail[h][n].ok,
             mail' = [mail EXCEPT ![h] = SubSeq(@, n + 1, Len(@))],
             \/ work[h].at = "exit" /\ ProceedTo(h, "pickup", <<"pickup">>)
             \/ work[h].at = "pickup" /\ ProceedTo(h, "carry", <<>>)
      PROVE  ContainersInv'
  <2>1. PICK ms : ms = SubSeq(mail[h], n + 1, Len(mail[h]))
    OBVIOUS
  <2>2. mail[h] \in Seq(HaulEvents) /\ n \in 1 .. Len(mail[h])
    BY DEF ContainersInv, TalkTypes
  <2>3. ms \in Seq(HaulEvents) /\ Elements(ms) \subseteq Elements(mail[h])
    BY <2>1, <2>2, ElementsOfRest
  <2>4. mail' = [mail EXCEPT ![h] = ms]
    BY <1>4, <2>1, <2>2 DEF ContainersInv, TalkTypes
  <2>5. CASE work[h].at = "exit" /\ ProceedTo(h, "pickup", <<"pickup">>)
    <3>1. MailRight(h)
      BY DEF ContainersInv, MailOf
    <3>2. ~OwnHaul(h, ms)
      BY <2>3, <2>5, <3>1 DEF OwnHaul, MailRight
    <3>3. AskFor(h, "pickup", "pickup", ms)
      BY <1>1, <2>3, <2>4, <2>5, <3>2 DEF AskFor
    <3> QED
      BY <3>3, AsksFor
  <2>6. CASE work[h].at = "pickup" /\ ProceedTo(h, "carry", <<>>)
    <3>1. mail[h][n].what = "hauled" /\ mail[h][n].who = h /\ mail[h][n].ok
      BY <1>4, <2>6 DEF AwaitsEvent
    <3> QED
      BY <1>1, <2>3, <2>4, <2>6, <3>1, CarryBegins
  <2> QED
    BY <1>4, <2>5, <2>6
<1> QED
  BY <1>2, <1>3, <1>4 DEF HearHaul, Fail

\* Whoever puts something down, out in the world or into a container, has it.
LEMMA PutsDown ==
    ASSUME ContainersInv, NEW h \in Hauler, moment = "act", h \in visits, work[h].at = "carry",
           NEW w, NEW ops, TurnOf(h, w, <<>>, ops), h \notin visits',
           DOMAIN ops = {1, 2}, \A k \in {1, 2} : ops[k].who = h /\ ops[k].thing = Job(h).thing,
           ops[1].op = "stop",
           \/ ops[2].op = "put" /\ w.at = "enter"
           \/ ops[2].op = "drop" /\ w.at = "idle"
    PROVE  ContainersInv'
<1>1. /\ \A m \in DOMAIN queue : m \in DOMAIN queue' /\ queue'[m] = queue[m] /\ m <= Len(queue)
      /\ \A m \in DOMAIN queue' \ DOMAIN queue : m - Len(queue) \in DOMAIN ops /\ queue'[m] = ops[m - Len(queue)] /\ m > Len(queue)
      /\ \A k \in DOMAIN ops : Len(queue) + k \in DOMAIN queue' /\ queue'[Len(queue) + k] = ops[k]
      /\ DOMAIN queue' = 1 .. Len(queue') /\ Len(queue) \in Nat /\ DOMAIN queue = 1 .. Len(queue)
  BY QueueGrows DEF TurnOf, ContainersInv
<1>2. work'[h] = w /\ mail'[h] = <<>> /\ UNCHANGED <<moment, hauled_by, misled>>
  BY DEF TurnOf, ContainersInv, WorkTypes, TalkTypes
<1>3. SeesToIt(h, ops)
  BY DEF SeesToIt, Fetches, HoldsIt, NeedsTransform
<1>4. MailRight(h)' /\ CarriesIt(h)'
  BY <1>2 DEF MailRight, CarriesIt, Elements
<1>5. Has(h, Job(h).thing)
  BY DEF ContainersInv, Carried, CarriesIt
<1>6. \A m \in DOMAIN queue : queue[m].op # "destroy" => queue[m].who # h
  BY BeforeItsTurn
<1>7. ASSUME NEW n \in DOMAIN queue' \ DOMAIN queue PROVE Asked(n)'
  <2>1. PICK k \in {1, 2} : k = n - Len(queue)
    BY <1>1, <1>7
  <2>2. PICK u : u = queue'[n]
    OBVIOUS
  <2>3. u = ops[k] /\ u.who = h /\ u.thing = Job(h).thing /\ n = Len(queue) + k
    BY <1>1, <1>7, <2>1, <2>2
  <2>4. Visited(h)' /\ moment' # "ai"
    BY <1>2 DEF Visited
  <2>5. CASE k = 1
    <3>1. Has(h, u.thing)'
      BY <1>2, <1>5, <2>3 DEF Has
    <3>2. \A m \in DOMAIN queue' : m < n /\ queue'[m].op # "destroy" => queue'[m].who # h
      BY <1>1, <1>6, <2>3, <2>5
    <3>3. AskedToStop(u, n)'
      BY <1>2, <2>3, <2>4, <3>1, <3>2 DEF AskedToStop
    <3> QED
      BY <2>2, <2>3, <2>5, <3>3 DEF Asked
  <2>6. CASE k = 2 /\ ops[2].op = "put"
    <3>1. n # 1 /\ n - 1 = Len(queue) + 1 /\ queue'[n - 1] = ops[1]
      BY <1>1, <2>3, <2>6
    <3>2. AskedToPut(u, n)'
      BY <1>2, <2>3, <2>4, <2>6, <3>1 DEF AskedToPut
    <3> QED
      BY <2>2, <2>3, <2>6, <3>2 DEF Asked
  <2>7. CASE k = 2 /\ ops[2].op = "drop"
    <3>1. MayAbort(h)'
      BY <1>2, <2>7 DEF MayAbort
    <3> QED
      BY <2>2, <2>3, <2>7, <3>1 DEF Asked
  <2> QED
    BY <2>5, <2>6, <2>7
<1> QED
  BY <1>3, <1>4, <1>7, FreshTurn

LEMMA CarryKeeps ==
    ASSUME ContainersInv, NEW h \in Hauler, Carry(h)
    PROVE  ContainersInv'
<1>1. /\ moment = "act" /\ h \in visits /\ work[h].at = "carry" /\ h \notin visits'
      /\ moment' = moment /\ visits' \subseteq visits
      /\ UNCHANGED <<voxel, edits, associated, boxes, standing, falling>>
      /\ UNCHANGED <<kept_in, hauled_by, lying, misled, haul_jobs, open, told>>
  BY DEF Carry, HaulerActs, places, store, things
<1>2. CASE Fail(h)
  <2>1. TurnTo(h, Unemployed) /\ Unemployed \in [job : Nat, at : Stations] /\ Unemployed.at = "idle" /\ Unemployed.job = 0
    BY <1>2 DEF Fail, Unemployed, Stations
  <2> QED
    BY <1>1, <2>1, TurnKeeps
<1>3. CASE HeardAll(h) /\ UNCHANGED <<work, queue>>
  BY <1>1, <1>3, StaysKeeps
<1>4. work[h].at # "idle" /\ <<>> \in Seq(HaulEvents)
  BY <1>1
<1>5. CASE HeardAll(h) /\ ProceedTo(h, "enter", <<"stop", "put">>)
  <2>1. PICK ops : ops = [n \in DOMAIN <<"stop", "put">> |-> HaulUpdate(<<"stop", "put">>[n], h)]
    OBVIOUS
  <2>2. PICK names : names = <<"stop", "put">>
    OBVIOUS
  <2>3. names \in Seq(Asks) /\ DOMAIN names = {1, 2} /\ names[1] = "stop" /\ names[2] = "put"
    BY <2>2 DEF Asks
  <2>4. ops = RequestsFor(h, names)
    BY <2>1, <2>2 DEF RequestsFor
  <2>5. /\ ops \in Seq(Requests) /\ DOMAIN ops = DOMAIN names
        /\ \A k \in DOMAIN ops : ops[k].who = h /\ ops[k].thing = Job(h).thing /\ ops[k].op = names[k]
    BY <1>4, <2>3, <2>4, RequestsMade
  <2>6. work' = [work EXCEPT ![h].at = "enter"] /\ queue' = queue \o ops /\ mail' = [mail EXCEPT ![h] = <<>>]
    BY <1>5, <2>1 DEF ProceedTo, HeardAll
  <2>7. GoOn(h, "enter", <<>>, ops)
    BY <1>1, <1>4, <2>5, <2>6 DEF GoOn, Stations
  <2>8. PICK w : w = [work[h] EXCEPT !.at = "enter"]
    OBVIOUS
  <2>9. TurnOf(h, w, <<>>, ops) /\ w.at = "enter"
    <3>1. TurnOf(h, [work[h] EXCEPT !.at = "enter"], <<>>, ops)
      BY <2>7, GoesOn
    <3>2. work[h] \in [job : Nat, at : Stations]
      BY DEF ContainersInv, WorkTypes
    <3> QED
      BY <2>8, <3>1, <3>2
  <2> QED
    BY <1>1, <2>3, <2>5, <2>9, PutsDown
<1>6. CASE /\ HeardAll(h) /\ work' = [work EXCEPT ![h] = Unemployed]
           /\ queue' = queue \o <<HaulUpdate("stop", h), HaulUpdate("drop", h)>>
  <2>1. PICK ops : ops = <<HaulUpdate("stop", h), HaulUpdate("drop", h)>>
    OBVIOUS
  <2>2. /\ HaulUpdate("stop", h) \in Requests /\ HaulUpdate("stop", h).op = "stop"
        /\ HaulUpdate("stop", h).who = h /\ HaulUpdate("stop", h).thing = Job(h).thing
        /\ HaulUpdate("drop", h) \in Requests /\ HaulUpdate("drop", h).op = "drop"
        /\ HaulUpdate("drop", h).who = h /\ HaulUpdate("drop", h).thing = Job(h).thing
    BY <1>4, UpdateIsRequest DEF ContainersInv
  <2>3. /\ ops \in Seq(Requests) /\ DOMAIN ops = {1, 2} /\ \A k \in {1, 2} : ops[k].who = h /\ ops[k].thing = Job(h).thing
        /\ ops[1].op = "stop" /\ ops[2].op = "drop"
    BY <2>1, <2>2
  <2>4. PICK w : w = Unemployed
    OBVIOUS
  <2>5. w \in [job : Nat, at : Stations] /\ w.at = "idle" /\ w.job = 0
    BY <2>4 DEF Unemployed, Stations
  <2>6. TurnOf(h, w, <<>>, ops)
    BY <1>1, <1>4, <1>6, <2>1, <2>3, <2>4, <2>5 DEF TurnOf, HeardAll
  <2> QED
    BY <1>1, <2>3, <2>5, <2>6, PutsDown
<1> QED
  BY <1>2, <1>3, <1>5, <1>6 DEF Carry

LEMMA GoHaulKeeps ==
    ASSUME ContainersInv, GoHaul
    PROVE  ContainersInv'
BY BeginHaulKeeps, WalkToThingKeeps, HearHaulKeeps, CarryKeeps DEF GoHaul

LEMMA DecideJobKeeps ==
    ASSUME ContainersInv, NEW h \in Hauler, DecideJob(h)
    PROVE  ContainersInv'
<1>1. /\ moment = "ai" /\ moment' = moment /\ visits' \subseteq visits
      /\ UNCHANGED <<voxel, edits, associated, boxes, standing, falling>>
      /\ UNCHANGED <<kept_in, hauled_by, lying, misled, haul_jobs, open, told>>
  BY DEF DecideJob, places, store, things, tasks
<1>2. CASE TurnTo(h, Unemployed)
  <2>1. Unemployed \in [job : Nat, at : Stations] /\ Unemployed.at = "idle" /\ Unemployed.job = 0
    BY DEF Unemployed, Stations
  <2> QED
    BY <1>1, <1>2, <2>1, TurnKeeps
<1>3. ASSUME NEW k \in open, TurnTo(h, At(k, "new")) PROVE ContainersInv'
  <2>1. PICK w : w = At(k, "new")
    OBVIOUS
  <2>2. w \in [job : Nat, at : Stations] /\ w.at = "new" /\ w.job \in DOMAIN haul_jobs
    BY <2>1 DEF At, Stations, ContainersInv, WorkTypes
  <2>3. TurnTo(h, w)
    BY <1>3, <2>1
  <2> QED
    BY <1>1, <2>2, <2>3, TurnKeeps
<1>4. CASE UNCHANGED <<work, mail, queue>>
  <2>1. TurnOf(h, work[h], mail[h], <<>>)
    <3>1. work[h] \in [job : Nat, at : Stations] /\ mail[h] \in Seq(HaulEvents) /\ <<>> \in Seq(Requests)
      BY DEF ContainersInv, WorkTypes, TalkTypes
    <3>2. work' = [work EXCEPT ![h] = work[h]] /\ mail' = [mail EXCEPT ![h] = mail[h]]
      BY <1>4 DEF ContainersInv, WorkTypes, TalkTypes
    <3>3. queue' = queue \o <<>>
      BY <1>4, NoRequest DEF ContainersInv
    <3>4. IF work[h].at = "idle" THEN work[h].job = 0 ELSE work[h].job \in DOMAIN haul_jobs
      BY DEF ContainersInv, WorkTypes
    <3> QED
      BY <1>1, <3>1, <3>2, <3>3, <3>4 DEF TurnOf
  <2>2. SeesToIt(h, <<>>)
    BY <1>1, <1>4 DEF SeesToIt, Fetches, HoldsIt, NeedsTransform, Job
  <2>3. MailRight(h)' /\ CarriesIt(h)'
    BY <1>1, <1>4 DEF ContainersInv, MailOf, MailRight, Carried, CarriesIt, Has, Job
  <2>4. OwnAsked(h)'
    <3> SUFFICES ASSUME NEW n \in DOMAIN queue', queue'[n].op # "destroy", queue'[n].who = h PROVE Asked(n)'
      BY DEF OwnAsked
    <3>1. queue[n].op \in {"abort", "drop"} /\ work[h].at \in {"idle", "new"}
      BY <1>1, <1>4, BeforeItsTurn
    <3> QED
      BY <1>4, <3>1 DEF Asked, MayAbort
  <2>5. \A e \in Elements(told) : e.what = "hauled" /\ e.who = h => ToldRight(e)'
    <3> SUFFICES ASSUME NEW e \in Elements(told), e.what = "hauled", e.who = h PROVE ToldRight(e)'
      OBVIOUS
    <3>1. \/ work[h].at \in {"idle", "new"}
          \/ /\ work[h].at = "pickup" /\ e.thing = Job(h).thing /\ ~OwnHaul(h, mail[h])
             /\ e.ok => Has(h, e.thing)
      BY <1>1, BeforeItsTurn
    <3> QED
      BY <1>1, <1>4, <3>1 DEF ToldRight, Has, OwnHaul, Job
  <2> QED
    BY <2>1, <2>2, <2>3, <2>4, <2>5, HaulerStep
<1> QED
  BY <1>2, <1>3, <1>4 DEF DecideJob

-----------------------------------------------------------------------------
(* The parts of the tick in which nobody moves *)

LEMMA InPlaceStays ==
    ASSUME ThingsInPlace, UNCHANGED <<kept_in, hauled_by, lying, misled>>,
           \A i \in Thing : InBoxes(i)' = InBoxes(i) /\ (ListedOnce(i) => ListedOnce(i)'),
           \A i \in Thing : WillDrop(i) => WillDrop(i)',
           \A h \in Hauler, i \in Thing : /\ WillStop(h, i) => WillStop(h, i)'
                                          /\ Fetches(h, i) => Fetches(h, i)'
                                          /\ HoldsIt(h, i) => HoldsIt(h, i)'
    PROVE  ThingsInPlace'
<1> SUFFICES ASSUME NEW i \in Thing \ misled PROVE Found(i)' /\ ListedOnce(i)'
  BY DEF ThingsInPlace
<1>1. Found(i) /\ ListedOnce(i)
  BY DEF ThingsInPlace
<1>2. InTransit(i) => InTransit(i)'
  BY DEF InTransit, WillDrop, Fetches
<1>3. InHands(i) => InHands(i)'
  BY DEF InHands, WillStop, HoldsIt
<1>4. OutThere(i) => OutThere(i)'
  BY DEF OutThere
<1>5. Boxed(i) => Boxed(i)'
  BY DEF Boxed
<1>6. InBoxes(i)' = InBoxes(i) /\ ListedOnce(i)'
  BY <1>1
<1> QED
  BY <1>1, <1>2, <1>3, <1>4, <1>5, <1>6 DEF Found

LEMMA WorkStays ==
    ASSUME UNCHANGED <<work>>, \A h \in Hauler : work[h].job # 0 => Job(h)' = Job(h)
    PROVE  \A h \in Hauler, i \in Thing : Fetches(h, i)' = Fetches(h, i) /\ HoldsIt(h, i)' = HoldsIt(h, i)
BY DEF Fetches, HoldsIt, NeedsTransform

LEMMA TalkStays ==
    ASSUME TalkTypes, ToldOf, MailOf, Carried, UNCHANGED <<work, told, mail, misled, hauled_by>>,
           \A h \in Hauler : work[h].at \in {"pickup", "carry"} => Job(h)' = Job(h),
           \A h \in Hauler : work[h].at = "walk" /\ moment = "act" /\ h \notin visits =>
                                moment' = "act" /\ h \notin visits'
    PROVE  ToldOf' /\ MailOf' /\ Carried'
<1>1. ASSUME NEW e \in Elements(told), e.what = "hauled" PROVE ToldRight(e)'
  <2>1. told \in Seq(HaulEvents)
    BY DEF TalkTypes
  <2>2. e \in HaulEvents
    BY <2>1, ElementsType
  <2>3. e.who \in Hauler /\ ToldRight(e)
    BY <1>1, <2>2 DEF HaulEvents, ToldOf
  <2> QED
    BY <2>3 DEF ToldRight, Has, OwnHaul
<1>2. ToldOf'
  BY <1>1 DEF ToldOf
<1>3. MailOf'
  BY DEF MailOf, MailRight, Has
<1>4. Carried'
  BY DEF Carried, CarriesIt, Has
<1> QED
  BY <1>2, <1>3, <1>4

\* Haulers ask for nothing before their turn.
LEMMA OnlyBreakings ==
    ASSUME ContainersInv, moment \in {"apply", "commands"}
    PROVE  \A n \in DOMAIN queue : queue[n].op = "destroy"
BY DEF ContainersInv, Moments

LEMMA TickKeeps ==
    ASSUME ContainersInv, EndChanges \/ RunAi \/ AllJobsDecided
    PROVE  ContainersInv'
<1>1. /\ UNCHANGED <<voxel, edits, associated, boxes, standing, falling>>
      /\ UNCHANGED <<kept_in, hauled_by, lying, misled, haul_jobs, work, queue, told, mail>>
      /\ open' \subseteq open
  BY DEF EndChanges, RunAi, AllJobsDecided, places, store, things, tasks, letters
<1>2. /\ moment' \in {"commands", "ai", "act"} /\ visits' \subseteq Hauler
      /\ (moment = "apply" /\ moment' = "commands") \/ moment' \in {"ai", "act"}
      /\ moment \in {"apply", "commands"} \/ (moment = "ai" /\ moment' = "act")
  BY DEF EndChanges, RunAi, AllJobsDecided, ContainersInv, Moments
<1>3. \A n \in DOMAIN queue : queue[n].op # "destroy" => moment = "ai" /\ moment' = "act"
  BY <1>2, OnlyBreakings
<1>4. Moments'
  BY <1>1, <1>2, <1>3 DEF ContainersInv, Moments
<1>5. ChestTypes' /\ ThingTypes' /\ TalkTypes' /\ BoxesFit' /\ WorkTypes'
  BY <1>1 DEF ContainersInv, ChestTypes, ThingTypes, TalkTypes, BoxesFit, WorkTypes
<1>6. ChestsStand'
  BY <1>1, <1>2 DEF ContainersInv, ChestsStand
<1>7. \A h \in Hauler : Job(h)' = Job(h)
  BY <1>1 DEF Job
<1>8. ThingsInPlace'
  <2>1. \A h \in Hauler, i \in Thing : Fetches(h, i)' = Fetches(h, i) /\ HoldsIt(h, i)' = HoldsIt(h, i)
    BY <1>1, <1>7, WorkStays
  <2>2. \A i \in Thing : InBoxes(i)' = InBoxes(i) /\ ListedOnce(i)' = ListedOnce(i)
    BY <1>1 DEF InBoxes, Contents, ListedOnce
  <2>3. \A h \in Hauler, i \in Thing : WillStop(h, i)' = WillStop(h, i)
    BY <1>1 DEF WillStop
  <2>4. \A i \in Thing : WillDrop(i)' = WillDrop(i)
    BY <1>1 DEF WillDrop
  <2> QED
    BY <1>1, <2>1, <2>2, <2>3, <2>4, InPlaceStays DEF ContainersInv
<1>9. AllAsked'
  <2> SUFFICES ASSUME NEW n \in DOMAIN queue, queue[n].op # "destroy" PROVE Asked(n)'
    BY <1>1 DEF AllAsked
  <2>1. moment = "ai" /\ Asked(n)
    BY <1>3 DEF ContainersInv, AllAsked
  <2> QED
    BY <1>1, <2>1 DEF Asked, AskedToRemove, AskedToPickUp, AskedToStop, AskedToPut, MayAbort
<1>10. ToldOf' /\ MailOf' /\ Carried'
  BY <1>1, <1>2, <1>7, TalkStays DEF ContainersInv
<1> QED
  BY <1>4, <1>5, <1>6, <1>8, <1>9, <1>10 DEF ContainersInv

LEMMA EditKeeps ==
    ASSUME ContainersInv, NEW p \in Place, Edit(p)
    PROVE  ContainersInv'
<1>1. /\ UNCHANGED <<voxel, associated, boxes, standing, falling, moment, visits>>
      /\ UNCHANGED <<kept_in, hauled_by, lying, misled, haul_jobs, open, work, queue, told, mail>>
      /\ edits' = edits \cup {p} /\ moment = "commands"
  BY DEF Edit, places, store, things, tasks, letters
<1>2. Moments' /\ ThingTypes' /\ TalkTypes' /\ BoxesFit' /\ WorkTypes'
  BY <1>1 DEF ContainersInv, Moments, ThingTypes, TalkTypes, BoxesFit, WorkTypes
<1>3. ChestTypes' /\ ChestsStand'
  BY <1>1 DEF ContainersInv, ChestTypes, ChestsStand
<1>4. \A h \in Hauler : Job(h)' = Job(h)
  BY <1>1 DEF Job
<1>5. ThingsInPlace'
  <2>1. \A h \in Hauler, i \in Thing : Fetches(h, i)' = Fetches(h, i) /\ HoldsIt(h, i)' = HoldsIt(h, i)
    BY <1>1, <1>4, WorkStays
  <2>2. \A i \in Thing : InBoxes(i)' = InBoxes(i) /\ ListedOnce(i)' = ListedOnce(i)
    BY <1>1 DEF InBoxes, Contents, ListedOnce
  <2>3. \A h \in Hauler, i \in Thing : WillStop(h, i)' = WillStop(h, i)
    BY <1>1 DEF WillStop
  <2>4. \A i \in Thing : WillDrop(i)' = WillDrop(i)
    BY <1>1 DEF WillDrop
  <2> QED
    BY <1>1, <2>1, <2>2, <2>3, <2>4, InPlaceStays DEF ContainersInv
<1>6. AllAsked'
  BY <1>1, OnlyBreakings DEF AllAsked
<1>7. ToldOf' /\ MailOf' /\ Carried'
  BY <1>1, <1>4, TalkStays DEF ContainersInv
<1> QED
  BY <1>2, <1>3, <1>5, <1>6, <1>7 DEF ContainersInv

LEMMA SubmitKeeps ==
    ASSUME ContainersInv, NEW i \in Thing, NEW to \in standing \cup {Ground}, Submit(i, to)
    PROVE  ContainersInv'
<1>1. /\ UNCHANGED <<voxel, edits, associated, boxes, standing, falling, moment, visits>>
      /\ UNCHANGED <<kept_in, hauled_by, lying, misled, work, queue, told, mail>>
      /\ moment = "commands" /\ open' = open \cup {Len(haul_jobs')}
  BY DEF Submit, places, store, things, tasks, letters
<1>2. PICK from \in SourcesOf(i) : haul_jobs' = Append(haul_jobs, HaulJob(i, from, to))
  BY DEF Submit
<1>3. HaulJob(i, from, to) \in HaulJobs
  <2>1. from \in Nat /\ to \in Nat
    BY DEF SourcesOf, Ground, ContainersInv, ChestTypes
  <2> QED
    BY <2>1 DEF HaulJob, HaulJobs
<1>4. /\ haul_jobs' \in Seq(HaulJobs) /\ Len(haul_jobs') \in DOMAIN haul_jobs'
      /\ \A k \in DOMAIN haul_jobs : k \in DOMAIN haul_jobs' /\ haul_jobs'[k] = haul_jobs[k]
  BY <1>2, <1>3 DEF ContainersInv, WorkTypes
<1>5. Moments' /\ ThingTypes' /\ TalkTypes' /\ BoxesFit' /\ ChestTypes' /\ ChestsStand'
  BY <1>1 DEF ContainersInv, Moments, ThingTypes, TalkTypes, BoxesFit, ChestTypes, ChestsStand
<1>6. WorkTypes'
  BY <1>1, <1>4 DEF ContainersInv, WorkTypes
<1>7. \A h \in Hauler : work[h].at # "idle" => Job(h)' = Job(h)
  BY <1>1, <1>4 DEF Job, ContainersInv, WorkTypes
<1>8. \A h \in Hauler : work[h].job # 0 => Job(h)' = Job(h)
  BY <1>7 DEF ContainersInv, WorkTypes
<1>9. ThingsInPlace'
  <2>1. \A h \in Hauler, t \in Thing : Fetches(h, t)' = Fetches(h, t) /\ HoldsIt(h, t)' = HoldsIt(h, t)
    BY <1>1, <1>8, WorkStays
  <2>2. \A t \in Thing : InBoxes(t)' = InBoxes(t) /\ ListedOnce(t)' = ListedOnce(t)
    BY <1>1 DEF InBoxes, Contents, ListedOnce
  <2>3. \A h \in Hauler, t \in Thing : WillStop(h, t)' = WillStop(h, t)
    BY <1>1 DEF WillStop
  <2>4. \A t \in Thing : WillDrop(t)' = WillDrop(t)
    BY <1>1 DEF WillDrop
  <2> QED
    BY <1>1, <2>1, <2>2, <2>3, <2>4, InPlaceStays DEF ContainersInv
<1>10. AllAsked'
  BY <1>1, OnlyBreakings DEF AllAsked
<1>11. ToldOf' /\ MailOf' /\ Carried'
  BY <1>1, <1>7, TalkStays DEF ContainersInv
<1> QED
  BY <1>5, <1>6, <1>9, <1>10, <1>11 DEF ContainersInv

\* What was told and not yet heard is heard by whom it concerns.
LEMMA DeliverMailKeeps ==
    ASSUME ContainersInv, DeliverMail
    PROVE  ContainersInv'
<1>1. /\ UNCHANGED <<voxel, edits, associated, boxes, standing, falling, visits>>
      /\ UNCHANGED <<kept_in, hauled_by, lying, misled, haul_jobs, open, work, queue>>
      /\ moment = "act" /\ moment' = "end" /\ visits = {} /\ told' = <<>>
      /\ mail' = [h \in Hauler |-> mail[h] \o Kept(told, {e \in ToSet(told) : Concerns(h, e)})]
  BY DEF DeliverMail, places, store, things, tasks
<1>2. Moments' /\ ChestTypes' /\ ThingTypes' /\ BoxesFit' /\ WorkTypes' /\ ChestsStand'
  BY <1>1 DEF ContainersInv, Moments, ChestTypes, ThingTypes, BoxesFit, WorkTypes, ChestsStand
<1>3. ASSUME NEW h \in Hauler
      PROVE  /\ mail'[h] \in Seq(HaulEvents)
             /\ \A e \in Elements(mail'[h]) : e \in Elements(mail[h]) \/ (e \in Elements(told) /\ Concerns(h, e))
  <2>1. PICK heard : heard = Kept(told, {e \in ToSet(told) : Concerns(h, e)})
    OBVIOUS
  <2>2. mail[h] \in Seq(HaulEvents) /\ told \in Seq(HaulEvents)
    BY DEF ContainersInv, TalkTypes
  <2>3. heard \in Seq(HaulEvents) /\ Elements(heard) = Elements(told) \cap {e \in ToSet(told) : Concerns(h, e)}
    BY <2>1, <2>2, KeptElements
  <2>4. mail'[h] = mail[h] \o heard
    BY <1>1, <2>1
  <2>5. mail[h] \o heard \in Seq(HaulEvents) /\ Elements(mail[h] \o heard) = Elements(mail[h]) \cup Elements(heard)
    BY <2>2, <2>3, ElementsOfConcat
  <2> QED
    BY <2>3, <2>4, <2>5
<1>4. TalkTypes'
  BY <1>1, <1>3 DEF ContainersInv, TalkTypes
<1>5. \A h \in Hauler : Job(h)' = Job(h)
  BY <1>1 DEF Job
<1>6. ThingsInPlace'
  <2>1. \A h \in Hauler, i \in Thing : Fetches(h, i)' = Fetches(h, i) /\ HoldsIt(h, i)' = HoldsIt(h, i)
    BY <1>1, <1>5, WorkStays
  <2>2. \A i \in Thing : InBoxes(i)' = InBoxes(i) /\ ListedOnce(i)' = ListedOnce(i)
    BY <1>1 DEF InBoxes, Contents, ListedOnce
  <2>3. \A h \in Hauler, i \in Thing : WillStop(h, i)' = WillStop(h, i)
    BY <1>1 DEF WillStop
  <2>4. \A i \in Thing : WillDrop(i)' = WillDrop(i)
    BY <1>1 DEF WillDrop
  <2> QED
    BY <1>1, <2>1, <2>2, <2>3, <2>4, InPlaceStays DEF ContainersInv
<1>7. ASSUME NEW n \in DOMAIN queue, queue[n].op # "destroy" PROVE Asked(n)'
  <2>1. PICK u \in Requests : u = queue[n]
    BY <1>7, HaulRequests DEF ContainersInv
  <2>2. PICK h \in Hauler : h = u.who
    BY DEF Requests
  <2>3. Asked(n) /\ queue'[n] = u /\ queue[n] = u
    BY <1>1, <1>7, <2>1 DEF ContainersInv, AllAsked
  <2>4. \A i : OutThere(i)' = OutThere(i)
    BY <1>1 DEF OutThere, InBoxes, Contents
  <2>5. CASE u.op = "pickup"
    <3>1. AskedToPickUp(u, n)
      BY <2>3, <2>5 DEF Asked
    <3>2. ~OwnHaul(h, told) /\ ~OwnHaul(h, mail[h]) => ~OwnHaul(h, told)' /\ ~OwnHaul(h, mail[h])'
      <4>1. ~OwnHaul(h, told)'
        BY <1>1 DEF OwnHaul, Elements
      <4>2. ~OwnHaul(h, told) /\ ~OwnHaul(h, mail[h]) => ~OwnHaul(h, mail[h])'
        BY <1>3 DEF OwnHaul
      <4> QED
        BY <4>1, <4>2
    <3>3. AskedToPickUp(u, n)'
      BY <1>1, <1>5, <2>2, <2>3, <3>1, <3>2 DEF AskedToPickUp
    <3> QED
      BY <2>3, <2>5, <3>3 DEF Asked
  <2>6. CASE u.op # "pickup"
    <3>1. u.op = "remove" => AskedToRemove(u)'
      BY <1>1, <1>5, <2>2, <2>3 DEF Asked, AskedToRemove, Visited
    <3>2. u.op \in {"abort", "drop"} => MayAbort(h)'
      BY <1>1, <2>2, <2>3 DEF Asked, MayAbort, Visited
    <3>3. u.op = "stop" => AskedToStop(u, n)'
      BY <1>1, <2>2, <2>3 DEF Asked, AskedToStop, Visited, Has
    <3>4. u.op = "put" => AskedToPut(u, n)'
      BY <1>1, <2>2, <2>3, <2>4 DEF Asked, AskedToPut, Visited
    <3> QED
      BY <2>2, <2>3, <2>6, <3>1, <3>2, <3>3, <3>4 DEF Asked
  <2> QED
    BY <2>5, <2>6
<1>8. AllAsked'
  BY <1>1, <1>7 DEF AllAsked
<1>9. ToldOf'
  BY <1>1 DEF ToldOf, Elements
<1>10. ASSUME NEW h \in Hauler PROVE MailRight(h)'
  <2> SUFFICES ASSUME NEW e \in Elements(mail'[h]), e.what = "hauled", e.who = h
               PROVE  work[h].at # "exit" /\ (work[h].at = "pickup" /\ e.ok => Has(h, Job(h).thing))
    BY <1>1, <1>5 DEF MailRight, Has
  <2>1. CASE e \in Elements(mail[h])
    BY <2>1 DEF ContainersInv, MailOf, MailRight
  <2>2. CASE e \in Elements(told) /\ Concerns(h, e)
    <3>1. ToldRight(e)
      BY <2>2 DEF ContainersInv, ToldOf
    <3> QED
      BY <1>1, <2>2, <3>1 DEF ToldRight, Concerns
  <2> QED
    BY <1>3, <2>1, <2>2
<1>11. MailOf' /\ Carried'
  BY <1>1, <1>5, <1>10 DEF ContainersInv, MailOf, Carried, CarriesIt, Has
<1> QED
  BY <1>2, <1>4, <1>6, <1>8, <1>9, <1>11 DEF ContainersInv

LEMMA DeleteKeeps ==
    ASSUME ContainersInv, DeleteQueued
    PROVE  ContainersInv'
<1>1. /\ UNCHANGED <<voxel, edits, associated, boxes, visits>>
      /\ UNCHANGED <<kept_in, hauled_by, lying, misled, haul_jobs, open, work, queue, told, mail>>
      /\ moment = "end" /\ moment' = "apply" /\ queue = <<>>
      /\ standing' = standing \ falling /\ falling' = {}
  BY DEF DeleteQueued, places, things, tasks, letters
<1>2. Moments' /\ ThingTypes' /\ TalkTypes' /\ WorkTypes' /\ ChestTypes'
  BY <1>1 DEF ContainersInv, Moments, ThingTypes, TalkTypes, WorkTypes, ChestTypes
<1>3. BoxesFit' /\ AllAsked'
  BY <1>1 DEF ContainersInv, BoxesFit, AllAsked
<1>4. ChestsStand'
  <2>1. standing' \ falling' = standing \ falling /\ DOMAIN queue = {}
    BY <1>1
  <2> QED
    BY <1>1, <2>1 DEF ContainersInv, ChestsStand
<1>5. \A h \in Hauler : Job(h)' = Job(h)
  BY <1>1 DEF Job
<1>6. ThingsInPlace'
  <2>1. \A h \in Hauler, i \in Thing : Fetches(h, i)' = Fetches(h, i) /\ HoldsIt(h, i)' = HoldsIt(h, i)
    BY <1>1, <1>5, WorkStays
  <2>2. \A i \in Thing : InBoxes(i)' = InBoxes(i) /\ (ListedOnce(i) => ListedOnce(i)')
    BY <1>1 DEF InBoxes, Contents, ListedOnce
  <2>3. \A h \in Hauler, i \in Thing : WillStop(h, i)' = WillStop(h, i)
    BY <1>1 DEF WillStop
  <2>4. \A i \in Thing : WillDrop(i)' = WillDrop(i)
    BY <1>1 DEF WillDrop
  <2> QED
    BY <1>1, <2>1, <2>2, <2>3, <2>4, InPlaceStays DEF ContainersInv
<1>7. ToldOf' /\ MailOf' /\ Carried'
  BY <1>1, <1>5, TalkStays DEF ContainersInv
<1> QED
  BY <1>2, <1>3, <1>4, <1>6, <1>7 DEF ContainersInv

\* A new chest has an empty container; that of a chest that is gone is about to be destroyed.
LEMMA ChangeKeeps ==
    ASSUME ContainersInv, NEW p \in Place, ApplyChange(p)
    PROVE  ContainersInv'
<1>1. /\ UNCHANGED <<falling, visits, moment>>
      /\ UNCHANGED <<kept_in, hauled_by, lying, misled, haul_jobs, open, work, told, mail>>
      /\ moment = "apply" /\ p \in edits /\ edits' = edits \ {p}
  BY DEF ApplyChange, things, tasks, letters
<1>2. ThingTypes' /\ WorkTypes'
  BY <1>1 DEF ContainersInv, ThingTypes, WorkTypes
<1>3. \A h \in Hauler : Job(h)' = Job(h)
  BY <1>1 DEF Job
<1>4. ToldOf' /\ MailOf' /\ Carried'
  BY <1>1, <1>3, TalkStays DEF ContainersInv
<1>5. \A h \in Hauler, i \in Thing : Fetches(h, i)' = Fetches(h, i) /\ HoldsIt(h, i)' = HoldsIt(h, i)
  BY <1>1, <1>3, WorkStays
<1>6. \A n \in DOMAIN queue : queue[n].op = "destroy"
  BY <1>1, OnlyBreakings
<1>7. CASE /\ p \notin voxel /\ voxel' = voxel \cup {p}
           /\ boxes' = Append(boxes, Container({})) /\ associated' = [associated EXCEPT ![p] = Len(boxes')]
           /\ standing' = standing \cup {Len(boxes')} /\ UNCHANGED queue
  <2>1. Container({}) \in Boxes /\ Container({}).volume = 0 /\ \A i \in Thing : Container({}).contents[i] = 0
    <3>1. SumFunction([i \in Thing |-> IF i \in {} THEN Size[i] ELSE 0]) = 0
      <4>1. PICK f : f = [i \in Thing |-> IF i \in {} THEN Size[i] ELSE 0]
        OBVIOUS
      <4>2. f \in [Thing -> Int] /\ \A i \in Thing : f[i] = 0
        BY <4>1
      <4> QED
        BY <4>1, <4>2, SumOfZeros, ContainersAssumption
    <3> QED
      BY <3>1 DEF Container, Boxes
  <2>2. PICK b \in Nat : b = Len(boxes) + 1
    BY DEF ContainersInv, ChestTypes
  <2>3. PICK c \in Boxes : c = Container({})
    BY <2>1
  <2>4. /\ boxes' \in Seq(Boxes) /\ DOMAIN boxes' = DOMAIN boxes \cup {b} /\ b \notin DOMAIN boxes /\ Len(boxes') = b
        /\ \A a \in DOMAIN boxes : boxes'[a] = boxes[a]
        /\ boxes'[b] = c /\ b # 0
    BY <1>7, <2>2, <2>3 DEF ContainersInv, ChestTypes
  <2>5. standing \subseteq DOMAIN boxes /\ falling \subseteq standing /\ associated \in [Place -> Nat]
    BY DEF ContainersInv, ChestTypes
  <2>6. ChestTypes'
    BY <1>1, <1>7, <2>4, <2>5 DEF ContainersInv, ChestTypes
  <2>7. \A q \in Place : associated[q] = Ground \/ associated[q] \in standing \ falling
    <3> SUFFICES ASSUME NEW q \in Place, associated[q] # Ground PROVE associated[q] \in standing \ falling
      OBVIOUS
    <3>1. CASE q \in voxel
      BY <3>1 DEF ContainersInv, ChestsStand
    <3>2. CASE q \notin voxel
      <4>1. PICK n \in DOMAIN queue : queue[n] = [op |-> "destroy", place |-> q]
        BY <3>2 DEF ContainersInv, ChestsStand
      <4>2. queue[n].op = "destroy" /\ queue[n].place = q
        BY <4>1
      <4> QED
        BY <4>2 DEF ContainersInv, ChestsStand
    <3> QED
      BY <3>1, <3>2
  <2>8. ChestsStand'
    <3>1. associated'[p] = b /\ \A q \in Place : q # p => associated'[q] = associated[q]
      BY <1>7, <2>4, <2>5
    <3>2. \A q \in Place : associated[q] # b
      BY <2>4, <2>5, <2>7 DEF Ground
    <3>3. standing' = standing \cup {b} /\ b \notin falling /\ falling' = falling
      BY <1>1, <1>7, <2>4, <2>5
    <3>4. \A q \in voxel' : associated'[q] \in standing' \ falling'
      BY <1>7, <3>1, <3>3 DEF ContainersInv, ChestsStand, ChestTypes
    <3>5. \A q \in Place \ voxel' : associated'[q] # Ground =>
             \E n \in DOMAIN queue' : queue'[n] = [op |-> "destroy", place |-> q]
      BY <1>7, <3>1 DEF ContainersInv, ChestsStand
    <3>6. ASSUME NEW n \in DOMAIN queue PROVE
             /\ queue[n].place \notin voxel' /\ associated'[queue[n].place] \in standing' \ falling'
             /\ queue[n].place \notin edits' /\ \A m \in DOMAIN queue : queue[m] = queue[n] => m = n
      <4>1. PICK q \in Place : q = queue[n].place
        BY <1>6, HaulRequests DEF ContainersInv, Breakings
      <4>2. /\ q \notin voxel /\ associated[q] \in standing \ falling /\ q \notin edits
            /\ \A m \in DOMAIN queue : queue[m] = queue[n] => m = n
        BY <1>1, <1>6, <4>1 DEF ContainersInv, ChestsStand
      <4>3. q # p
        BY <1>1, <4>2
      <4> QED
        BY <1>1, <1>7, <3>1, <3>3, <4>1, <4>2, <4>3
    <3>7. \A q, r \in Place : associated'[q] = associated'[r] /\ associated'[q] # Ground => q = r
      BY <3>1, <3>2 DEF ContainersInv, ChestsStand
    <3> QED
      BY <1>7, <3>4, <3>5, <3>6, <3>7 DEF ChestsStand
  <2>9. BoxesFit'
    <3>1. \A a \in standing : boxes'[a] = boxes[a]
      BY <2>4, <2>5
    <3>2. SumFunction([i \in Thing |-> Size[i] * c.contents[i]]) = 0
      <4>1. PICK f : f = [i \in Thing |-> Size[i] * c.contents[i]]
        OBVIOUS
      <4>2. f \in [Thing -> Int] /\ \A i \in Thing : f[i] = 0
        BY <2>1, <2>3, <4>1, ContainersAssumption
      <4> QED
        BY <4>1, <4>2, SumOfZeros, ContainersAssumption
    <3>3. boxes'[b] = c /\ c.volume = 0 /\ 0 <= BoxLimit
      BY <2>1, <2>3, <2>4, ContainersAssumption
    <3>4. \A a \in standing' : a \in standing \/ a = b
      BY <1>7, <2>4
    <3>5. BoxesFit
      BY DEF ContainersInv
    <3> QED
      BY <3>1, <3>2, <3>3, <3>4, <3>5 DEF BoxesFit
  <2>10. ThingsInPlace'
    <3>1. \A a \in standing : boxes'[a] = boxes[a]
      BY <2>4, <2>5
    <3>2. boxes'[b] = c /\ (\A i \in Thing : c.contents[i] = 0) /\ standing' = standing \cup {b} /\ b \notin standing
      BY <1>7, <2>1, <2>3, <2>4, <2>5
    <3>3. \A i \in Thing : InBoxes(i)' = InBoxes(i) /\ (ListedOnce(i) => ListedOnce(i)')
      BY <1>1, <3>1, <3>2 DEF InBoxes, Contents, ListedOnce
    <3>4. \A h \in Hauler, i \in Thing : WillStop(h, i)' = WillStop(h, i)
      BY <1>7 DEF WillStop
    <3>5. \A i \in Thing : WillDrop(i)' = WillDrop(i)
      BY <1>7 DEF WillDrop
    <3> QED
      BY <1>1, <1>5, <3>3, <3>4, <3>5, InPlaceStays DEF ContainersInv
  <2>11. Moments' /\ TalkTypes' /\ AllAsked'
    BY <1>1, <1>6, <1>7 DEF ContainersInv, Moments, TalkTypes, AllAsked
  <2> QED
    BY <1>2, <1>4, <2>6, <2>8, <2>9, <2>10, <2>11 DEF ContainersInv
<1>8. CASE /\ p \in voxel /\ voxel' = voxel \ {p}
           /\ queue' = Append(queue, [op |-> "destroy", place |-> p])
           /\ UNCHANGED <<boxes, associated, standing>>
  <2>1. PICK u \in Breakings : u = [op |-> "destroy", place |-> p]
    BY DEF Breakings
  <2>2. u.op = "destroy" /\ u.place = p
    BY <2>1
  <2>3. PICK k \in Nat : k = Len(queue) + 1
    BY DEF ContainersInv, TalkTypes
  <2>4. /\ queue' \in Seq(Requests \cup Breakings)
        /\ DOMAIN queue' = DOMAIN queue \cup {k} /\ k \notin DOMAIN queue
        /\ \A n \in DOMAIN queue : queue'[n] = queue[n]
        /\ queue'[k] = u
    BY <1>8, <2>1, <2>3 DEF ContainersInv, TalkTypes
  <2>5. Moments' /\ TalkTypes' /\ AllAsked'
    BY <1>1, <1>6, <2>2, <2>4 DEF ContainersInv, Moments, TalkTypes, AllAsked
  <2>6. ChestTypes' /\ BoxesFit'
    BY <1>1, <1>8 DEF ContainersInv, ChestTypes, BoxesFit
  <2>7. ChestsStand'
    <3>1. \A q \in voxel' : associated'[q] \in standing' \ falling'
      BY <1>1, <1>8 DEF ContainersInv, ChestsStand
    <3>2. \A q \in Place \ voxel' : associated'[q] # Ground =>
             \E n \in DOMAIN queue' : queue'[n] = [op |-> "destroy", place |-> q]
      BY <1>8, <2>1, <2>4 DEF ContainersInv, ChestsStand
    <3>3. ASSUME NEW n \in DOMAIN queue PROVE
             /\ queue[n].place \notin voxel /\ associated[queue[n].place] \in standing \ falling
             /\ queue[n].place \notin edits /\ \A m \in DOMAIN queue : queue[m] = queue[n] => m = n
      BY <1>1, <1>6 DEF ContainersInv, ChestsStand
    <3>4. \A n \in DOMAIN queue : queue[n] # u
      BY <1>8, <2>2, <3>3
    <3>5. p \notin voxel' /\ associated[p] \in standing \ falling /\ p \notin edits'
      BY <1>1, <1>8 DEF ContainersInv, ChestsStand
    <3>6. ASSUME NEW n \in DOMAIN queue' PROVE
             /\ queue'[n].place \notin voxel' /\ associated'[queue'[n].place] \in standing' \ falling'
             /\ queue'[n].place \notin edits' /\ \A m \in DOMAIN queue' : queue'[m] = queue'[n] => m = n
      BY <1>1, <1>8, <2>2, <2>4, <3>3, <3>4, <3>5
    <3>7. \A q, r \in Place : associated'[q] = associated'[r] /\ associated'[q] # Ground => q = r
      BY <1>8 DEF ContainersInv, ChestsStand
    <3> QED
      BY <3>1, <3>2, <3>6, <3>7 DEF ChestsStand
  <2>8. ThingsInPlace'
    <3>1. \A i \in Thing : InBoxes(i)' = InBoxes(i) /\ ListedOnce(i)' = ListedOnce(i)
      BY <1>1, <1>8 DEF InBoxes, Contents, ListedOnce
    <3>2. \A h \in Hauler, i \in Thing : WillStop(h, i) => WillStop(h, i)'
      BY <2>4 DEF WillStop
    <3>3. \A i \in Thing : WillDrop(i) => WillDrop(i)'
      BY <2>4 DEF WillDrop
    <3> QED
      BY <1>1, <1>5, <3>1, <3>2, <3>3, InPlaceStays DEF ContainersInv
  <2> QED
    BY <1>2, <1>4, <2>5, <2>6, <2>7, <2>8 DEF ContainersInv
<1> QED
  BY <1>7, <1>8 DEF ApplyChange

-----------------------------------------------------------------------------
(* The queued updates *)

TakeHead(u) ==
    /\ moment = "end" /\ queue # <<>> /\ u = Head(queue) /\ queue' = Tail(queue)
    /\ UNCHANGED <<moment, visits, haul_jobs, open, work, mail>>

LEMMA HeadTaken ==
    ASSUME ContainersInv, NEW u, TakeHead(u)
    PROVE  /\ 1 \in DOMAIN queue /\ u = queue[1] /\ queue' \in Seq(Requests \cup Breakings)
           /\ \A n \in DOMAIN queue' : n \in Nat /\ n >= 1 /\ n + 1 \in DOMAIN queue /\ queue'[n] = queue[n + 1]
           /\ \A n \in DOMAIN queue : n \in Nat /\ n >= 1
           /\ \A n \in DOMAIN queue : n # 1 => n - 1 \in DOMAIN queue' /\ queue'[n - 1] = queue[n]
           /\ u.op = "destroy" => u \in Breakings /\ u.place \in Place
           /\ u.op # "destroy" => u \in Requests /\ u.who \in Hauler /\ u.thing \in Thing /\ u.box \in Nat
           /\ \A h \in Hauler : Job(h)' = Job(h) /\ NeedsTransform(h)' = NeedsTransform(h)
           /\ \A h \in Hauler, i \in Thing : Fetches(h, i)' = Fetches(h, i) /\ HoldsIt(h, i)' = HoldsIt(h, i)
<1>1. queue \in Seq(Requests \cup Breakings) /\ queue # <<>> /\ queue' = Tail(queue) /\ u = Head(queue)
  BY DEF TakeHead, ContainersInv, TalkTypes
<1>2. /\ 1 \in DOMAIN queue /\ u = queue[1] /\ queue' \in Seq(Requests \cup Breakings)
      /\ \A n \in DOMAIN queue' : n + 1 \in DOMAIN queue /\ queue'[n] = queue[n + 1]
      /\ \A n \in DOMAIN queue : n \in Nat /\ n >= 1
      /\ \A n \in DOMAIN queue : n # 1 => n - 1 \in DOMAIN queue' /\ queue'[n - 1] = queue[n]
  BY <1>1, PositionsInTail
<1>3. \A n \in DOMAIN queue' : n \in Nat /\ n >= 1
  BY <1>2
<1>4. /\ u.op = "destroy" => u \in Breakings /\ u.place \in Place
      /\ u.op # "destroy" => u \in Requests /\ u.who \in Hauler /\ u.thing \in Thing /\ u.box \in Nat
  BY <1>2, HaulRequests DEF ContainersInv, Requests, Breakings
<1>5. work' = work /\ haul_jobs' = haul_jobs
  BY DEF TakeHead
<1>6. \A h \in Hauler : Job(h)' = Job(h) /\ NeedsTransform(h)' = NeedsTransform(h)
  BY <1>5 DEF Job, NeedsTransform
<1>7. \A h \in Hauler, i \in Thing : Fetches(h, i)' = Fetches(h, i) /\ HoldsIt(h, i)' = HoldsIt(h, i)
  BY <1>5, <1>6 DEF Fetches, HoldsIt
<1> QED
  BY <1>2, <1>3, <1>4, <1>6, <1>7

\* What an update must leave true of the requests after it, and of what it tells: who has
\* something keeps it but by its own update, and what is put down is out in the world.
Respects(u) ==
    /\ \A h \in Hauler, i \in Thing : Has(h, i) =>
          Has(h, i)' \/ (u.op \in {"stop", "abort"} /\ u.who = h /\ u.thing = i)
    /\ u.op = "stop" => u.thing \in misled' \/ OutThere(u.thing)'
    /\ \/ told' = told
       \/ \E e \in HaulEvents :
             /\ told' = Append(told, e)
             /\ e.what = "hauled" => u.op = "pickup" /\ e.who = u.who /\ e.thing = u.thing
             /\ e.what = "hauled" /\ e.ok => Has(e.who, e.thing)'

LEMMA RestAsked ==
    ASSUME ContainersInv, NEW u, TakeHead(u), Respects(u)
    PROVE  Moments' /\ WorkTypes' /\ TalkTypes' /\ AllAsked' /\ ToldOf' /\ MailOf' /\ Carried'
<1>1. /\ 1 \in DOMAIN queue /\ u = queue[1] /\ queue' \in Seq(Requests \cup Breakings)
      /\ \A n \in DOMAIN queue' : n \in Nat /\ n >= 1 /\ n + 1 \in DOMAIN queue /\ queue'[n] = queue[n + 1]
      /\ \A n \in DOMAIN queue : n \in Nat /\ n >= 1
      /\ \A n \in DOMAIN queue : n # 1 => n - 1 \in DOMAIN queue' /\ queue'[n - 1] = queue[n]
      /\ u.op # "destroy" => u \in Requests /\ u.who \in Hauler /\ u.thing \in Thing
      /\ \A h \in Hauler : Job(h)' = Job(h)
  BY HeadTaken
<1>2. moment = "end" /\ UNCHANGED <<moment, visits, haul_jobs, open, work, mail>>
  BY DEF TakeHead
<1>3. \A h \in Hauler : Visited(h) /\ Visited(h)'
  BY <1>2 DEF Visited
<1>4. u.op # "destroy" => Asked(1)
  BY <1>1 DEF ContainersInv, AllAsked
<1>5. Moments' /\ WorkTypes'
  BY <1>1, <1>2 DEF ContainersInv, Moments, WorkTypes
<1>6. told \in Seq(HaulEvents)
  BY DEF ContainersInv, TalkTypes
<1>7. told' \in Seq(HaulEvents) /\ \A e \in Elements(told') :
         \/ e \in Elements(told)
         \/ e.what = "hauled" => /\ u.op = "pickup" /\ e.who = u.who /\ e.thing = u.thing
                                 /\ e.ok => Has(e.who, e.thing)'
  <2>1. CASE told' = told
    BY <1>6, <2>1
  <2>2. ASSUME NEW f \in HaulEvents, told' = Append(told, f),
               f.what = "hauled" => u.op = "pickup" /\ f.who = u.who /\ f.thing = u.thing,
               f.what = "hauled" /\ f.ok => Has(f.who, f.thing)'
        PROVE  /\ told' \in Seq(HaulEvents) /\ Elements(told') = Elements(told) \cup {f}
               /\ f.what = "hauled" => /\ u.op = "pickup" /\ f.who = u.who /\ f.thing = u.thing
                                       /\ f.ok => Has(f.who, f.thing)'
    BY <1>6, <2>2, ElementsOfAppend
  <2>3. CASE told' # told
    <3>1. PICK f \in HaulEvents :
             /\ told' = Append(told, f)
             /\ f.what = "hauled" => u.op = "pickup" /\ f.who = u.who /\ f.thing = u.thing
             /\ f.what = "hauled" /\ f.ok => Has(f.who, f.thing)'
      BY <2>3 DEF Respects
    <3>2. /\ told' \in Seq(HaulEvents) /\ Elements(told') = Elements(told) \cup {f}
          /\ f.what = "hauled" => /\ u.op = "pickup" /\ f.who = u.who /\ f.thing = u.thing
                                  /\ f.ok => Has(f.who, f.thing)'
      BY <2>2, <3>1
    <3> QED
      BY <3>2
  <2> QED
    BY <2>1, <2>3
<1>8. TalkTypes'
  BY <1>1, <1>2, <1>7 DEF ContainersInv, TalkTypes
\* Whoever picks something up, or carries it, asked for nothing else.
<1>9. ASSUME NEW h \in Hauler, NEW i \in Thing, work[h].at \in {"pickup", "carry"}, Has(h, i) PROVE Has(h, i)'
  <2> SUFFICES ASSUME u.op \in {"stop", "abort"}, u.who = h PROVE FALSE
    BY <1>9 DEF Respects
  <2> QED
    BY <1>1, <1>2, <1>4, <1>9 DEF Asked, AskedToStop, MayAbort
<1>10. AllAsked'
  <2> SUFFICES ASSUME NEW n \in DOMAIN queue', queue'[n].op # "destroy" PROVE Asked(n)'
    BY DEF AllAsked
  <2>1. PICK v \in Requests : v = queue'[n]
    BY <1>1 DEF Requests, Breakings
  <2>2. PICK h \in Hauler : h = v.who
    BY DEF Requests
  <2>3. PICK k \in DOMAIN queue : k = n + 1
    BY <1>1
  <2>4. queue[k] = v /\ v.op # "destroy" /\ k # 1 /\ n \in Nat /\ n >= 1 /\ k \in Nat
    BY <1>1, <2>1, <2>3
  <2>5. Asked(k)
    BY <2>4 DEF ContainersInv, AllAsked
  <2>6. CASE v.op = "remove"
    BY <1>1, <1>2, <1>3, <2>1, <2>2, <2>4, <2>5, <2>6 DEF Asked, AskedToRemove
  <2>7. CASE v.op = "pickup"
    <3>1. AskedToPickUp(v, k)
      BY <2>4, <2>5, <2>7 DEF Asked
    <3>2. ~(u.op = "pickup" /\ u.who = h)
      BY <1>1, <2>2, <2>4, <3>1 DEF AskedToPickUp
    <3>3. ~OwnHaul(h, told) => ~OwnHaul(h, told)'
      BY <1>7, <3>2 DEF OwnHaul
    <3>4. ~OwnHaul(h, mail[h]) => ~OwnHaul(h, mail[h])'
      BY <1>2 DEF OwnHaul
    <3>5. \A m \in DOMAIN queue' : queue'[m].op = "pickup" /\ queue'[m].who = h => m = n
      BY <1>1, <2>2, <2>3, <3>1 DEF AskedToPickUp
    <3>6. ASSUME NEW m \in DOMAIN queue, m > k PROVE m - 1 \in DOMAIN queue' /\ queue'[m - 1] = queue[m] /\ m - 1 > n
      BY <1>1, <2>3, <2>4, <3>6
    <3>7. AskedToPickUp(v, n)'
      <4>1. CASE work[h].at = "pickup"
        BY <1>1, <1>2, <2>2, <3>1, <3>3, <3>4, <3>5, <4>1 DEF AskedToPickUp
      <4>2. CASE work[h].at # "pickup"
        <5>1. work[h].at = "idle" /\ \E m \in DOMAIN queue : /\ m > k /\ queue[m].op = "abort"
                                                           /\ queue[m].who = h /\ queue[m].thing = v.thing
          BY <2>2, <3>1, <4>2 DEF AskedToPickUp
        <5>2. \E m \in DOMAIN queue' : /\ m > n /\ queue'[m].op = "abort"
                                      /\ queue'[m].who = h /\ queue'[m].thing = v.thing
          BY <3>6, <5>1
        <5> QED
          BY <1>2, <2>2, <3>1, <3>5, <5>1, <5>2 DEF AskedToPickUp
      <4> QED
        BY <4>1, <4>2
    <3> QED
      BY <2>1, <2>7, <3>7 DEF Asked
  <2>8. CASE v.op \in {"abort", "drop"}
    BY <1>2, <1>3, <2>1, <2>2, <2>4, <2>5, <2>8 DEF Asked, MayAbort
  <2>9. CASE v.op = "stop"
    <3>1. AskedToStop(v, k)
      BY <2>4, <2>5, <2>9 DEF Asked
    <3>2. Has(h, v.thing)'
      <4>1. Has(h, v.thing) /\ v.thing \in Thing
        BY <2>2, <3>1 DEF AskedToStop, Requests
      <4>2. ~(u.op # "destroy" /\ u.who = h)
        BY <1>1, <2>2, <2>4, <3>1 DEF AskedToStop
      <4> QED
        BY <4>1, <4>2 DEF Respects
    <3>3. ASSUME NEW m \in DOMAIN queue', m < n, queue'[m].op # "destroy" PROVE queue'[m].who # h
      <4>1. PICK l \in DOMAIN queue : l = m + 1
        BY <1>1
      <4>2. queue[l] = queue'[m] /\ l < k
        BY <1>1, <2>3, <2>4, <3>3, <4>1
      <4> QED
        BY <2>2, <3>1, <3>3, <4>2 DEF AskedToStop
    <3>4. AskedToStop(v, n)'
      BY <1>2, <1>3, <2>2, <3>1, <3>2, <3>3 DEF AskedToStop
    <3> QED
      BY <2>1, <2>9, <3>4 DEF Asked
  <2>10. CASE v.op = "put"
    <3>1. AskedToPut(v, k)
      BY <2>4, <2>5, <2>10 DEF Asked
    <3>2. PICK l \in DOMAIN queue : l = k - 1
      BY <2>3, <2>4, HaulRequests DEF ContainersInv
    <3>3. queue[l].op = "stop" /\ queue[l].who = h /\ queue[l].thing = v.thing
      BY <2>2, <2>4, <3>1, <3>2 DEF AskedToPut
    <3>4. CASE n = 1
      <4>1. u.op = "stop" /\ u.thing = v.thing
        BY <1>1, <2>3, <3>2, <3>3, <3>4
      <4>2. v.thing \in misled' \/ OutThere(v.thing)'
        BY <4>1 DEF Respects
      <4>3. AskedToPut(v, n)'
        BY <1>2, <1>3, <2>2, <3>1, <3>4, <4>2 DEF AskedToPut
      <4> QED
        BY <2>1, <2>10, <4>3 DEF Asked
    <3>5. CASE n # 1
      <4>1. l # 1 /\ l - 1 = n - 1 /\ queue'[n - 1] = queue[l]
        BY <1>1, <2>3, <2>4, <3>2, <3>5
      <4>2. AskedToPut(v, n)'
        BY <1>2, <1>3, <2>2, <3>1, <3>3, <3>5, <4>1 DEF AskedToPut
      <4> QED
        BY <2>1, <2>10, <4>2 DEF Asked
    <3> QED
      BY <3>4, <3>5
  <2> QED
    BY <2>4, <2>6, <2>7, <2>8, <2>9, <2>10 DEF Requests
<1>11. ASSUME NEW e \in Elements(told'), e.what = "hauled" PROVE ToldRight(e)'
  <2>1. e \in HaulEvents /\ e.who \in Hauler /\ e.thing \in Thing
    <3>1. e \in HaulEvents
      BY <1>7, ElementsType
    <3> QED
      BY <3>1 DEF HaulEvents
  <2>2. CASE e \in Elements(told)
    <3>1. ToldRight(e)
      BY <1>11, <2>2 DEF ContainersInv, ToldOf
    <3>2. work[e.who].at = "pickup" /\ Has(e.who, e.thing) => Has(e.who, e.thing)'
      BY <1>9, <2>1
    <3> QED
      BY <1>1, <1>2, <2>1, <3>1, <3>2 DEF ToldRight, OwnHaul
  <2>3. CASE e \notin Elements(told)
    <3>1. u.op = "pickup" /\ e.who = u.who /\ e.thing = u.thing /\ (e.ok => Has(e.who, e.thing)')
      BY <1>7, <1>11, <2>3
    <3>2. AskedToPickUp(u, 1)
      BY <1>1, <1>4, <3>1 DEF Asked
    <3> QED
      BY <1>1, <1>2, <2>1, <3>1, <3>2 DEF ToldRight, AskedToPickUp, OwnHaul
  <2> QED
    BY <2>2, <2>3
<1>12. ToldOf'
  BY <1>11 DEF ToldOf
<1>13. \A h \in Hauler : work[h].at # "idle" => Job(h).thing \in Thing
  BY JobsOfHaulers DEF ContainersInv
<1>14. MailOf' /\ Carried'
  BY <1>1, <1>2, <1>9, <1>13 DEF ContainersInv, MailOf, MailRight, Carried, CarriesIt
<1> QED
  BY <1>5, <1>8, <1>10, <1>12, <1>14

\* What an update leaves alone is found where it was.
Untouched(u, i) ==
    /\ kept_in'[i] = kept_in[i] /\ hauled_by'[i] = hauled_by[i] /\ (i \in lying' <=> i \in lying)
    /\ InBoxes(i)' = InBoxes(i)
    /\ ~(u.op = "drop" /\ u.thing = i /\ u.needs /\ kept_in[i] = Nobody)
    /\ u.op \in {"stop", "abort"} /\ u.thing = i => hauled_by[i] # u.who

LEMMA FoundStays ==
    ASSUME ContainersInv, NEW u, TakeHead(u), NEW i \in Thing \ misled, Untouched(u, i)
    PROVE  Found(i)'
<1>1. /\ u = queue[1] /\ \A n \in DOMAIN queue : n # 1 => n - 1 \in DOMAIN queue' /\ queue'[n - 1] = queue[n]
      /\ \A h \in Hauler : Fetches(h, i)' = Fetches(h, i) /\ HoldsIt(h, i)' = HoldsIt(h, i)
  BY HeadTaken
<1>2. Found(i)
  BY DEF ContainersInv, ThingsInPlace
<1>3. kept_in[i] = Nobody /\ WillDrop(i) => WillDrop(i)'
  BY <1>1 DEF WillDrop, Untouched
<1>4. WillStop(hauled_by[i], i) => WillStop(hauled_by[i], i)'
  <2>1. PICK h : h = hauled_by[i]
    OBVIOUS
  <2>2. WillStop(h, i) => WillStop(h, i)'
    BY <1>1, <2>1 DEF WillStop, Untouched
  <2>3. hauled_by'[i] = h
    BY <2>1 DEF Untouched
  <2> QED
    BY <2>1, <2>2, <2>3
<1>5. OutThere(i) => OutThere(i)'
  BY DEF OutThere, Untouched
<1>6. Boxed(i) => Boxed(i)'
  BY DEF Boxed, Untouched
<1>7. InTransit(i) => InTransit(i)'
  BY <1>1, <1>3 DEF InTransit, WillDrop, Fetches, Untouched
<1>8. InHands(i) => InHands(i)'
  BY <1>1, <1>4 DEF InHands, WillStop, HoldsIt, Untouched
<1> QED
  BY <1>2, <1>5, <1>6, <1>7, <1>8 DEF Found, Untouched

\* What updates other than a chest's end do to the chests: nothing.
LEMMA ChestsStay ==
    ASSUME ContainersInv, NEW u, TakeHead(u), u.op # "destroy", UNCHANGED <<voxel, edits, associated, standing, falling>>
    PROVE  ChestsStand'
<1>1. /\ 1 \in DOMAIN queue /\ u = queue[1]
      /\ \A n \in DOMAIN queue' : n \in Nat /\ n >= 1 /\ n + 1 \in DOMAIN queue /\ queue'[n] = queue[n + 1]
      /\ \A n \in DOMAIN queue : n \in Nat /\ n >= 1
      /\ \A n \in DOMAIN queue : n # 1 => n - 1 \in DOMAIN queue' /\ queue'[n - 1] = queue[n]
  BY HeadTaken
<1>2. moment' = "end"
  BY DEF TakeHead
<1>3. \A p \in voxel' : associated'[p] \in standing' \ falling'
  BY DEF ContainersInv, ChestsStand
<1>4. ASSUME NEW p \in Place \ voxel', associated'[p] # Ground
      PROVE  \E n \in DOMAIN queue' : queue'[n] = [op |-> "destroy", place |-> p]
  <2>1. PICK n \in DOMAIN queue : queue[n] = [op |-> "destroy", place |-> p]
    BY <1>4 DEF ContainersInv, ChestsStand
  <2>2. queue[n].op = "destroy"
    BY <2>1
  <2>3. n # 1
    BY <1>1, <2>2
  <2> QED
    BY <1>1, <2>1, <2>3
<1>5. ASSUME NEW n \in DOMAIN queue', queue'[n].op = "destroy"
      PROVE  /\ queue'[n].place \notin voxel' /\ associated'[queue'[n].place] \in standing' \ falling'
             /\ \A m \in DOMAIN queue' : queue'[m] = queue'[n] => m = n
  <2>1. PICK k \in DOMAIN queue : k = n + 1
    BY <1>1
  <2>2. queue[k] = queue'[n] /\ queue[k].op = "destroy"
    BY <1>1, <1>5, <2>1
  <2>3. /\ queue[k].place \notin voxel /\ associated[queue[k].place] \in standing \ falling
        /\ \A m \in DOMAIN queue : queue[m] = queue[k] => m = k
    BY <2>2 DEF ContainersInv, ChestsStand
  <2>4. ASSUME NEW m \in DOMAIN queue', queue'[m] = queue'[n] PROVE m = n
    <3>1. queue[m + 1] = queue[k] /\ m + 1 \in DOMAIN queue
      BY <1>1, <2>2, <2>4
    <3>2. m + 1 = n + 1
      BY <2>1, <2>3, <3>1
    <3> QED
      BY <1>1, <3>2
  <2> QED
    BY <2>2, <2>3, <2>4
<1>6. \A p, q \in Place : associated'[p] = associated'[q] /\ associated'[p] # Ground => p = q
  BY DEF ContainersInv, ChestsStand
<1> QED
  BY <1>2, <1>3, <1>4, <1>5, <1>6 DEF ChestsStand

LEMMA DropKeeps ==
    ASSUME ContainersInv, DropHauled
    PROVE  ContainersInv'
<1>1. PICK u : u = Head(queue)
  OBVIOUS
<1>2. /\ TakeHead(u) /\ u.op = "drop" /\ UNCHANGED <<voxel, edits, associated, boxes, standing, falling>>
      /\ UNCHANGED <<kept_in, hauled_by, misled, told>>
      /\ lying' = IF kept_in[u.thing] = Nobody /\ u.needs THEN lying \cup {u.thing} ELSE lying
  BY <1>1 DEF DropHauled, NextIs, Next1, TakeHead, What, places, store, tasks
<1>3. u.who \in Hauler /\ u.thing \in Thing
  BY <1>2, HeadTaken
<1>4. Respects(u)
  BY <1>2 DEF Respects, Has
<1>5. ChestTypes' /\ ThingTypes' /\ BoxesFit'
  BY <1>2, <1>3 DEF ContainersInv, ChestTypes, ThingTypes, BoxesFit
<1>6. ChestsStand'
  BY <1>2, ChestsStay
<1>7. ASSUME NEW i \in Thing \ misled PROVE Found(i)' /\ ListedOnce(i)'
  <2>1. Found(i) /\ ListedOnce(i)
    BY DEF ContainersInv, ThingsInPlace
  <2>2. InBoxes(i)' = InBoxes(i) /\ ListedOnce(i)'
    BY <1>2, <2>1 DEF InBoxes, Contents, ListedOnce
  <2>3. CASE u.thing = i /\ u.needs /\ kept_in[i] = Nobody
    <3>1. Nobody \notin Nat /\ Nobody \notin Hauler
      BY ContainersAssumption
    <3>2. ~Boxed(i)
      BY <2>3, <3>1 DEF Boxed, InBoxes, ContainersInv, ChestTypes
    <3>3. InBoxes(i) = {} /\ hauled_by[i] = Nobody
      BY <2>1, <2>3, <3>1, <3>2 DEF Found, OutThere, InTransit, InHands
    <3>4. OutThere(i)'
      BY <1>2, <2>2, <2>3, <3>3 DEF OutThere
    <3> QED
      BY <2>2, <3>4 DEF Found
  <2>4. CASE ~(u.thing = i /\ u.needs /\ kept_in[i] = Nobody)
    <3>1. Untouched(u, i)
      BY <1>2, <2>2, <2>4 DEF Untouched
    <3> QED
      BY <1>2, <2>2, <3>1, FoundStays
  <2> QED
    BY <2>3, <2>4
<1>8. ThingsInPlace'
  BY <1>2, <1>7 DEF ThingsInPlace
<1> QED
  BY <1>2, <1>4, <1>5, <1>6, <1>8, RestAsked DEF ContainersInv

LEMMA StopKeeps ==
    ASSUME ContainersInv, StopHauling
    PROVE  ContainersInv'
<1>1. PICK u : u = Head(queue)
  OBVIOUS
<1>2. /\ TakeHead(u) /\ u.op \in {"stop", "abort"} /\ UNCHANGED <<voxel, edits, associated, boxes, standing, falling>>
      /\ UNCHANGED <<lying, told>>
      /\ \/ /\ hauled_by[u.thing] \in {u.who, Nobody}
            /\ hauled_by' = [hauled_by EXCEPT ![u.thing] = Nobody]
            /\ kept_in' = [kept_in EXCEPT ![u.thing] = Nobody]
            /\ misled' = IF kept_in[u.thing] \notin {u.who, Nobody} THEN misled \cup {u.thing} ELSE misled
         \/ hauled_by[u.thing] \notin {u.who, Nobody} /\ UNCHANGED <<hauled_by, kept_in, misled>>
  BY <1>1 DEF StopHauling, NextIs, Next1, TakeHead, What, Who, Misled, places, store, tasks
<1>3. u.who \in Hauler /\ u.thing \in Thing /\ u.op # "destroy"
  BY <1>2, HeadTaken
<1>4. /\ Nobody \notin Nat /\ Nobody \notin Hauler /\ \A h \in Hauler : h \notin Nat
      /\ kept_in \in [Thing -> Hauler \cup Nat \cup {Nobody}] /\ hauled_by \in [Thing -> Hauler \cup {Nobody}]
      /\ standing \subseteq Nat
  BY ContainersAssumption DEF ContainersInv, ThingTypes, ChestTypes
<1>5. ChestTypes' /\ ThingTypes' /\ BoxesFit'
  BY <1>2, <1>3, <1>4 DEF ContainersInv, ChestTypes, ThingTypes, BoxesFit
<1>6. ChestsStand'
  BY <1>2, <1>3, ChestsStay
<1>7. \A i \in Thing : InBoxes(i)' = InBoxes(i) /\ (ListedOnce(i) => ListedOnce(i)')
  BY <1>2 DEF InBoxes, Contents, ListedOnce
\* Who has the thing puts it down where it is.
<1>8. ASSUME u.thing \notin misled', hauled_by[u.thing] \in {u.who, Nobody}
      PROVE  IF hauled_by[u.thing] = u.who THEN OutThere(u.thing)' ELSE Found(u.thing)'
  <2>1. PICK i \in Thing : i = u.thing
    BY <1>3
  <2>2. Found(i) /\ i \notin misled /\ kept_in[i] \in {u.who, Nobody} /\ hauled_by'[i] = Nobody /\ kept_in'[i] = Nobody
    BY <1>2, <1>3, <1>4, <1>8, <2>1 DEF ContainersInv, ThingsInPlace
  <2>3. InBoxes(i)' = InBoxes(i) /\ lying' = lying
    BY <1>2, <1>7
  <2>4. ~Boxed(i)
    BY <1>3, <1>4, <2>2 DEF Boxed, InBoxes
  <2>5. CASE InHands(i)
    <3>1. InBoxes(i) = {}
      BY <2>2, <2>5, <1>4 DEF Found, OutThere, Boxed, InTransit, InHands
    <3>2. OutThere(i)'
      BY <2>2, <2>3, <2>5, <3>1 DEF OutThere, InHands
    <3> QED
      BY <2>1, <3>2 DEF Found
  <2>6. CASE ~InHands(i)
    <3>1. hauled_by[i] = Nobody /\ kept_in[i] = Nobody
      BY <2>2, <2>4, <2>6 DEF Found, OutThere, InTransit
    <3>2. Untouched(u, i)
      BY <1>2, <1>3, <1>4, <2>2, <2>3, <3>1 DEF Untouched
    <3>3. Found(i)'
      BY <1>2, <2>2, <3>2, FoundStays
    <3> QED
      BY <1>3, <1>4, <2>1, <3>1, <3>3
  <2> QED
    BY <2>5, <2>6
<1>9. ASSUME NEW i \in Thing, i \notin misled' PROVE Found(i)' /\ ListedOnce(i)'
  <2>1. i \notin misled
    BY <1>2, <1>9
  <2>2. ListedOnce(i)'
    BY <1>7, <2>1 DEF ContainersInv, ThingsInPlace
  <2>3. CASE i = u.thing /\ hauled_by[i] \in {u.who, Nobody}
    BY <1>8, <1>9, <2>2, <2>3 DEF Found
  <2>4. CASE ~(i = u.thing /\ hauled_by[i] \in {u.who, Nobody})
    <3>1. Untouched(u, i)
      BY <1>2, <1>3, <1>4, <1>7, <2>4 DEF Untouched
    <3> QED
      BY <1>2, <2>1, <2>2, <3>1, FoundStays
  <2> QED
    BY <2>3, <2>4
<1>10. ThingsInPlace'
  BY <1>9 DEF ThingsInPlace
<1>11. Respects(u)
  <2>1. \A h \in Hauler, i \in Thing : Has(h, i) => Has(h, i)' \/ (u.who = h /\ u.thing = i)
    BY <1>2, <1>3, <1>4 DEF Has
  <2>2. u.op = "stop" => Has(u.who, u.thing)
    <3>1. 1 \in DOMAIN queue /\ u = queue[1]
      BY <1>2, HeadTaken
    <3> QED
      BY <1>3, <3>1 DEF ContainersInv, AllAsked, Asked, AskedToStop
  <2>3. u.op = "stop" => u.thing \in misled' \/ OutThere(u.thing)'
    BY <1>2, <1>8, <2>2 DEF Has
  <2> QED
    BY <1>2, <2>1, <2>3 DEF Respects
<1> QED
  BY <1>2, <1>5, <1>6, <1>10, <1>11, RestAsked DEF ContainersInv

-----------------------------------------------------------------------------
(* What goes into a container, and out of it *)

VolumeOf(contents) == SumFunction([i \in Thing |-> Size[i] * contents[i]])

LEMMA TimesOneMore ==
    ASSUME NEW a \in Nat, NEW c \in Int
    PROVE  a * c \in Int /\ a * (c + 1) = (a * c) + a /\ a * (c - 1) = (a * c) - a
OBVIOUS

LEMMA VolumeChanges ==
    ASSUME NEW was \in [Thing -> Nat], NEW t \in Thing, NEW is \in [Thing -> Nat],
           \A i \in Thing : i # t => is[i] = was[i]
    PROVE  /\ VolumeOf(was) \in Int
           /\ is[t] = was[t] + 1 => VolumeOf(is) = VolumeOf(was) + Size[t]
           /\ is[t] = was[t] - 1 => VolumeOf(is) = VolumeOf(was) - Size[t]
<1>1. PICK f : f = [i \in Thing |-> Size[i] * was[i]]
  OBVIOUS
<1>2. PICK g : g = [i \in Thing |-> Size[i] * is[i]]
  OBVIOUS
<1>3. f \in [Thing -> Int] /\ g \in [Thing -> Int] /\ \A i \in Thing : i # t => f[i] = g[i]
  BY <1>1, <1>2, ContainersAssumption
<1>4. SumFunction(f) \in Int /\ SumFunction(g) = (SumFunction(f) - f[t]) + g[t]
  BY <1>3, SumChanges, ContainersAssumption
<1>5. VolumeOf(was) = SumFunction(f) /\ VolumeOf(is) = SumFunction(g)
  BY <1>1, <1>2 DEF VolumeOf
<1>6. f[t] = Size[t] * was[t] /\ g[t] = Size[t] * is[t] /\ Size[t] \in Nat /\ was[t] \in Int /\ f[t] \in Int
  BY <1>1, <1>2, <1>3, ContainersAssumption
<1>7. is[t] = was[t] + 1 => g[t] = f[t] + Size[t]
  BY <1>6, TimesOneMore
<1>8. is[t] = was[t] - 1 => g[t] = f[t] - Size[t]
  BY <1>6, TimesOneMore
<1> QED
  BY <1>4, <1>5, <1>6, <1>7, <1>8

LEMMA BoxTakes ==
    ASSUME NEW c \in Boxes, NEW t \in Thing, c.volume = VolumeOf(c.contents)
    PROVE  /\ Added(c, t) \in Boxes /\ Added(c, t).volume = VolumeOf(Added(c, t).contents)
           /\ Added(c, t).volume = c.volume + Size[t]
           /\ \A i \in Thing : Added(c, t).contents[i] = IF i = t THEN c.contents[i] + 1 ELSE c.contents[i]
<1>1. PICK is : is = [c.contents EXCEPT ![t] = @ + 1]
  OBVIOUS
<1>2. /\ c.contents \in [Thing -> Nat] /\ c.volume \in Int /\ is \in [Thing -> Nat]
      /\ \A i \in Thing : is[i] = IF i = t THEN c.contents[i] + 1 ELSE c.contents[i]
  BY <1>1 DEF Boxes
<1>3. VolumeOf(is) = VolumeOf(c.contents) + Size[t]
  BY <1>2, VolumeChanges
<1>4. Added(c, t) = [contents |-> is, volume |-> c.volume + Size[t]]
  BY <1>1 DEF Added
<1> QED
  BY <1>2, <1>3, <1>4, ContainersAssumption DEF Boxes

LEMMA BoxGives ==
    ASSUME NEW c \in Boxes, NEW t \in Thing, c.contents[t] > 0, c.volume = VolumeOf(c.contents)
    PROVE  /\ Removed(c, t) \in Boxes /\ Removed(c, t).volume = VolumeOf(Removed(c, t).contents)
           /\ Removed(c, t).volume = c.volume - Size[t]
           /\ \A i \in Thing : Removed(c, t).contents[i] = IF i = t THEN c.contents[i] - 1 ELSE c.contents[i]
<1>1. PICK is : is = [c.contents EXCEPT ![t] = @ - 1]
  OBVIOUS
<1>2. /\ c.contents \in [Thing -> Nat] /\ c.volume \in Int /\ is \in [Thing -> Nat]
      /\ \A i \in Thing : is[i] = IF i = t THEN c.contents[i] - 1 ELSE c.contents[i]
  BY <1>1 DEF Boxes
<1>3. VolumeOf(is) = VolumeOf(c.contents) - Size[t]
  BY <1>2, VolumeChanges
<1>4. Removed(c, t) = [contents |-> is, volume |-> c.volume - Size[t]]
  BY <1>1 DEF Removed
<1> QED
  BY <1>2, <1>3, <1>4, ContainersAssumption DEF Boxes

LEMMA OneBoxChanges ==
    ASSUME ContainersInv, NEW b \in standing, NEW c \in Boxes, c.volume = VolumeOf(c.contents), c.volume <= BoxLimit,
           boxes' = [boxes EXCEPT ![b] = c], UNCHANGED <<voxel, edits, associated, standing, falling>>
    PROVE  /\ ChestTypes' /\ BoxesFit' /\ boxes'[b] = c
           /\ \A a \in standing : a # b => boxes'[a] = boxes[a]
<1>1. boxes \in Seq(Boxes) /\ b \in DOMAIN boxes /\ standing \subseteq DOMAIN boxes
  BY DEF ContainersInv, ChestTypes
<1>2. boxes' \in Seq(Boxes) /\ DOMAIN boxes' = DOMAIN boxes /\ boxes'[b] = c /\ \A a \in standing : a # b => boxes'[a] = boxes[a]
  BY <1>1
<1>3. ChestTypes'
  BY <1>2 DEF ContainersInv, ChestTypes
<1>4. BoxesFit'
  BY <1>2 DEF ContainersInv, BoxesFit, VolumeOf
<1> QED
  BY <1>2, <1>3, <1>4

LEMMA PickupKeeps ==
    ASSUME ContainersInv, HaulPickup
    PROVE  ContainersInv'
<1>1. PICK u : u = Head(queue)
  OBVIOUS
<1>2. PICK free \in BOOLEAN : free <=> hauled_by[u.thing] = Nobody /\ \A i \in Thing : hauled_by[i] # u.who
  OBVIOUS
<1>3. /\ TakeHead(u) /\ u.op = "pickup" /\ UNCHANGED <<voxel, edits, associated, boxes, standing, falling>>
      /\ told' = Append(told, HaulEvent("hauled", u.who, u.thing, hauled_by[u.thing] = Nobody /\ \A i \in Thing : hauled_by[i] # u.who))
      /\ \/ /\ free
            /\ hauled_by' = [hauled_by EXCEPT ![u.thing] = u.who]
            /\ kept_in' = [kept_in EXCEPT ![u.thing] = u.who]
            /\ lying' = lying \cup {u.thing}
            /\ misled' = IF kept_in[u.thing] # Nobody THEN misled \cup {u.thing} ELSE misled
         \/ ~free /\ UNCHANGED <<hauled_by, kept_in, lying, misled>>
  BY <1>1, <1>2 DEF HaulPickup, NextIs, Next1, TakeHead, What, Who, Misled, PostEvent, places, store, tasks
<1>4. told' = Append(told, HaulEvent("hauled", u.who, u.thing, free))
  BY <1>2, <1>3
<1>5. u.who \in Hauler /\ u.thing \in Thing /\ 1 \in DOMAIN queue /\ u = queue[1]
  BY <1>3, HeadTaken
<1>6. /\ Nobody \notin Nat /\ Nobody \notin Hauler /\ \A h \in Hauler : h \notin Nat
      /\ kept_in \in [Thing -> Hauler \cup Nat \cup {Nobody}] /\ hauled_by \in [Thing -> Hauler \cup {Nobody}]
      /\ lying \subseteq Thing /\ standing \subseteq Nat
  BY ContainersAssumption DEF ContainersInv, ThingTypes, ChestTypes
<1>7. ChestTypes' /\ BoxesFit'
  BY <1>3 DEF ContainersInv, ChestTypes, BoxesFit
<1>8. ThingTypes'
  BY <1>3, <1>5, <1>6 DEF ThingTypes
<1>9. ChestsStand'
  BY <1>3, ChestsStay
<1>10. \A i \in Thing : InBoxes(i)' = InBoxes(i) /\ (ListedOnce(i) => ListedOnce(i)')
  BY <1>3 DEF InBoxes, Contents, ListedOnce
\* Whoever has it now knows, or has given up.
<1>11. ASSUME free, u.thing \notin misled' PROVE Found(u.thing)'
  <2>1. PICK i \in Thing : i = u.thing
    BY <1>5
  <2>2. PICK h \in Hauler : h = u.who
    BY <1>5
  <2>3. Found(i) /\ i \notin misled /\ kept_in[i] = Nobody /\ hauled_by[i] = Nobody
    BY <1>2, <1>3, <1>11, <2>1 DEF ContainersInv, ThingsInPlace
  <2>4. InBoxes(i) = {}
    BY <1>6, <2>3 DEF Found, OutThere, Boxed, InTransit, InHands, InBoxes
  <2>5. hauled_by'[i] = h /\ kept_in'[i] = h /\ i \in lying' /\ InBoxes(i)' = {}
    BY <1>3, <1>6, <1>10, <1>11, <2>1, <2>2, <2>4
  <2>6. AskedToPickUp(u, 1)
    BY <1>3, <1>5 DEF ContainersInv, AllAsked, Asked
  <2>7. CASE work[h].at = "pickup"
    <3>1. HoldsIt(h, i)
      BY <2>1, <2>2, <2>6, <2>7, JobsOfHaulers DEF HoldsIt, AskedToPickUp, ContainersInv
    <3>2. HoldsIt(h, i)'
      BY <1>3, <3>1, HeadTaken
    <3> QED
      BY <2>1, <2>5, <3>2 DEF Found, InHands, HoldsIt
  <2>8. CASE work[h].at # "pickup"
    <3>1. PICK m \in DOMAIN queue : m > 1 /\ queue[m].op = "abort" /\ queue[m].who = h /\ queue[m].thing = i
      BY <2>1, <2>2, <2>6, <2>8 DEF AskedToPickUp
    <3>2. m - 1 \in DOMAIN queue' /\ queue'[m - 1] = queue[m]
      BY <1>3, <3>1, HeadTaken
    <3>3. InHands(i)'
      BY <2>5, <3>1, <3>2 DEF InHands
    <3> QED
      BY <2>1, <2>5, <3>3 DEF Found
  <2> QED
    BY <2>7, <2>8
<1>12. ASSUME NEW i \in Thing, i \notin misled' PROVE Found(i)' /\ ListedOnce(i)'
  <2>1. i \notin misled
    BY <1>3, <1>12
  <2>2. ListedOnce(i)'
    BY <1>10, <2>1 DEF ContainersInv, ThingsInPlace
  <2>3. CASE i = u.thing /\ free
    BY <1>11, <1>12, <2>2, <2>3
  <2>4. CASE ~(i = u.thing /\ free)
    <3>1. Untouched(u, i)
      BY <1>3, <1>5, <1>6, <1>10, <2>4 DEF Untouched
    <3> QED
      BY <1>3, <2>1, <2>2, <3>1, FoundStays
  <2> QED
    BY <2>3, <2>4
<1>13. ThingsInPlace'
  BY <1>12 DEF ThingsInPlace
<1>14. Respects(u)
  <2>1. PICK e \in HaulEvents : e = HaulEvent("hauled", u.who, u.thing, free)
    BY <1>5 DEF HaulEvent, HaulEvents
  <2>2. e.who = u.who /\ e.thing = u.thing /\ e.ok = free
    BY <2>1 DEF HaulEvent
  <2>3. free => Has(u.who, u.thing)'
    BY <1>3, <1>5, <1>6 DEF Has
  <2>4. \A h \in Hauler, i \in Thing : Has(h, i) => Has(h, i)'
    BY <1>2, <1>3, <1>5, <1>6 DEF Has
  <2> QED
    BY <1>3, <1>4, <2>1, <2>2, <2>3, <2>4 DEF Respects
<1> QED
  BY <1>3, <1>7, <1>8, <1>9, <1>13, <1>14, RestAsked DEF ContainersInv

LEMMA RemovalKeeps ==
    ASSUME ContainersInv, ContainerRemoval
    PROVE  ContainersInv'
<1>1. PICK u : u = Head(queue)
  OBVIOUS
<1>2. PICK ok \in BOOLEAN : ok <=> u.box \in standing /\ u.thing \in Contents(u.box)
  OBVIOUS
<1>3. /\ TakeHead(u) /\ u.op = "remove" /\ UNCHANGED <<voxel, edits, associated, standing, falling>>
      /\ UNCHANGED <<hauled_by, lying>>
      /\ told' = Append(told, HaulEvent("exited", u.who, u.thing, u.box \in standing /\ u.thing \in Contents(u.box)))
      /\ \/ /\ ok
            /\ boxes' = [boxes EXCEPT ![u.box] = Removed(boxes[u.box], u.thing)]
            /\ kept_in' = [kept_in EXCEPT ![u.thing] = Nobody]
            /\ misled' = IF kept_in[u.thing] \notin {u.box, Nobody} THEN misled \cup {u.thing} ELSE misled
         \/ ~ok /\ UNCHANGED <<boxes, kept_in, misled>>
  BY <1>1, <1>2 DEF ContainerRemoval, NextIs, Next1, TakeHead, What, Who, Where, Misled, PostEvent, places, tasks
<1>4. told' = Append(told, HaulEvent("exited", u.who, u.thing, ok))
  BY <1>2, <1>3
<1>5. u.who \in Hauler /\ u.thing \in Thing /\ 1 \in DOMAIN queue /\ u = queue[1]
  BY <1>3, HeadTaken
<1>6. /\ Nobody \notin Nat /\ Nobody \notin Hauler /\ \A h \in Hauler : h \notin Nat
      /\ kept_in \in [Thing -> Hauler \cup Nat \cup {Nobody}] /\ hauled_by \in [Thing -> Hauler \cup {Nobody}]
      /\ lying \subseteq Thing /\ standing \subseteq Nat /\ falling \subseteq standing
      /\ boxes \in Seq(Boxes) /\ standing \subseteq DOMAIN boxes
  BY ContainersAssumption DEF ContainersInv, ThingTypes, ChestTypes
<1>7. ThingTypes'
  BY <1>3, <1>5, <1>6 DEF ThingTypes
<1>8. ChestsStand'
  BY <1>3, ChestsStay
<1>9. Respects(u)
  <2>1. PICK e \in HaulEvents : e = HaulEvent("exited", u.who, u.thing, ok)
    BY <1>5 DEF HaulEvent, HaulEvents
  <2>2. e.what = "exited"
    BY <2>1 DEF HaulEvent
  <2>3. \A h \in Hauler, i \in Thing : Has(h, i) => Has(h, i)'
    BY <1>3 DEF Has
  <2> QED
    BY <1>3, <1>4, <2>1, <2>2, <2>3 DEF Respects
<1>10. Moments' /\ WorkTypes' /\ TalkTypes' /\ AllAsked' /\ ToldOf' /\ MailOf' /\ Carried'
  BY <1>3, <1>9, RestAsked
<1>11. CASE ~ok
  <2>1. ChestTypes' /\ BoxesFit'
    BY <1>3, <1>11 DEF ContainersInv, ChestTypes, BoxesFit
  <2>2. ASSUME NEW i \in Thing \ misled PROVE Found(i)' /\ ListedOnce(i)'
    <3>1. InBoxes(i)' = InBoxes(i) /\ (ListedOnce(i) => ListedOnce(i)')
      BY <1>3, <1>11 DEF InBoxes, Contents, ListedOnce
    <3>2. Untouched(u, i)
      BY <1>3, <1>11, <3>1 DEF Untouched
    <3> QED
      BY <1>3, <3>1, <3>2, FoundStays DEF ContainersInv, ThingsInPlace
  <2>3. ThingsInPlace'
    BY <1>3, <1>11, <2>2 DEF ThingsInPlace
  <2> QED
    BY <1>7, <1>8, <1>10, <2>1, <2>3 DEF ContainersInv
<1>12. CASE ok
  <2>1. PICK b \in standing : b = u.box
    BY <1>2, <1>12
  <2>2. PICK t \in Thing : t = u.thing
    BY <1>5
  <2>3. /\ boxes[b] \in Boxes /\ boxes[b].volume = VolumeOf(boxes[b].contents) /\ boxes[b].volume <= BoxLimit
        /\ boxes[b].contents[t] > 0
    BY <1>2, <1>6, <1>12, <2>1, <2>2 DEF ContainersInv, BoxesFit, VolumeOf, Contents
  <2>4. PICK c : c = Removed(boxes[b], t)
    OBVIOUS
  <2>5. /\ c \in Boxes /\ c.volume = VolumeOf(c.contents) /\ c.volume = boxes[b].volume - Size[t]
        /\ \A i \in Thing : c.contents[i] = IF i = t THEN boxes[b].contents[i] - 1 ELSE boxes[b].contents[i]
    BY <2>3, <2>4, BoxGives
  <2>6. c.volume <= BoxLimit
    BY <2>3, <2>5, ContainersAssumption DEF Boxes
  <2>7. boxes' = [boxes EXCEPT ![b] = c]
    BY <1>3, <1>12, <2>1, <2>2, <2>4
  <2>8. /\ ChestTypes' /\ BoxesFit' /\ boxes'[b] = c /\ \A a \in standing : a # b => boxes'[a] = boxes[a]
    BY <1>3, <2>5, <2>6, <2>7, OneBoxChanges
  <2>9. \A i \in Thing : i # t => InBoxes(i)' = InBoxes(i) /\ (ListedOnce(i) => ListedOnce(i)')
    <3> SUFFICES ASSUME NEW i \in Thing, i # t PROVE InBoxes(i)' = InBoxes(i) /\ (ListedOnce(i) => ListedOnce(i)')
      OBVIOUS
    <3>1. \A a \in standing : boxes'[a].contents[i] = boxes[a].contents[i]
      BY <2>5, <2>8
    <3> QED
      BY <1>3, <1>6, <3>1 DEF InBoxes, Contents, ListedOnce
  <2>10. ASSUME NEW i \in Thing, i \notin misled' PROVE Found(i)' /\ ListedOnce(i)'
    <3>1. i \notin misled
      BY <1>3, <2>10
    <3>2. Found(i) /\ ListedOnce(i)
      BY <3>1 DEF ContainersInv, ThingsInPlace
    <3>3. CASE i # t
      <4>1. Untouched(u, i)
        BY <1>3, <1>5, <1>6, <1>12, <2>2, <2>9, <3>3 DEF Untouched
      <4> QED
        BY <1>3, <2>9, <3>1, <3>2, <3>3, <4>1, FoundStays
    <3>4. CASE i = t
      <4>1. kept_in[i] \in {b, Nobody} /\ kept_in'[i] = Nobody /\ hauled_by' = hauled_by /\ lying' = lying
        BY <1>3, <1>5, <1>6, <1>12, <2>1, <2>2, <2>10, <3>4
      <4>2. ASSUME NEW a \in standing \ falling PROVE boxes[a].contents[i] \in Nat
        <5>1. boxes[a] \in Boxes
          BY <1>6
        <5> QED
          BY <5>1 DEF Boxes
      <4>3. InBoxes(i)' = InBoxes(i) \ {b} /\ ListedOnce(i)'
        BY <1>3, <2>3, <2>5, <2>8, <3>2, <3>4, <4>2 DEF InBoxes, Contents, ListedOnce
      <4>4. CASE InBoxes(i) = {}
        <5>1. ~Boxed(i)
          BY <4>4 DEF Boxed
        <5>2. ~InHands(i)
          BY <1>6, <4>1 DEF InHands
        <5>3. kept_in[i] = Nobody
          BY <3>2, <5>1, <5>2 DEF Found, OutThere, InTransit
        <5>4. Untouched(u, i)
          BY <1>3, <4>1, <4>3, <4>4, <5>3 DEF Untouched
        <5> QED
          BY <1>3, <3>1, <4>3, <5>4, FoundStays
      <4>5. CASE InBoxes(i) # {}
        <5>1. Boxed(i) /\ kept_in[i] \in standing
          BY <3>2, <4>5 DEF Found, OutThere, Boxed, InBoxes
        <5>2. kept_in[i] = b /\ InBoxes(i)' = {}
          BY <1>6, <4>1, <4>3, <5>1 DEF Boxed
        <5>3. AskedToRemove(u)
          BY <1>3, <1>5 DEF ContainersInv, AllAsked, Asked
        <5>4. PICK h \in Hauler : h = u.who
          BY <1>5
        <5>5. Fetches(h, i)
          BY <2>2, <3>4, <5>3, <5>4, JobsOfHaulers DEF Fetches, NeedsTransform, AskedToRemove, ContainersInv
        <5>6. Fetches(h, i)'
          BY <1>3, <5>5, HeadTaken
        <5>7. InTransit(i)'
          BY <4>1, <5>1, <5>6 DEF InTransit, Fetches, Boxed
        <5> QED
          BY <4>3, <5>2, <5>7 DEF Found
      <4> QED
        BY <4>4, <4>5
    <3> QED
      BY <3>3, <3>4
  <2>11. ThingsInPlace'
    BY <2>10 DEF ThingsInPlace
  <2> QED
    BY <1>7, <1>8, <1>10, <2>8, <2>11 DEF ContainersInv
<1> QED
  BY <1>11, <1>12

LEMMA PutKeeps ==
    ASSUME ContainersInv, PutIntoContainer
    PROVE  ContainersInv'
<1>1. PICK u : u = Head(queue)
  OBVIOUS
<1>2. PICK ok \in BOOLEAN : ok <=> u.box \in standing /\ FitsIn(u.box, u.thing)
  OBVIOUS
<1>3. /\ TakeHead(u) /\ u.op = "put" /\ UNCHANGED <<voxel, edits, associated, standing, falling>>
      /\ UNCHANGED <<hauled_by>>
      /\ told' = Append(told, HaulEvent("entered", u.who, u.thing, u.box \in standing /\ FitsIn(u.box, u.thing)))
      /\ \/ /\ ok
            /\ boxes' = [boxes EXCEPT ![u.box] = Added(boxes[u.box], u.thing)]
            /\ kept_in' = [kept_in EXCEPT ![u.thing] = u.box]
            /\ lying' = lying \ {u.thing}
            /\ misled' = IF u.box \in falling THEN misled \cup {u.thing} ELSE misled
         \/ ~ok /\ UNCHANGED <<boxes, kept_in, lying, misled>>
  BY <1>1, <1>2 DEF PutIntoContainer, NextIs, Next1, TakeHead, What, Who, Where, Misled, PostEvent, places, tasks
<1>4. told' = Append(told, HaulEvent("entered", u.who, u.thing, ok))
  BY <1>2, <1>3
<1>5. u.who \in Hauler /\ u.thing \in Thing /\ u.box \in Nat /\ 1 \in DOMAIN queue /\ u = queue[1]
  BY <1>3, HeadTaken
<1>6. /\ Nobody \notin Nat /\ Nobody \notin Hauler /\ \A h \in Hauler : h \notin Nat
      /\ kept_in \in [Thing -> Hauler \cup Nat \cup {Nobody}] /\ hauled_by \in [Thing -> Hauler \cup {Nobody}]
      /\ lying \subseteq Thing /\ standing \subseteq Nat /\ falling \subseteq standing
      /\ boxes \in Seq(Boxes) /\ standing \subseteq DOMAIN boxes
  BY ContainersAssumption DEF ContainersInv, ThingTypes, ChestTypes
<1>7. ThingTypes'
  BY <1>3, <1>5, <1>6 DEF ThingTypes
<1>8. ChestsStand'
  BY <1>3, ChestsStay
<1>9. Respects(u)
  <2>1. PICK e \in HaulEvents : e = HaulEvent("entered", u.who, u.thing, ok)
    BY <1>5 DEF HaulEvent, HaulEvents
  <2>2. e.what = "entered"
    BY <2>1 DEF HaulEvent
  <2>3. \A h \in Hauler, i \in Thing : Has(h, i) => Has(h, i)'
    BY <1>3 DEF Has
  <2> QED
    BY <1>3, <1>4, <2>1, <2>2, <2>3 DEF Respects
<1>10. Moments' /\ WorkTypes' /\ TalkTypes' /\ AllAsked' /\ ToldOf' /\ MailOf' /\ Carried'
  BY <1>3, <1>9, RestAsked
<1>11. CASE ~ok
  <2>1. ChestTypes' /\ BoxesFit'
    BY <1>3, <1>11 DEF ContainersInv, ChestTypes, BoxesFit
  <2>2. ASSUME NEW i \in Thing \ misled PROVE Found(i)' /\ ListedOnce(i)'
    <3>1. InBoxes(i)' = InBoxes(i) /\ (ListedOnce(i) => ListedOnce(i)')
      BY <1>3, <1>11 DEF InBoxes, Contents, ListedOnce
    <3>2. Untouched(u, i)
      BY <1>3, <1>11, <3>1 DEF Untouched
    <3> QED
      BY <1>3, <3>1, <3>2, FoundStays DEF ContainersInv, ThingsInPlace
  <2>3. ThingsInPlace'
    BY <1>3, <1>11, <2>2 DEF ThingsInPlace
  <2> QED
    BY <1>7, <1>8, <1>10, <2>1, <2>3 DEF ContainersInv
<1>12. CASE ok
  <2>1. PICK b \in standing : b = u.box
    BY <1>2, <1>12
  <2>2. PICK t \in Thing : t = u.thing
    BY <1>5
  <2>3. /\ boxes[b] \in Boxes /\ boxes[b].volume = VolumeOf(boxes[b].contents)
        /\ boxes[b].volume + Size[t] <= BoxLimit
    BY <1>2, <1>6, <1>12, <2>1, <2>2 DEF ContainersInv, BoxesFit, VolumeOf, FitsIn
  <2>4. PICK c : c = Added(boxes[b], t)
    OBVIOUS
  <2>5. /\ c \in Boxes /\ c.volume = VolumeOf(c.contents) /\ c.volume = boxes[b].volume + Size[t]
        /\ \A i \in Thing : c.contents[i] = IF i = t THEN boxes[b].contents[i] + 1 ELSE boxes[b].contents[i]
    BY <2>3, <2>4, BoxTakes
  <2>6. c.volume <= BoxLimit
    BY <2>3, <2>5
  <2>7. boxes' = [boxes EXCEPT ![b] = c]
    BY <1>3, <1>12, <2>1, <2>2, <2>4
  <2>8. /\ ChestTypes' /\ BoxesFit' /\ boxes'[b] = c /\ \A a \in standing : a # b => boxes'[a] = boxes[a]
    BY <1>3, <2>5, <2>6, <2>7, OneBoxChanges
  <2>9. ASSUME NEW i \in Thing, i # t PROVE InBoxes(i)' = InBoxes(i) /\ (ListedOnce(i) => ListedOnce(i)')
    <3>1. \A a \in standing : boxes'[a].contents[i] = boxes[a].contents[i]
      BY <2>5, <2>8, <2>9
    <3> QED
      BY <1>3, <1>6, <3>1 DEF InBoxes, Contents, ListedOnce
  <2>10. ASSUME NEW i \in Thing, i \notin misled' PROVE Found(i)' /\ ListedOnce(i)'
    <3>1. i \notin misled
      BY <1>3, <2>10
    <3>2. Found(i) /\ ListedOnce(i)
      BY <3>1 DEF ContainersInv, ThingsInPlace
    <3>3. CASE i # t
      <4>1. InBoxes(i)' = InBoxes(i) /\ ListedOnce(i)'
        BY <2>9, <3>2, <3>3
      <4>2. Untouched(u, i)
        BY <1>3, <1>5, <1>6, <1>12, <2>2, <3>3, <4>1 DEF Untouched
      <4> QED
        BY <1>3, <3>1, <4>1, <4>2, FoundStays
    \* What is put into a container was put down before.
    <3>4. CASE i = t
      <4>1. AskedToPut(u, 1)
        BY <1>3, <1>5 DEF ContainersInv, AllAsked, Asked
      <4>2. OutThere(i)
        BY <2>2, <3>1, <3>4, <4>1 DEF AskedToPut
      <4>3. b \in standing \ falling
        BY <1>3, <1>12, <2>1, <2>2, <2>10, <3>4
      <4>4. ASSUME NEW a \in standing \ falling PROVE boxes[a].contents[i] = 0
        <5>1. boxes[a] \in Boxes
          BY <1>6
        <5>2. boxes[a].contents[i] \in Nat
          BY <5>1 DEF Boxes
        <5> QED
          BY <4>2, <5>2 DEF OutThere, InBoxes, Contents
      <4>5. \A a \in standing' \ falling' : boxes'[a].contents[i] = IF a = b THEN 1 ELSE 0
        BY <1>3, <2>5, <2>8, <3>4, <4>3, <4>4
      <4>6. InBoxes(i)' = {b} /\ ListedOnce(i)'
        BY <1>3, <4>3, <4>5 DEF InBoxes, Contents, ListedOnce
      <4>7. kept_in'[i] = b /\ i \notin lying' /\ hauled_by'[i] = Nobody
        BY <1>3, <1>5, <1>6, <1>12, <2>1, <2>2, <3>4, <4>2 DEF OutThere
      <4> QED
        BY <4>6, <4>7 DEF Found, Boxed
    <3> QED
      BY <3>3, <3>4
  <2>11. ThingsInPlace'
    BY <2>10 DEF ThingsInPlace
  <2> QED
    BY <1>7, <1>8, <1>10, <2>8, <2>11 DEF ContainersInv
<1> QED
  BY <1>11, <1>12

\* Its contents are out in the world before the container is deleted.
LEMMA DestroyKeeps ==
    ASSUME ContainersInv, DestroyContainer
    PROVE  ContainersInv'
<1>1. PICK u : u = Head(queue)
  OBVIOUS
<1>2. TakeHead(u) /\ u.op = "destroy"
  BY <1>1 DEF DestroyContainer, NextIs, Next1, TakeHead, tasks
<1>3. /\ 1 \in DOMAIN queue /\ u = queue[1] /\ u \in Breakings /\ u.place \in Place
      /\ \A n \in DOMAIN queue' : n \in Nat /\ n >= 1 /\ n + 1 \in DOMAIN queue /\ queue'[n] = queue[n + 1]
      /\ \A n \in DOMAIN queue : n \in Nat /\ n >= 1
      /\ \A n \in DOMAIN queue : n # 1 => n - 1 \in DOMAIN queue' /\ queue'[n - 1] = queue[n]
  BY <1>2, HeadTaken
<1>4. PICK p \in Place : p = u.place
  BY <1>3
<1>5. PICK b \in standing \ falling : b = associated[p]
  BY <1>2, <1>3, <1>4 DEF ContainersInv, ChestsStand
<1>6. /\ UNCHANGED <<voxel, edits, boxes, standing, hauled_by, misled, told>>
      /\ falling' = falling \cup {b} /\ associated' = [associated EXCEPT ![p] = Ground]
      /\ kept_in' = [i \in Thing |-> IF i \in Contents(b) THEN Nobody ELSE kept_in[i]]
      /\ lying' = lying \cup Contents(b)
  BY <1>1, <1>4, <1>5 DEF DestroyContainer
<1>7. /\ Nobody \notin Nat /\ Nobody \notin Hauler
      /\ kept_in \in [Thing -> Hauler \cup Nat \cup {Nobody}]
      /\ lying \subseteq Thing /\ standing \subseteq Nat /\ falling \subseteq standing
      /\ associated \in [Place -> Nat] /\ b \in Nat /\ b # 0
  BY ContainersAssumption, <1>5 DEF ContainersInv, ThingTypes, ChestTypes
<1>8. ThingTypes'
  BY <1>6, <1>7 DEF ContainersInv, ThingTypes, Contents
<1>9. ChestTypes' /\ BoxesFit'
  BY <1>6, <1>7 DEF ContainersInv, ChestTypes, BoxesFit, Ground
<1>10. ChestsStand'
  <2>1. \A q \in Place : q # p => associated'[q] = associated[q] /\ associated[q] # b
    BY <1>5, <1>6, <1>7 DEF ContainersInv, ChestsStand, Ground
  <2>2. p \notin voxel /\ associated'[p] = Ground /\ moment' = "end"
    BY <1>2, <1>3, <1>4, <1>6, <1>7 DEF ContainersInv, ChestsStand, TakeHead
  <2>3. \A q \in voxel' : associated'[q] \in standing' \ falling'
    BY <1>6, <2>1, <2>2 DEF ContainersInv, ChestsStand, ChestTypes
  <2>4. ASSUME NEW q \in Place \ voxel', associated'[q] # Ground
        PROVE  \E n \in DOMAIN queue' : queue'[n] = [op |-> "destroy", place |-> q]
    <3>1. q # p /\ associated[q] # Ground /\ q \notin voxel
      BY <1>6, <2>1, <2>2, <2>4
    <3>2. PICK n \in DOMAIN queue : queue[n] = [op |-> "destroy", place |-> q]
      BY <3>1 DEF ContainersInv, ChestsStand
    <3>3. queue[n].place = q
      BY <3>2
    <3>4. n # 1
      BY <1>3, <1>4, <3>1, <3>3
    <3> QED
      BY <1>3, <3>2, <3>4
  <2>5. ASSUME NEW n \in DOMAIN queue', queue'[n].op = "destroy"
        PROVE  /\ queue'[n].place \notin voxel' /\ associated'[queue'[n].place] \in standing' \ falling'
               /\ \A m \in DOMAIN queue' : queue'[m] = queue'[n] => m = n
    <3>1. PICK k \in DOMAIN queue : k = n + 1
      BY <1>3
    <3>2. queue[k] = queue'[n] /\ queue[k].op = "destroy" /\ k # 1
      BY <1>3, <2>5, <3>1
    <3>3. /\ queue[k].place \notin voxel /\ associated[queue[k].place] \in standing \ falling
          /\ \A m \in DOMAIN queue : queue[m] = queue[k] => m = k
      BY <3>2 DEF ContainersInv, ChestsStand
    <3>4. queue[k] \in Breakings
      BY <3>2, HaulRequests DEF ContainersInv
    <3>5. PICK q \in Place : q = queue[k].place
      BY <3>4 DEF Breakings
    <3>6. q # p
      <4> SUFFICES ASSUME q = p PROVE FALSE
        OBVIOUS
      <4>1. queue[k] = u
        BY <1>2, <1>3, <1>4, <3>2, <3>4, <3>5 DEF Breakings
      <4> QED
        BY <1>3, <3>2, <3>3, <4>1
    <3>7. associated'[q] \in standing' \ falling'
      BY <1>6, <2>1, <3>3, <3>5, <3>6
    <3>8. ASSUME NEW m \in DOMAIN queue', queue'[m] = queue'[n] PROVE m = n
      <4>1. queue[m + 1] = queue[k] /\ m + 1 \in DOMAIN queue
        BY <1>3, <3>2, <3>8
      <4>2. m + 1 = n + 1
        BY <3>1, <3>3, <4>1
      <4> QED
        BY <1>3, <4>2
    <3> QED
      BY <1>6, <3>2, <3>3, <3>5, <3>7, <3>8
  <2>6. \A q, r \in Place : associated'[q] = associated'[r] /\ associated'[q] # Ground => q = r
    BY <2>1, <2>2 DEF ContainersInv, ChestsStand
  <2> QED
    BY <2>2, <2>3, <2>4, <2>5, <2>6 DEF ChestsStand
<1>11. ASSUME NEW i \in Thing, i \notin misled' PROVE Found(i)' /\ ListedOnce(i)'
  <2>1. i \notin misled
    BY <1>6, <1>11
  <2>2. Found(i) /\ ListedOnce(i)
    BY <2>1 DEF ContainersInv, ThingsInPlace
  <2>3. InBoxes(i)' = InBoxes(i) \ {b} /\ ListedOnce(i)'
    BY <1>6, <2>2 DEF InBoxes, Contents, ListedOnce
  <2>4. i \in Contents(b) <=> b \in InBoxes(i)
    BY <1>5 DEF InBoxes
  <2>5. CASE b \in InBoxes(i)
    <3>1. Boxed(i) /\ kept_in[i] = b
      BY <2>2, <2>5 DEF Found, OutThere, Boxed
    <3>2. OutThere(i)'
      BY <1>6, <2>3, <2>4, <2>5, <3>1 DEF OutThere, Boxed
    <3> QED
      BY <2>3, <3>2 DEF Found
  <2>6. CASE b \notin InBoxes(i)
    <3>1. Untouched(u, i)
      BY <1>2, <1>6, <2>3, <2>4, <2>6 DEF Untouched
    <3> QED
      BY <1>2, <2>1, <2>3, <3>1, FoundStays
  <2> QED
    BY <2>5, <2>6
<1>12. ThingsInPlace'
  BY <1>11 DEF ThingsInPlace
<1>13. Respects(u)
  BY <1>2, <1>6 DEF Respects, Has
<1> QED
  BY <1>2, <1>8, <1>9, <1>10, <1>12, <1>13, RestAsked DEF ContainersInv

-----------------------------------------------------------------------------
LEMMA ContainersInitHolds ==
    ASSUME ContainersInit
    PROVE  ContainersInv
<1>1. /\ Nobody \notin Nat /\ Nobody \notin Hauler /\ \A h \in Hauler : h \notin Nat
      /\ First \in Place /\ Stored \subseteq Thing
  BY ContainersAssumption
<1>2. PICK c : c = Container(Stored)
  OBVIOUS
<1>3. /\ c \in Boxes /\ c.volume <= BoxLimit /\ c.volume = VolumeOf(c.contents)
      /\ \A i \in Thing : c.contents[i] = IF i \in Stored THEN 1 ELSE 0
  <2>1. PICK f : f = [i \in Thing |-> IF i \in Stored THEN Size[i] ELSE 0]
    OBVIOUS
  <2>2. PICK within : within = [i \in Thing |-> IF i \in Stored THEN 1 ELSE 0]
    OBVIOUS
  <2>3. f \in [Thing -> Int] /\ within \in [Thing -> Nat]
    BY <2>1, <2>2, ContainersAssumption
  <2>4. f = [i \in Thing |-> Size[i] * within[i]]
    BY <2>1, <2>2, ContainersAssumption
  <2>5. SumFunction(f) \in Int
    BY <2>3, SumType, ContainersAssumption
  <2>6. c = [contents |-> within, volume |-> SumFunction(f)]
    BY <1>2, <2>1, <2>2 DEF Container
  <2>7. SumFunction(f) <= BoxLimit
    BY <2>1, ContainersAssumption
  <2>8. VolumeOf(within) = SumFunction(f)
    BY <2>4 DEF VolumeOf
  <2> QED
    BY <2>2, <2>3, <2>5, <2>6, <2>7, <2>8 DEF Boxes
<1>4. boxes = <<c>> /\ DOMAIN boxes = {1} /\ boxes[1] = c /\ standing = {1} /\ falling = {} /\ boxes \in Seq(Boxes)
  BY <1>2, <1>3 DEF ContainersInit
<1>5. Moments /\ WorkTypes /\ TalkTypes /\ AllAsked /\ ToldOf /\ MailOf /\ Carried
  BY DEF ContainersInit, Moments, WorkTypes, TalkTypes, AllAsked, ToldOf, MailOf, MailRight, Carried, CarriesIt,
         Unemployed, Stations, Elements
<1>6. ThingTypes
  BY <1>1 DEF ContainersInit, ThingTypes
<1>7. ChestTypes /\ ChestsStand
  BY <1>1, <1>4 DEF ContainersInit, ChestTypes, ChestsStand, Ground
<1>8. BoxesFit
  BY <1>3, <1>4 DEF BoxesFit, VolumeOf
<1>9. ASSUME NEW i \in Thing PROVE Found(i) /\ ListedOnce(i)
  <2>1. InBoxes(i) = IF i \in Stored THEN {1} ELSE {}
    BY <1>3, <1>4 DEF InBoxes, Contents
  <2>2. ListedOnce(i)
    BY <1>3, <1>4 DEF ListedOnce
  <2> QED
    BY <2>1, <2>2 DEF Found, OutThere, Boxed, ContainersInit
<1> QED
  BY <1>5, <1>6, <1>7, <1>8, <1>9 DEF ContainersInv, ThingsInPlace

\* Things, containers and requests keep fitting each other (ContainersInv).
THEOREM ContainersInvariant == ContainersSpec => []ContainersInv
<1>1. ContainersInit => ContainersInv
  BY ContainersInitHolds
<1>2. ASSUME ContainersInv, ContainersNext PROVE ContainersInv'
  BY <1>2, ChangeKeeps, TickKeeps, EditKeeps, SubmitKeeps, DecideJobKeeps, GoHaulKeeps, DeliverMailKeeps,
     DestroyKeeps, RemovalKeeps, PickupKeeps, StopKeeps, DropKeeps, PutKeeps, DeleteKeeps
  DEF ContainersNext, PlayerCommands, Execute
<1>3. ASSUME ContainersInv, UNCHANGED cvars PROVE ContainersInv'
  <2>1. /\ UNCHANGED <<moment, visits, voxel, edits, associated, boxes, standing, falling>>
        /\ UNCHANGED <<kept_in, hauled_by, lying, misled, haul_jobs, open, work, queue, told, mail>>
    BY <1>3 DEF cvars, places, store, things, tasks, letters
  <2>2. Moments' /\ ChestTypes' /\ ThingTypes' /\ WorkTypes' /\ TalkTypes' /\ ChestsStand' /\ BoxesFit'
    BY <1>3, <2>1 DEF ContainersInv, Moments, ChestTypes, ThingTypes, WorkTypes, TalkTypes, ChestsStand, BoxesFit
  <2>3. \A h \in Hauler : Job(h)' = Job(h)
    BY <2>1 DEF Job
  <2>4. \A i \in Thing : InBoxes(i)' = InBoxes(i) /\ ListedOnce(i)' = ListedOnce(i)
    BY <2>1 DEF InBoxes, Contents, ListedOnce
  <2>5. ThingsInPlace'
    <3>1. \A h \in Hauler, i \in Thing : Fetches(h, i)' = Fetches(h, i) /\ HoldsIt(h, i)' = HoldsIt(h, i)
      BY <2>1, <2>3, WorkStays
    <3>2. \A h \in Hauler, i \in Thing : WillStop(h, i)' = WillStop(h, i)
      BY <2>1 DEF WillStop
    <3>3. \A i \in Thing : WillDrop(i)' = WillDrop(i)
      BY <2>1 DEF WillDrop
    <3> QED
      BY <1>3, <2>1, <2>4, <3>1, <3>2, <3>3, InPlaceStays DEF ContainersInv
  <2>6. ASSUME NEW n \in DOMAIN queue, queue[n].op # "destroy" PROVE Asked(n)'
    <3>1. PICK u \in Requests : u = queue[n]
      BY <1>3, <2>6, HaulRequests DEF ContainersInv
    <3>2. PICK h \in Hauler : h = u.who
      BY DEF Requests
    <3>3. Asked(n) /\ queue'[n] = u
      BY <1>3, <2>1, <2>6, <3>1 DEF ContainersInv, AllAsked
    <3>4. OutThere(u.thing)' = OutThere(u.thing)
      BY <2>1 DEF OutThere, InBoxes, Contents
    <3>5. u.op = "remove" => AskedToRemove(u)'
      BY <2>1, <2>3, <3>1, <3>2, <3>3 DEF Asked, AskedToRemove, Visited
    <3>6. u.op = "pickup" => AskedToPickUp(u, n)'
      BY <2>1, <2>3, <3>1, <3>2, <3>3 DEF Asked, AskedToPickUp, OwnHaul
    <3>7. u.op \in {"abort", "drop"} => MayAbort(h)'
      BY <2>1, <3>1, <3>2, <3>3 DEF Asked, MayAbort, Visited
    <3>8. u.op = "stop" => AskedToStop(u, n)'
      BY <2>1, <3>1, <3>2, <3>3 DEF Asked, AskedToStop, Visited, Has
    <3>9. u.op = "put" => AskedToPut(u, n)'
      BY <2>1, <3>1, <3>2, <3>3, <3>4 DEF Asked, AskedToPut, Visited
    <3> QED
      BY <3>2, <3>3, <3>5, <3>6, <3>7, <3>8, <3>9 DEF Asked
  <2>7. AllAsked'
    BY <2>1, <2>6 DEF AllAsked
  <2>8. ToldOf' /\ MailOf' /\ Carried'
    BY <1>3, <2>1, <2>3, TalkStays DEF ContainersInv
  <2> QED
    BY <2>2, <2>5, <2>7, <2>8 DEF ContainersInv
<1> QED
  BY <1>1, <1>2, <1>3, PTL DEF ContainersSpec

\* ContainersAreKept: nothing that no update was wrong about is lost or in two places,
\* whatever is asked of a container that is already gone.
THEOREM ContainersKept == ContainersSpec => []ContainersAreKept
<1>1. ASSUME ContainersInv PROVE ContainersAreKept
  <2>1. \A i \in Thing \ misled :
          \/ /\ i \in lying /\ kept_in[i] = Nobody /\ hauled_by[i] = Nobody /\ InBoxes(i) = {}
          \/ /\ i \notin lying /\ hauled_by[i] = Nobody /\ InBoxes(i) = {kept_in[i]}
          \/ InBoxes(i) = {} /\ InTransit(i)
          \/ InBoxes(i) = {} /\ InHands(i)
    BY <1>1 DEF ContainersInv, ThingsInPlace, Found, OutThere, Boxed
  <2>2. \A b \in standing :
          /\ boxes[b].volume = SumFunction([i \in Thing |-> Size[i] * boxes[b].contents[i]])
          /\ boxes[b].volume <= BoxLimit
    BY <1>1 DEF ContainersInv, BoxesFit
  <2>3. ASSUME NEW p \in Place
        PROVE  IF p \in voxel THEN associated[p] \in standing
               ELSE associated[p] = Ground \/ \E n \in DOMAIN queue : queue[n].place = p
    BY <1>1 DEF ContainersInv, ChestsStand
  <2> QED
    BY <2>1, <2>2, <2>3 DEF ContainersAreKept
<1> QED
  BY <1>1, ContainersInvariant, PTL

-----------------------------------------------------------------------------
(* Stacks *)

\* F has the sums of f over parts of S.
PartsOf(F, f, S) == F[{}] = 0 /\ \A s \in SUBSET S : Apart(f, F, s)

\* A sum over part of what a function is of is that of the part.
LEMMA SumRestricted ==
    ASSUME NEW S, IsFiniteSet(S), NEW f \in [S -> Int], NEW T \in SUBSET S,
           NEW F, PartsOf(F, f, S),
           NEW g \in [T -> Int], \A x \in T : g[x] = f[x]
    PROVE  SumFunction(g) = F[T]
<1>0. F[{}] = 0 /\ \A s \in SUBSET S : Apart(f, F, s)
  BY DEF PartsOf
<1>1. IsFiniteSet(T)
  BY FS_Subset
<1>2. PICK G \in [SUBSET T -> Int] : /\ SumFunction(g) = G[T] /\ G[{}] = 0
                                     /\ \A s \in SUBSET T : Apart(g, G, s)
  BY <1>1, SumParts
<1>3. ASSUME NEW s \in SUBSET T PROVE Apart(g, F, s)
  <2>1. Apart(f, F, s)
    BY <1>0
  <2> QED
    BY <2>1 DEF Apart
<1>4. F[T] = G[T]
  BY <1>0, <1>1, <1>2, <1>3, SumsAgree
<1> QED
  BY <1>2, <1>4

\* A common factor may be taken out of a sum.
LEMMA SumScaled ==
    ASSUME NEW S, IsFiniteSet(S), NEW f \in [S -> Int], NEW c \in Int
    PROVE  SumFunction([x \in S |-> f[x] * c]) = c * SumFunction(f)
<1> DEFINE g == [x \in S |-> f[x] * c]
<1>1. g \in [S -> Int]
  OBVIOUS
<1>2. PICK F \in [SUBSET S -> Int] : /\ SumFunction(f) = F[S] /\ F[{}] = 0
                                     /\ \A s \in SUBSET S : Apart(f, F, s)
  BY SumParts
<1>3. PICK G \in [SUBSET S -> Int] : /\ SumFunction(g) = G[S] /\ G[{}] = 0
                                     /\ \A s \in SUBSET S : Apart(g, G, s)
  BY <1>1, SumParts
<1> DEFINE H == [s \in SUBSET S |-> c * F[s]]
<1>4. ASSUME NEW s \in SUBSET S PROVE Apart(g, H, s)
  <2>1. ASSUME NEW y \in s PROVE H[s] = g[y] + H[s \ {y}]
    <3>1. F[s] = f[y] + F[s \ {y}] /\ F[s \ {y}] \in Int /\ f[y] \in Int
      BY <1>2 DEF Apart
    <3>2. \A m, n \in Int : c * (m + n) = m * c + c * n
      OBVIOUS
    <3>3. c * F[s] = f[y] * c + c * F[s \ {y}]
      BY <3>1, <3>2
    <3> QED
      BY <3>3
  <2>2. H[s] \in Int
    OBVIOUS
  <2> QED
    BY <2>1, <2>2 DEF Apart
<1>5. H[{}] = 0
  BY <1>2
<1> HIDE DEF g, H
<1>6. H[S] = G[S]
  BY <1>1, <1>3, <1>4, <1>5, SumsAgree
<1> QED
  BY <1>2, <1>3, <1>6 DEF g, H

-----------------------------------------------------------------------------
(* Stacks *)

Entries == [entity : Entity, count : Nat \ {0}]
Heaps == [contents : Seq(Entries), total : Nat]

StackTypes ==
    /\ stack \in [Entity -> Heaps] /\ loose \subseteq Piece
    /\ stack_of \in [Entity -> Entity \cup {NoStack}]
    /\ volume \in [Entity -> Int] /\ original \in [Entity -> Piece \cup {NoStack}]

\* What is no stack is empty, what is yet to be created is nowhere, and items are no stacks.
OnlyStacks ==
    /\ \A e \in Entity : stack[e].total = 0 => stack[e] = NotAStack
    /\ \A e \in Entity : original[e] = NoStack => stack_of[e] = NoStack /\ stack[e].total = 0
    /\ \A i \in Piece : stack[i].total = 0 /\ original[i] # NoStack
    /\ \A i \in loose : volume[i] = UnitVolume

\* What is in a stack is there once, knows where it is and has the volume of one.
InStack(s, e) == /\ stack_of[e] = s /\ e \notin loose
                /\ stack[e].total = 0 /\ volume[e] = UnitVolume
Membered(s) ==
    LET cs == stack[s].contents IN
    /\ \A k \in DOMAIN cs : InStack(s, cs[k].entity)
    /\ \A j, k \in DOMAIN cs : cs[j].entity = cs[k].entity => j = k
\* The counts make up the total, and the total the volume.
Counted(s) ==
    /\ stack[s].total = Before(stack[s].contents, Len(stack[s].contents))
    /\ stack[s].total <= MaxCount
    /\ stack[s].total > 0 => volume[s] = UnitVolume * stack[s].total
NothingMissing == Cardinality(Piece) = Cardinality(loose) + SumFunction([s \in Entity |-> stack[s].total])

StacksInv ==
    /\ StackTypes /\ OnlyStacks
    /\ \A s \in Entity : Membered(s) /\ Counted(s)
    /\ NothingMissing

-----------------------------------------------------------------------------
(* Counting *)

LEMMA CountParts ==
    ASSUME NEW cs \in Seq(Entries), NEW n \in 0 .. Len(cs)
    PROVE  /\ IsFiniteSet(1 .. n)
           /\ [j \in 1 .. n |-> cs[j].count] \in [1 .. n -> Int]
<1>1. n \in Int /\ Len(cs) \in Nat
  OBVIOUS
<1>2. IsFiniteSet(1 .. n)
  BY <1>1, FS_Interval
<1>3. ASSUME NEW j \in 1 .. n PROVE cs[j].count \in Int
  <2>1. cs[j] \in Entries
    BY <1>1
  <2> QED
    BY <2>1 DEF Entries
<1> QED
  BY <1>2, <1>3

LEMMA BeforeNext ==
    ASSUME NEW cs \in Seq(Entries)
    PROVE  /\ Before(cs, 0) = 0
           /\ \A k \in 0 .. Len(cs) : Before(cs, k) \in Int
           /\ \A k \in 0 .. Len(cs) - 1 : Before(cs, k + 1) = Before(cs, k) + cs[k + 1].count
<1>1. Before(cs, 0) = 0
  <2>1. PICK f : f = [j \in 1 .. 0 |-> cs[j].count]
    OBVIOUS
  <2>2. f \in [1 .. 0 -> Int] /\ IsFiniteSet(1 .. 0)
    BY <2>1, CountParts
  <2>2a. \A x \in 1 .. 0 : f[x] = 0
    OBVIOUS
  <2>3. SumFunction(f) = 0
    BY <2>2, <2>2a, SumOfZeros
  <2> QED
    BY <2>1, <2>3 DEF Before
<1>2. ASSUME NEW k \in 0 .. Len(cs) PROVE Before(cs, k) \in Int
  BY CountParts, SumType DEF Before
<1>3. ASSUME NEW k \in 0 .. Len(cs) - 1 PROVE Before(cs, k + 1) = Before(cs, k) + cs[k + 1].count
  <2>1. PICK f : f = [j \in 1 .. k + 1 |-> cs[j].count]
    OBVIOUS
  <2>2. f \in [1 .. k + 1 -> Int] /\ IsFiniteSet(1 .. k + 1)
    BY <2>1, CountParts
  <2>3. PICK F \in [SUBSET (1 .. k + 1) -> Int] :
           /\ SumFunction(f) = F[1 .. k + 1] /\ F[{}] = 0
           /\ \A s \in SUBSET (1 .. k + 1) : Apart(f, F, s)
    BY <2>2, SumParts
  <2>4. (1 .. k + 1) \ {k + 1} = 1 .. k /\ k + 1 \in 1 .. k + 1 /\ 1 .. k \in SUBSET (1 .. k + 1)
    OBVIOUS
  <2>5. F[1 .. k + 1] = f[k + 1] + F[1 .. k]
    <3>1. Apart(f, F, 1 .. k + 1)
      BY <2>3
    <3>2. F[1 .. k + 1] = f[k + 1] + F[(1 .. k + 1) \ {k + 1}]
      BY <2>4, <3>1 DEF Apart
    <3> QED
      BY <2>4, <3>2
  <2>6. PICK g : g = [j \in 1 .. k |-> cs[j].count]
    OBVIOUS
  <2>6a. g \in [1 .. k -> Int] /\ \A x \in 1 .. k : g[x] = f[x]
    BY <2>1, <2>2, <2>4, <2>6
  <2>7. SumFunction(g) = F[1 .. k]
    <3>1. PICK S, T : S = 1 .. k + 1 /\ T = 1 .. k
      OBVIOUS
    <3>2. /\ IsFiniteSet(S) /\ f \in [S -> Int] /\ T \in SUBSET S /\ PartsOf(F, f, S)
          /\ g \in [T -> Int] /\ \A x \in T : g[x] = f[x]
      BY <2>2, <2>3, <2>4, <2>6a, <3>1 DEF PartsOf
    <3>3. SumFunction(g) = F[T]
      BY <3>2, SumRestricted
    <3> QED
      BY <3>1, <3>3
  <2>8. Before(cs, k) = F[1 .. k] /\ Before(cs, k + 1) = F[1 .. k + 1]
    BY <2>1, <2>3, <2>6, <2>7 DEF Before
  <2>9. f[k + 1] = cs[k + 1].count /\ f[k + 1] \in Int /\ F[1 .. k] \in Int
    BY <2>1, <2>2, <2>4
  <2> QED
    BY <2>5, <2>8, <2>9
<1> QED
  BY <1>1, <1>2, <1>3

SameStretch(cs, ds, i, j, n) ==
    /\ i + n <= Len(cs) /\ j + n <= Len(ds)
    /\ \A m \in 1 .. n : cs[i + m].count = ds[j + m].count

\* As much is counted along two stretches whose counts are the same.
LEMMA StretchesAgree ==
    ASSUME NEW cs \in Seq(Entries), NEW ds \in Seq(Entries), NEW i \in Nat, NEW j \in Nat, NEW n \in Nat,
           SameStretch(cs, ds, i, j, n)
    PROVE  Before(cs, i + n) - Before(cs, i) = Before(ds, j + n) - Before(ds, j)
<1> DEFINE N == {m \in Nat : m <= n =>
                    Before(cs, i + m) - Before(cs, i) = Before(ds, j + m) - Before(ds, j)}
<1>0. /\ Len(cs) \in Nat /\ Len(ds) \in Nat /\ i + n <= Len(cs) /\ j + n <= Len(ds)
      /\ \A m \in 1 .. n : cs[i + m].count = ds[j + m].count
  BY DEF SameStretch
<1>1. 0 \in N
  <2>1. Before(cs, i) \in Int /\ Before(ds, j) \in Int
    BY <1>0, BeforeNext
  <2> QED
    BY <2>1
<1>2. ASSUME NEW m \in Nat, m \in N PROVE m + 1 \in N
  <2>1. SUFFICES ASSUME m + 1 <= n
                 PROVE  Before(cs, i + (m + 1)) - Before(cs, i) = Before(ds, j + (m + 1)) - Before(ds, j)
    OBVIOUS
  <2>2. Before(cs, i + m) - Before(cs, i) = Before(ds, j + m) - Before(ds, j)
    BY <1>2, <2>1
  <2>3. i + m \in 0 .. Len(cs) - 1 /\ j + m \in 0 .. Len(ds) - 1
    BY <1>0, <2>1
  <2>4. /\ Before(cs, (i + m) + 1) = Before(cs, i + m) + cs[(i + m) + 1].count
        /\ Before(ds, (j + m) + 1) = Before(ds, j + m) + ds[(j + m) + 1].count
    BY <2>3, BeforeNext
  <2>5. cs[i + (m + 1)].count = ds[j + (m + 1)].count
    <3>1. m + 1 \in 1 .. n
      BY <2>1
    <3> QED
      BY <1>0, <3>1
  <2>6. (i + m) + 1 = i + (m + 1) /\ (j + m) + 1 = j + (m + 1)
    OBVIOUS
  <2>7. Before(cs, i) \in Int /\ Before(ds, j) \in Int /\ Before(cs, i + m) \in Int /\ Before(ds, j + m) \in Int
    BY <1>0, <2>3, BeforeNext
  <2>8. cs[i + (m + 1)] \in Entries /\ ds[j + (m + 1)] \in Entries
    BY <1>0, <2>3, <2>6
  <2>9. ASSUME NEW x \in Entries PROVE x.count \in Int
    BY DEF Entries
  <2>10. cs[i + (m + 1)].count \in Int /\ ds[j + (m + 1)].count \in Int
    BY <2>8, <2>9
  <2>12. /\ Before(cs, i + (m + 1)) = Before(cs, i + m) + cs[i + (m + 1)].count
         /\ Before(ds, j + (m + 1)) = Before(ds, j + m) + cs[i + (m + 1)].count
    BY <2>4, <2>5, <2>6
  <2> QED
    <3>1. PICK p \in Int, q \in Int, r \in Int, t \in Int, x \in Int :
             /\ p = Before(cs, i + m) /\ q = Before(cs, i)
             /\ r = Before(ds, j + m) /\ t = Before(ds, j) /\ x = cs[i + (m + 1)].count
      BY <2>7, <2>10, Zenon
    <3>2. p - q = r - t
      BY <2>2, <3>1, Zenon
    <3>3. (p + x) - q = (r + x) - t
      BY <3>2
    <3>4. /\ Before(cs, i + (m + 1)) = p + x /\ Before(cs, i) = q
          /\ Before(ds, j + (m + 1)) = r + x /\ Before(ds, j) = t
      BY <2>12, <3>1, Zenon
    <3> QED
      BY <3>3, <3>4, Zenon
<1> HIDE DEF N
<1>3. Nat \subseteq N
  BY <1>1, <1>2, NatSetInduction
<1> QED
  BY <1>3 DEF N

\* Counts are of the part before: what comes after does not matter.
LEMMA StartsAgree ==
    ASSUME NEW cs \in Seq(Entries), NEW ds \in Seq(Entries), NEW n \in Nat,
           n <= Len(cs), n <= Len(ds), \A m \in 1 .. n : cs[m].count = ds[m].count
    PROVE  Before(cs, n) = Before(ds, n)
<1>1. \A m \in 1 .. n : cs[0 + m].count = ds[0 + m].count
  OBVIOUS
<1>2. Before(cs, 0 + n) - Before(cs, 0) = Before(ds, 0 + n) - Before(ds, 0)
  <2>1. 0 \in Nat /\ SameStretch(cs, ds, 0, 0, n)
    BY <1>1 DEF SameStretch
  <2> QED
    BY <2>1, StretchesAgree
<1>3. /\ Before(cs, 0) = 0 /\ Before(ds, 0) = 0 /\ 0 + n = n
      /\ Before(cs, n) \in Int /\ Before(ds, n) \in Int
  BY BeforeNext
<1> QED
  BY <1>2, <1>3

LEMMA CountsInt ==
    ASSUME NEW x \in Entries
    PROVE  x.entity \in Entity /\ x.count \in Nat \ {0} /\ x.count \in Int
BY DEF Entries

LEMMA AppendCounts ==
    ASSUME NEW cs \in Seq(Entries), NEW x \in Entries
    PROVE  /\ Append(cs, x) \in Seq(Entries) /\ Len(Append(cs, x)) = Len(cs) + 1
           /\ Before(Append(cs, x), Len(cs) + 1) = Before(cs, Len(cs)) + x.count
<1>1. PICK ds : ds = Append(cs, x)
  OBVIOUS
<1>2. /\ ds \in Seq(Entries) /\ Len(ds) = Len(cs) + 1 /\ Len(cs) \in Nat
      /\ \A m \in 1 .. Len(cs) : ds[m] = cs[m] /\ ds[Len(cs) + 1] = x
  BY <1>1
<1>2a. ds[Len(cs) + 1] = x
  BY <1>1
<1>3. Before(cs, Len(cs)) = Before(ds, Len(cs))
  <2>1. \A m \in 1 .. Len(cs) : cs[m].count = ds[m].count
    BY <1>2
  <2> QED
    BY <1>2, <2>1, StartsAgree
<1>4. Before(ds, Len(cs) + 1) = Before(ds, Len(cs)) + ds[Len(cs) + 1].count
  BY <1>2, BeforeNext
<1> QED
  BY <1>1, <1>2, <1>2a, <1>3, <1>4

OneMore(cs, k) == [cs EXCEPT ![k].count = @ + 1]

\* One more at one place is one more in all.
LEMMA OneMoreCounts ==
    ASSUME NEW cs \in Seq(Entries), NEW k \in 1 .. Len(cs), NEW ds,
           ds = OneMore(cs, k)
    PROVE  /\ ds \in Seq(Entries) /\ Len(ds) = Len(cs)
           /\ \A m \in 1 .. Len(cs) : ds[m].entity = cs[m].entity
           /\ Before(ds, Len(ds)) = Before(cs, Len(cs)) + 1
<1>1. \A m \in 1 .. Len(cs) : cs[m] \in Entries /\ cs[m].entity \in Entity /\ cs[m].count \in Nat \ {0}
  BY CountsInt
<1>2. /\ Len(ds) = Len(cs) /\ Len(cs) \in Nat /\ DOMAIN ds = 1 .. Len(cs)
      /\ \A m \in 1 .. Len(cs) : ds[m] = IF m = k THEN [cs[m] EXCEPT !.count = @ + 1] ELSE cs[m]
  BY DEF OneMore
<1>3. ASSUME NEW m \in 1 .. Len(cs)
      PROVE  /\ ds[m] \in Entries /\ ds[m].entity = cs[m].entity
             /\ ds[m].count = IF m = k THEN cs[m].count + 1 ELSE cs[m].count
  BY <1>1, <1>2 DEF Entries
<1>4. ds \in Seq(Entries)
  BY <1>2, <1>3 DEF OneMore
<1>5. PICK f, g : f = [j \in 1 .. Len(cs) |-> cs[j].count] /\ g = [j \in 1 .. Len(cs) |-> ds[j].count]
  OBVIOUS
<1>6. IsFiniteSet(1 .. Len(cs)) /\ f \in [1 .. Len(cs) -> Int] /\ g \in [1 .. Len(cs) -> Int]
  BY <1>2, <1>4, <1>5, CountParts
<1>7. \A x \in 1 .. Len(cs) : x # k => f[x] = g[x]
  BY <1>3, <1>5
<1>8. SumFunction(f) \in Int /\ SumFunction(g) = (SumFunction(f) - f[k]) + g[k]
  <2>1. PICK S, y : S = 1 .. Len(cs) /\ y = k
    OBVIOUS
  <2>2. /\ IsFiniteSet(S) /\ f \in [S -> Int] /\ g \in [S -> Int] /\ y \in S
        /\ \A x \in S : x # y => f[x] = g[x]
    BY <1>6, <1>7, <2>1
  <2>3. SumFunction(f) \in Int /\ SumFunction(g) = (SumFunction(f) - f[y]) + g[y]
    BY <2>2, SumChanges
  <2> QED
    BY <2>1, <2>3
<1>9. f[k] \in Int /\ g[k] = f[k] + 1
  BY <1>1, <1>3, <1>5
<1>10. Before(ds, Len(ds)) = SumFunction(g) /\ Before(cs, Len(cs)) = SumFunction(f)
  BY <1>2, <1>5 DEF Before
<1>11. SumFunction(g) = SumFunction(f) + 1
  BY <1>8, <1>9
<1> QED
  BY <1>2, <1>3, <1>4, <1>10, <1>11

LEMMA CollapseRange ==
    ASSUME NEW cs \in Seq(Entries), NEW e
    PROVE  CollapseInto(cs, e) \in 0 .. Len(cs)
<1> DEFINE Test(x) == CanCopy(x.entity) /\ <<original[e], original[x.entity]>> \in Identical
           I == {k \in 1 .. Len(cs) : Test(cs[k])}
<1>1. CollapseInto(cs, e) = IF ~CanCopy(e) \/ I = {} THEN 0 ELSE Min(I)
  BY Zenon DEF CollapseInto, SelectInSeq
<1>2. I \in SUBSET Nat /\ I \subseteq 1 .. Len(cs) /\ Len(cs) \in Nat
  OBVIOUS
<1> HIDE DEF I
<1>3. I # {} => Min(I) \in I
  BY <1>2, LeastNat DEF Min
<1>4. CASE ~CanCopy(e) \/ I = {}
  BY <1>1, <1>2, <1>4
<1>5. CASE CanCopy(e) /\ I # {}
  <2>1. CollapseInto(cs, e) = Min(I)
    BY <1>1, <1>5
  <2>2. Min(I) \in 1 .. Len(cs)
    BY <1>2, <1>3, <1>5
  <2> QED
    BY <1>2, <2>1, <2>2
<1> QED
  BY <1>4, <1>5

\* What add_internal makes of a stack.
LEMMA Adding ==
    ASSUME NEW st \in Heaps, st.total = Before(st.contents, Len(st.contents)), NEW i \in Entity,
           NEW new, new = AddInternal(st, i)
    PROVE  /\ new \in Heaps /\ new.total = st.total + 1
           /\ new.total = Before(new.contents, Len(new.contents))
           /\ IF CollapseInto(st.contents, i) = 0 THEN new.contents = Append(st.contents, Entry(i, 1))
              ELSE /\ Len(new.contents) = Len(st.contents)
                   /\ \A m \in 1 .. Len(st.contents) : new.contents[m].entity = st.contents[m].entity
<1>1. PICK cs : cs = st.contents
  OBVIOUS
<1>2. PICK k : k = CollapseInto(cs, i)
  OBVIOUS
<1>3. cs \in Seq(Entries) /\ st.total \in Nat /\ Len(cs) \in Nat
  BY <1>1 DEF Heaps
<1>4. k \in 0 .. Len(cs)
  BY <1>2, <1>3, CollapseRange
<1>5. PICK ds : ds = IF k = 0 THEN Append(cs, Entry(i, 1)) ELSE [cs EXCEPT ![k].count = @ + 1]
  OBVIOUS
<1>6. new = [contents |-> ds, total |-> st.total + 1]
  BY <1>1, <1>2, <1>5 DEF AddInternal
<1>7. CASE k = 0
  <2>1. Entry(i, 1) \in Entries /\ Entry(i, 1).count = 1
    BY DEF Entry, Entries
  <2>2. ds = Append(cs, Entry(i, 1))
    BY <1>5, <1>7
  <2>3. /\ ds \in Seq(Entries) /\ Len(ds) = Len(cs) + 1
        /\ Before(ds, Len(ds)) = Before(cs, Len(cs)) + 1
    BY <1>3, <2>1, <2>2, AppendCounts
  <2> QED
    BY <1>1, <1>2, <1>3, <1>6, <1>7, <2>2, <2>3 DEF Heaps
<1>8. CASE k # 0
  <2>1. k \in 1 .. Len(cs) /\ ds = OneMore(cs, k)
    BY <1>4, <1>5, <1>8 DEF OneMore
  <2>2. /\ ds \in Seq(Entries) /\ Len(ds) = Len(cs)
        /\ \A m \in 1 .. Len(cs) : ds[m].entity = cs[m].entity
        /\ Before(ds, Len(ds)) = Before(cs, Len(cs)) + 1
    BY <1>3, <2>1, OneMoreCounts
  <2> QED
    BY <1>1, <1>2, <1>3, <1>6, <1>8, <2>2 DEF Heaps
<1> QED
  BY <1>7, <1>8

-----------------------------------------------------------------------------
(* The operations *)

LEMMA StackKinds ==
    ASSUME StackTypes, NEW s \in Entity
    PROVE  /\ stack[s] \in Heaps /\ stack[s].contents \in Seq(Entries) /\ stack[s].total \in Nat
           /\ Len(stack[s].contents) \in Nat /\ DOMAIN stack[s].contents = 1 .. Len(stack[s].contents)
           /\ \A k \in DOMAIN stack[s].contents : /\ stack[s].contents[k] \in Entries
                                                 /\ stack[s].contents[k].entity \in Entity
<1>1. stack[s] \in Heaps
  BY DEF StackTypes
<1>2. stack[s].contents \in Seq(Entries) /\ stack[s].total \in Nat
  BY <1>1 DEF Heaps
<1>3. \A k \in DOMAIN stack[s].contents : stack[s].contents[k] \in Entries
  BY <1>2
<1> QED
  BY <1>1, <1>2, <1>3, CountsInt

LEMMA TotalsSum ==
    ASSUME NEW f \in [Entity -> Heaps], StacksAssumption
    PROVE  IsFiniteSet(Entity) /\ [s \in Entity |-> f[s].total] \in [Entity -> Int]
<1>1. IsFiniteSet(Entity)
  BY FS_Union DEF StacksAssumption, Entity
<1>2. \A s \in Entity : f[s].total \in Int
  BY DEF Heaps
<1> QED
  BY <1>1, <1>2

\* A loose item goes into s, which is new or a stack that is not full.
Grows(s, i) ==
    /\ stack' = [stack EXCEPT ![s] = AddInternal(stack[s], i)]
    /\ stack_of' = IF CollapseInto(stack[s].contents, i) = 0
                   THEN [stack_of EXCEPT ![i] = s] ELSE stack_of
    /\ volume' = [volume EXCEPT ![s] = UnitVolume * (stack[s].total + 1)]
    /\ loose' = loose \ {i}
    /\ original' \in [Entity -> Piece \cup {NoStack}]
    /\ \A e \in Entity : original'[e] = NoStack => original[e] = NoStack /\ e # s

LEMMA GrowsKeeps ==
    ASSUME StacksInv, StacksAssumption, NEW s \in Spare, NEW i \in loose,
           stack[s].total < MaxCount, \A r \in Entity : ~InStack(r, s), Grows(s, i)
    PROVE  StacksInv'
<1>0. /\ StackTypes /\ OnlyStacks /\ NothingMissing
      /\ \A r \in Entity : Membered(r) /\ Counted(r)
      /\ s \in Entity /\ i \in Entity /\ i \in Piece /\ s # i
  BY DEF StacksInv, StackTypes, StacksAssumption, Entity
<1> DEFINE old == stack[s]
           new == AddInternal(old, i)
           k == CollapseInto(old.contents, i)
<1>1. /\ new \in Heaps /\ new.total = old.total + 1
      /\ new.total = Before(new.contents, Len(new.contents))
      /\ IF k = 0 THEN new.contents = Append(old.contents, Entry(i, 1))
         ELSE /\ Len(new.contents) = Len(old.contents)
              /\ \A m \in 1 .. Len(old.contents) : new.contents[m].entity = old.contents[m].entity
  <2>1. old \in Heaps /\ old.total = Before(old.contents, Len(old.contents))
    BY <1>0, StackKinds DEF Counted
  <2> QED
    BY <1>0, <2>1, Adding
<1> HIDE DEF new
<1>2. /\ stack' = [stack EXCEPT ![s] = new] /\ stack'[s] = new
      /\ \A r \in Entity : r # s => stack'[r] = stack[r]
      /\ volume'[s] = UnitVolume * new.total /\ \A r \in Entity : r # s => volume'[r] = volume[r]
  BY <1>0, <1>1 DEF Grows, StackTypes, new
<1>3. StackTypes'
  <2>1. stack' \in [Entity -> Heaps]
    BY <1>0, <1>1, <1>2 DEF StackTypes
  <2>2. volume' \in [Entity -> Int]
    <3>1. UnitVolume * (old.total + 1) \in Int
      BY <1>0, StackKinds DEF StacksAssumption
    <3> QED
      BY <1>0, <3>1 DEF Grows, StackTypes
  <2>3. loose' \subseteq Piece /\ stack_of' \in [Entity -> Entity \cup {NoStack}]
    BY <1>0 DEF Grows, StackTypes
  <2> QED
    BY <2>1, <2>2, <2>3 DEF Grows, StackTypes
<1>4. OnlyStacks'
  <2>1. new.total > 0
    BY <1>0, <1>1, StackKinds
  <2>2. \A e \in Entity : stack'[e].total = 0 => stack'[e] = NotAStack
    BY <1>0, <1>2, <2>1 DEF OnlyStacks
  <2>3. ASSUME NEW e \in Entity, original'[e] = NoStack
        PROVE  stack_of'[e] = NoStack /\ stack'[e].total = 0
    <3>1. original[e] = NoStack /\ e # s
      BY <2>3 DEF Grows
    <3>2. e # i
      BY <1>0, <3>1 DEF OnlyStacks
    <3> QED
      BY <1>0, <1>2, <3>1, <3>2 DEF OnlyStacks, Grows, StackTypes
  <2>4. ASSUME NEW j \in Piece PROVE stack'[j].total = 0 /\ original'[j] # NoStack
    <3>1. j # s /\ j \in Entity
      BY DEF StacksAssumption, Entity
    <3> QED
      BY <1>0, <1>2, <3>1 DEF OnlyStacks, Grows
  <2>5. ASSUME NEW j \in loose' PROVE volume'[j] = UnitVolume
    <3>1. j \in loose /\ j # s /\ j \in Entity
      BY <1>0 DEF Grows, StackTypes, StacksAssumption, Entity
    <3> QED
      BY <1>0, <1>2, <3>1 DEF OnlyStacks
  <2> QED
    BY <2>2, <2>3, <2>4, <2>5 DEF OnlyStacks
\* Whatever was in a stack is in it still.
<1>5. ASSUME NEW r \in Entity, NEW e \in Entity, InStack(r, e) PROVE InStack(r, e)'
  <2>1. e # s /\ e # i
    BY <1>5 DEF InStack
  <2>2. stack_of'[e] = stack_of[e] /\ loose' = loose \ {i}
    BY <1>0, <2>1 DEF Grows, StackTypes
  <2> QED
    BY <1>2, <1>5, <2>1, <2>2 DEF InStack
<1>6. ASSUME NEW r \in Entity, r # s PROVE (Membered(r) /\ Counted(r))'
  <2>1. stack'[r] = stack[r] /\ volume'[r] = volume[r]
    BY <1>2, <1>6
  <2>2. PICK cs : cs = stack[r].contents
    OBVIOUS
  <2>2a. ASSUME NEW m \in DOMAIN cs PROVE InStack(r, cs[m].entity)'
    <3>1. cs[m].entity \in Entity /\ InStack(r, cs[m].entity)
      BY <1>0, <2>2, StackKinds DEF Membered
    <3> QED
      BY <1>5, <3>1
  <2>3. Membered(r)'
    BY <1>0, <2>1, <2>2, <2>2a DEF Membered
  <2>4. Counted(r)'
    BY <1>0, <2>1 DEF Counted, Before
  <2> QED
    BY <2>3, <2>4
<1>7. Counted(s)'
  <2>1. old.total < MaxCount /\ old.total \in Nat
    BY <1>0, StackKinds
  <2>2. new.total <= MaxCount
    BY <1>1, <2>1 DEF StacksAssumption
  <2>3. PICK c, d : c = new.contents /\ d = new.total
    OBVIOUS
  <2>4. stack'[s].contents = c /\ stack'[s].total = d /\ volume'[s] = UnitVolume * d
    BY <1>2, <2>3
  <2> QED
    BY <1>1, <2>2, <2>3, <2>4 DEF Counted
<1>8. Membered(s)'
  <2>0. PICK os : os = stack[s].contents
    OBVIOUS
  <2>1. /\ os \in Seq(Entries) /\ DOMAIN os = 1 .. Len(os)
        /\ Len(os) \in Nat
        /\ \A m \in 1 .. Len(os) : /\ InStack(s, os[m].entity)'
                                              /\ os[m].entity # i
    <3>1. os \in Seq(Entries) /\ DOMAIN os = 1 .. Len(os) /\ Len(os) \in Nat
      BY <1>0, <2>0, StackKinds
    <3>2. ASSUME NEW m \in 1 .. Len(os)
          PROVE  InStack(s, os[m].entity)' /\ os[m].entity # i
      <4>1. os[m].entity \in Entity /\ InStack(s, os[m].entity)
        BY <1>0, <2>0, <3>1, StackKinds DEF Membered
      <4>2. os[m].entity # i
        BY <4>1 DEF InStack
      <4>3. PICK e \in Entity : e = os[m].entity
        BY <4>1
      <4>4. InStack(s, e)'
        BY <1>0, <1>5, <4>1, <4>3
      <4> QED
        BY <4>2, <4>3, <4>4, Zenon
    <3> QED
      BY <3>1, <3>2
  <2>2. \A m, j \in 1 .. Len(os) : os[m].entity = os[j].entity => m = j
    BY <1>0, <2>0, <2>1 DEF Membered
  <2>3. CASE k = 0
    <3>1. InStack(s, i)'
      <4>1. stack_of' = [stack_of EXCEPT ![i] = s]
        BY <2>3 DEF Grows
      <4>2. stack_of'[i] = s /\ i \notin loose' /\ stack'[i] = stack[i] /\ volume'[i] = volume[i]
        BY <1>0, <1>2, <4>1 DEF Grows, StackTypes
      <4> QED
        BY <1>0, <4>2 DEF InStack, OnlyStacks
    <3>2. PICK ds : ds = new.contents
      OBVIOUS
    <3>3. ds = Append(os, Entry(i, 1)) /\ Entry(i, 1).entity = i
      BY <1>1, <2>0, <2>3, <3>2 DEF Entry
    <3>4. /\ DOMAIN ds = 1 .. Len(os) + 1
          /\ \A m \in 1 .. Len(os) : ds[m] = os[m]
          /\ ds[Len(os) + 1] = Entry(i, 1)
      BY <2>1, <3>3
    <3>5. \A m \in DOMAIN ds : InStack(s, ds[m].entity)'
      <4>1. SUFFICES ASSUME NEW m \in 1 .. Len(os) + 1 PROVE InStack(s, ds[m].entity)'
        BY <3>4
      <4>2. CASE m = Len(os) + 1
        <5>1. ds[m].entity = i
          BY <3>3, <3>4, <4>2
        <5> QED
          BY <3>1, <5>1
      <4>3. CASE m \in 1 .. Len(os)
        <5>1. ds[m].entity = os[m].entity
          BY <3>4, <4>3
        <5> QED
          BY <2>1, <4>3, <5>1
      <4> QED
        BY <2>1, <4>2, <4>3
    <3>6. \A m, j \in DOMAIN ds : ds[m].entity = ds[j].entity => m = j
      BY <2>1, <2>2, <3>3, <3>4
    <3> QED
      BY <1>2, <3>2, <3>5, <3>6 DEF Membered
  <2>4. CASE k # 0
    <3>1. PICK ds : ds = new.contents
      OBVIOUS
    <3>2. /\ ds \in Seq(Entries) /\ DOMAIN ds = 1 .. Len(os)
          /\ \A m \in 1 .. Len(os) : ds[m].entity = os[m].entity
      BY <1>1, <2>0, <2>1, <2>4, <3>1 DEF Heaps
    <3>3. ASSUME NEW m \in DOMAIN ds PROVE InStack(s, ds[m].entity)'
      <4>1. ds[m].entity = os[m].entity /\ m \in 1 .. Len(os)
        BY <3>2
      <4> QED
        BY <2>1, <4>1
    <3> QED
      BY <1>2, <2>2, <3>1, <3>2, <3>3 DEF Membered
  <2> QED
    BY <2>3, <2>4
<1>9. NothingMissing'
  <2>1. PICK f, g : f = [r \in Entity |-> stack[r].total] /\ g = [r \in Entity |-> stack'[r].total]
    OBVIOUS
  <2>2. IsFiniteSet(Entity) /\ f \in [Entity -> Int] /\ g \in [Entity -> Int]
    BY <1>0, <1>3, <2>1, TotalsSum DEF StackTypes
  <2>3. f[s] \in Int /\ g[s] = f[s] + 1 /\ \A r \in Entity : r # s => f[r] = g[r]
    BY <1>0, <1>1, <1>2, <2>1, <2>2
  <2>4. SumFunction(f) \in Int /\ SumFunction(g) = (SumFunction(f) - f[s]) + g[s]
    BY <1>0, <2>2, <2>3, SumChanges
  <2>5. SumFunction(g) = SumFunction(f) + 1
    BY <2>3, <2>4
  <2>6. IsFiniteSet(loose) /\ Cardinality(loose) \in Nat /\ Cardinality(loose') = Cardinality(loose) - 1
    <3>1. IsFiniteSet(loose)
      BY <1>0, FS_Subset DEF StackTypes, StacksAssumption
    <3> QED
      BY <3>1, FS_CardinalityType, FS_RemoveElement DEF Grows
  <2> QED
    BY <1>0, <2>1, <2>4, <2>5, <2>6 DEF NothingMissing
<1> QED
  BY <1>3, <1>4, <1>6, <1>7, <1>8, <1>9 DEF StacksInv

LEMMA ConvertKeeps ==
    ASSUME StacksInv, StacksAssumption, NEW i \in Piece, ConvertToStack(i)
    PROVE  StacksInv'
<1>0. StackTypes /\ OnlyStacks /\ i \in loose /\ i \in Entity /\ loose' = loose \ {i}
  BY DEF StacksInv, ConvertToStack, Entity
<1>1. PICK s \in Free :
         /\ stack' = [stack EXCEPT ![s] = AddInternal(NotAStack, i)]
         /\ stack_of' = [stack_of EXCEPT ![i] = s]
         /\ volume' = [volume EXCEPT ![s] = volume[i]]
         /\ original' = [original EXCEPT ![s] = original[i]]
  BY DEF ConvertToStack
<1>2. /\ s \in Spare /\ s \in Entity /\ original[s] = NoStack
      /\ stack_of[s] = NoStack /\ stack[s].total = 0 /\ stack[s] = NotAStack
  BY <1>0 DEF Free, Entity, OnlyStacks
<1>3. CollapseInto(stack[s].contents, i) = 0
  <2>1. stack[s].contents \in Seq(Entries) /\ Len(stack[s].contents) = 0
    BY <1>2 DEF NotAStack
  <2> QED
    BY <2>1, CollapseRange
<1>4. ASSUME NEW r \in Entity PROVE ~InStack(r, s)
  BY <1>2, StacksAssumption DEF InStack, StacksAssumption, Entity
<1>5. volume[i] = UnitVolume * (stack[s].total + 1)
  BY <1>0, <1>2 DEF OnlyStacks, StacksAssumption
<1>6. original' \in [Entity -> Piece \cup {NoStack}]
  BY <1>0, <1>1 DEF StackTypes
<1>7. ASSUME NEW e \in Entity, original'[e] = NoStack PROVE original[e] = NoStack /\ e # s
  BY <1>0, <1>1, <1>2, <1>7 DEF StackTypes, OnlyStacks
<1>8. Grows(s, i)
  BY <1>0, <1>1, <1>2, <1>3, <1>5, <1>6, <1>7, Zenon DEF Grows
<1>9. stack[s].total < MaxCount
  BY <1>2 DEF StacksAssumption
<1> QED
  BY <1>0, <1>2, <1>4, <1>8, <1>9, GrowsKeeps

LEMMA AddKeeps ==
    ASSUME StacksInv, StacksAssumption, NEW i \in Piece, NEW s \in Entity, AddToStack(s, i)
    PROVE  StacksInv'
<1>0. /\ StackTypes /\ OnlyStacks /\ Counted(s) /\ i \in loose /\ i \in Entity
      /\ s \in Stacked /\ stack[s].total < MaxCount /\ stack[s].total > 0
  BY DEF StacksInv, AddToStack, Entity, Stacked
<1>1. s \in Spare
  BY <1>0 DEF OnlyStacks, Entity
<1>2. ASSUME NEW r \in Entity PROVE ~InStack(r, s)
  BY <1>0 DEF InStack
<1>3. volume[s] + volume[i] = UnitVolume * (stack[s].total + 1)
  <2>1. volume[s] = UnitVolume * stack[s].total /\ volume[i] = UnitVolume
    BY <1>0 DEF Counted, OnlyStacks
  <2>2. stack[s].total \in Nat /\ UnitVolume \in Nat
    BY <1>0, StackKinds DEF StacksAssumption
  <2>3. PICK n \in Nat, u \in Nat : n = stack[s].total /\ u = UnitVolume
    BY <2>2
  <2>4. u * n + u = u * (n + 1)
    OBVIOUS
  <2> QED
    BY <2>1, <2>3, <2>4
<1>4. ASSUME NEW e \in Entity, original'[e] = NoStack PROVE original[e] = NoStack /\ e # s
  BY <1>0, <1>4 DEF AddToStack, OnlyStacks
<1>5. volume' = [volume EXCEPT ![s] = UnitVolume * (stack[s].total + 1)]
  BY <1>3 DEF AddToStack
<1>6. stack' = [stack EXCEPT ![s] = AddInternal(stack[s], i)]
  BY DEF AddToStack
<1>7. original' \in [Entity -> Piece \cup {NoStack}]
  BY <1>0 DEF AddToStack, StackTypes
<1>8. Grows(s, i)
  BY <1>4, <1>5, <1>6, <1>7, Zenon DEF Grows, AddToStack
<1> QED
  BY <1>0, <1>1, <1>2, <1>8, GrowsKeeps

-----------------------------------------------------------------------------
(* Splitting *)

\* Whole entities are moved while they fit, and of the next less than it counts is taken.
LEMMA MovesSome ==
    ASSUME NEW cs \in Seq(Entries), NEW n \in Nat, n < Before(cs, Len(cs))
    PROVE  LET k == MoveCount(cs, n) IN
           /\ k \in 0 .. Len(cs) - 1 /\ Before(cs, k) \in Int
           /\ Before(cs, k) <= n /\ n < Before(cs, k) + cs[k + 1].count
<1> DEFINE I == {j \in 0 .. Len(cs) : Before(cs, j) <= n}
           D == {m \in Nat : \E j \in I : m = Len(cs) - j}
<1>1. Len(cs) \in Nat /\ MoveCount(cs, n) = Max(I)
  BY DEF MoveCount
<1>2. 0 \in I
  BY <1>1, BeforeNext
<1>3. Len(cs) \in D
  BY <1>1, <1>2
<1>4. PICK m \in D : \A o \in D : m <= o
  BY <1>3, LeastNat
<1>5. PICK j \in I : m = Len(cs) - j
  BY <1>4
<1>6. \A i \in I : Len(cs) - i \in D /\ i \in Int
  BY <1>1
<1>7. ASSUME NEW i \in I PROVE j >= i
  <2>1. m <= Len(cs) - i /\ i \in Int /\ j \in Int
    BY <1>4, <1>5, <1>6
  <2> QED
    BY <1>1, <1>5, <2>1
<1> HIDE DEF D
<1>8. Max(I) \in I /\ \A i \in I : Max(I) >= i
  <2> HIDE DEF I
  <2> QED
    BY <1>5, <1>7 DEF Max
<1>9. PICK k : k = MoveCount(cs, n)
  OBVIOUS
<1>10. k \in 0 .. Len(cs) /\ Before(cs, k) <= n /\ k \in I
  BY <1>1, <1>8, <1>9
<1>11. k # Len(cs) /\ Before(cs, k) \in Int
  <2>1. Before(cs, Len(cs)) \in Int /\ Before(cs, k) \in Int
    BY <1>1, <1>10, BeforeNext
  <2> QED
    BY <1>10, <2>1
<1>12. k \in 0 .. Len(cs) - 1
  BY <1>1, <1>10, <1>11
<1>13. k + 1 \notin I
  BY <1>1, <1>8, <1>9, <1>12
<1>14. ~(Before(cs, k + 1) <= n)
  BY <1>1, <1>12, <1>13
<1>15. Before(cs, k + 1) = Before(cs, k) + cs[k + 1].count /\ Before(cs, k + 1) \in Int
  <2>1. k + 1 \in 0 .. Len(cs)
    BY <1>1, <1>12
  <2> QED
    BY <1>12, <2>1, BeforeNext
<1>16. n < Before(cs, k) + cs[k + 1].count
  BY <1>14, <1>15
<1> HIDE DEF I
<1> QED
  BY <1>9, <1>10, <1>11, <1>12, <1>16

\* What stays when n are taken, of which part are of one entity, and what is moved.
Staying(cs, k, part) ==
    IF part = 0 THEN SubSeq(cs, k + 1, Len(cs))
    ELSE <<[cs[k + 1] EXCEPT !.count = @ - part]>> \o SubSeq(cs, k + 2, Len(cs))
Moving(cs, k, part, c) == SubSeq(cs, 1, k) \o IF part = 0 THEN <<>> ELSE <<Entry(c, part)>>

\* What stays: the entities of cs behind the first k, where only the first counts for less.
Stays(qs, cs, k) ==
    /\ qs \in Seq(Entries) /\ Len(qs) = Len(cs) - k
    /\ \A m \in 1 .. Len(cs) - k : qs[m].entity = cs[k + m].entity
\* A copy is an entity, if one is made.
Copies(part, c) == part # 0 => c \in Entity
\* What moves: the first k entities of cs and the copy.
MovesTo(qs, cs, k, part, c) ==
    /\ qs \in Seq(Entries) /\ Len(qs) = IF part = 0 THEN k ELSE k + 1
    /\ \A m \in 1 .. k : qs[m] = cs[m]
    /\ part # 0 => qs[k + 1].entity = c

LEMMA SplitParts ==
    ASSUME NEW cs \in Seq(Entries), NEW k \in 0 .. Len(cs) - 1, NEW part \in Nat,
           part < cs[k + 1].count, NEW qs, qs = Staying(cs, k, part)
    PROVE  /\ Stays(qs, cs, k) /\ qs \in Seq(Entries) /\ Len(qs) = Len(cs) - k
           /\ \A m \in 1 .. Len(cs) - k :
                 /\ qs[m].entity = cs[k + m].entity
                 /\ qs[m].count = IF m = 1 THEN cs[k + 1].count - part ELSE cs[k + m].count
<1>1. Len(cs) \in Nat /\ k \in Nat /\ k + 1 \in 1 .. Len(cs)
  OBVIOUS
<1>2. \A m \in 1 .. Len(cs) : cs[m] \in Entries /\ cs[m].count \in Nat \ {0} /\ cs[m].entity \in Entity
  BY CountsInt
<1>3. CASE part = 0
  <2>1. PICK ds : ds = SubSeq(cs, k + 1, Len(cs))
    OBVIOUS
  <2>2. ds = qs
    BY <1>3, <2>1 DEF Staying
  <2>3. /\ ds \in Seq(Entries) /\ Len(ds) = Len(cs) - k
        /\ \A m \in 1 .. Len(cs) - k : ds[m] = cs[k + m]
    BY <1>1, <2>1
  <2>4. ASSUME NEW m \in 1 .. Len(cs) - k
        PROVE  ds[m].count = IF m = 1 THEN cs[k + 1].count - part ELSE cs[k + m].count
    <3>1. cs[k + 1].count - part = cs[k + 1].count
      BY <1>1, <1>2, <1>3
    <3> QED
      BY <2>3, <3>1
  <2>5. /\ qs \in Seq(Entries) /\ Len(qs) = Len(cs) - k
        /\ \A m \in 1 .. Len(cs) - k :
              /\ qs[m].entity = cs[k + m].entity
              /\ qs[m].count = IF m = 1 THEN cs[k + 1].count - part ELSE cs[k + m].count
    BY <2>2, <2>3, <2>4
  <2> QED
    BY <2>5 DEF Stays
<1>4. CASE part # 0
  <2>1. PICK x : x = [cs[k + 1] EXCEPT !.count = @ - part]
    OBVIOUS
  <2>2. x \in Entries /\ x.entity = cs[k + 1].entity /\ x.count = cs[k + 1].count - part
    BY <1>1, <1>2, <2>1 DEF Entries
  <2>3. PICK es : es = SubSeq(cs, k + 2, Len(cs))
    OBVIOUS
  <2>4. /\ es \in Seq(Entries) /\ Len(es) = (Len(cs) - k) - 1
        /\ \A m \in 1 .. (Len(cs) - k) - 1 : es[m] = cs[(k + 1) + m]
    BY <1>1, <2>3
  <2>5. PICK ds : ds = <<x>> \o es
    OBVIOUS
  <2>6. ds = qs
    BY <1>4, <2>1, <2>3, <2>5 DEF Staying
  <2>7. /\ ds \in Seq(Entries) /\ Len(ds) = Len(cs) - k /\ ds[1] = x
        /\ \A m \in 2 .. Len(cs) - k : ds[m] = es[m - 1]
    BY <1>1, <2>2, <2>4, <2>5
  <2>8. ASSUME NEW m \in 1 .. Len(cs) - k
        PROVE  /\ ds[m].entity = cs[k + m].entity
               /\ ds[m].count = IF m = 1 THEN cs[k + 1].count - part ELSE cs[k + m].count
    <3>1. CASE m = 1
      BY <2>2, <2>7, <3>1
    <3>2. CASE m # 1
      <4>1. m - 1 \in 1 .. (Len(cs) - k) - 1 /\ (k + 1) + (m - 1) = k + m /\ m \in 2 .. Len(cs) - k
        BY <1>1, <3>2
      <4>2. ds[m] = cs[k + m]
        BY <2>4, <2>7, <4>1
      <4> QED
        BY <3>2, <4>2
    <3> QED
      BY <3>1, <3>2
  <2>9. /\ qs \in Seq(Entries) /\ Len(qs) = Len(cs) - k
        /\ \A m \in 1 .. Len(cs) - k :
              /\ qs[m].entity = cs[k + m].entity
              /\ qs[m].count = IF m = 1 THEN cs[k + 1].count - part ELSE cs[k + m].count
    BY <2>6, <2>7, <2>8
  <2> QED
    BY <2>9 DEF Stays
<1> QED
  BY <1>3, <1>4

LEMMA StayingCounts ==
    ASSUME NEW cs \in Seq(Entries), NEW k \in 0 .. Len(cs) - 1, NEW part \in Nat,
           part < cs[k + 1].count, NEW ds, ds = Staying(cs, k, part)
    PROVE  Before(ds, Len(ds)) = Before(cs, Len(cs)) - (Before(cs, k) + part)
<1>1. /\ Len(cs) \in Nat /\ ds \in Seq(Entries) /\ Len(ds) = Len(cs) - k
      /\ \A m \in 1 .. Len(cs) - k :
            ds[m].count = IF m = 1 THEN cs[k + 1].count - part ELSE cs[k + m].count
  BY SplitParts
<1>2a. PICK n : n = (Len(cs) - k) - 1
  OBVIOUS
<1>2. n \in Nat /\ n = (Len(cs) - k) - 1 /\ 1 + n = Len(ds) /\ (k + 1) + n = Len(cs)
  <2>1. PICK l \in Nat : l = Len(cs)
    BY <1>1
  <2>2. k \in 0 .. l - 1 /\ n = (l - k) - 1 /\ Len(ds) = l - k
    BY <1>1, <1>2a, <2>1
  <2> QED
    BY <2>1, <2>2
<1>3. \A m \in 1 .. n : ds[1 + m].count = cs[(k + 1) + m].count
  <2>1. SUFFICES ASSUME NEW m \in 1 .. n PROVE ds[1 + m].count = cs[(k + 1) + m].count
    OBVIOUS
  <2>2. 1 + m \in 1 .. Len(cs) - k /\ 1 + m # 1 /\ k + (1 + m) = (k + 1) + m
    BY <1>1, <1>2
  <2> QED
    BY <1>1, <2>2
<1>4. Before(ds, 1 + n) - Before(ds, 1) = Before(cs, (k + 1) + n) - Before(cs, k + 1)
  <2>1. PICK i, j : i = 1 /\ j = k + 1
    OBVIOUS
  <2>2. i \in Nat /\ j \in Nat /\ SameStretch(ds, cs, i, j, n)
    BY <1>1, <1>2, <1>3, <2>1 DEF SameStretch
  <2>3. Before(ds, i + n) - Before(ds, i) = Before(cs, j + n) - Before(cs, j)
    BY <1>1, <1>2, <2>2, StretchesAgree
  <2> QED
    BY <2>1, <2>3
<1>5. Before(ds, 1) = cs[k + 1].count - part
  <2>1. 0 \in 0 .. Len(ds) - 1 /\ 0 + 1 = 1 /\ 1 \in 1 .. Len(cs) - k
    BY <1>1
  <2>2. Before(ds, 0 + 1) = Before(ds, 0) + ds[0 + 1].count /\ Before(ds, 0) = 0
    BY <1>1, <2>1, BeforeNext
  <2>3. ds[1].count = cs[k + 1].count - part
    BY <1>1, <2>1
  <2>4. cs[k + 1] \in Entries
    OBVIOUS
  <2>5. cs[k + 1].count \in Int
    BY <2>4, CountsInt
  <2> QED
    BY <2>1, <2>2, <2>3, <2>5
<1>6. Before(cs, k + 1) = Before(cs, k) + cs[k + 1].count
  BY BeforeNext
<1>7. /\ Before(cs, k) \in Int /\ Before(cs, Len(cs)) \in Int /\ Before(ds, Len(ds)) \in Int
      /\ cs[k + 1].count \in Int
  <2>1. /\ k \in 0 .. Len(cs) /\ Len(cs) \in 0 .. Len(cs) /\ Len(ds) \in 0 .. Len(ds)
        /\ cs[k + 1] \in Entries
    BY <1>1
  <2> QED
    BY <1>1, <2>1, BeforeNext, CountsInt
<1>8. PICK b \in Int, t \in Int, d \in Int, x \in Int :
         b = Before(cs, k) /\ t = Before(cs, Len(cs)) /\ d = Before(ds, Len(ds)) /\ x = cs[k + 1].count
  BY <1>7, Zenon
<1>9. d - (x - part) = t - (b + x)
  BY <1>2, <1>4, <1>5, <1>6, <1>8, Zenon
<1>10. d = t - (b + part)
  BY <1>9
<1> QED
  BY <1>8, <1>10, Zenon

LEMMA MovingCounts ==
    ASSUME NEW cs \in Seq(Entries), NEW k \in 0 .. Len(cs) - 1, NEW part \in Nat, NEW c,
           Copies(part, c), NEW ds, ds = Moving(cs, k, part, c)
    PROVE  /\ MovesTo(ds, cs, k, part, c)
           /\ Before(ds, Len(ds)) = Before(cs, k) + part
<1>1. Len(cs) \in Nat /\ k \in Nat
  OBVIOUS
<1>2. PICK ms : ms = SubSeq(cs, 1, k)
  OBVIOUS
<1>3. ms \in Seq(Entries) /\ Len(ms) = k /\ \A m \in 1 .. k : ms[m] = cs[m]
  BY <1>1, <1>2
<1>4. Before(ms, k) = Before(cs, k)
  <2>1. \A m \in 1 .. k : ms[m].count = cs[m].count
    BY <1>3
  <2> QED
    BY <1>1, <1>3, <2>1, StartsAgree
<1>5. Before(cs, k) \in Int
  BY <1>1, BeforeNext
<1>6. CASE part = 0
  <2>1. ds = ms
    BY <1>2, <1>3, <1>6 DEF Moving
  <2>2. Before(cs, k) + part = Before(cs, k)
    BY <1>5, <1>6
  <2>3. MovesTo(ds, cs, k, part, c)
    BY <1>3, <1>6, <2>1 DEF MovesTo
  <2> QED
    BY <1>3, <1>4, <1>6, <2>1, <2>2, <2>3
<1>7. CASE part # 0
  <2>1. Entry(c, part) \in Entries /\ Entry(c, part).count = part /\ Entry(c, part).entity = c
    BY <1>7 DEF Entry, Entries, Copies
  <2>2a. ds = ms \o <<Entry(c, part)>>
    BY <1>2, <1>7 DEF Moving
  <2>2. ds = Append(ms, Entry(c, part))
    BY <1>3, <2>1, <2>2a
  <2>3. /\ ds \in Seq(Entries) /\ Len(ds) = k + 1
        /\ Before(ds, k + 1) = Before(ms, k) + part
    BY <1>3, <2>1, <2>2, AppendCounts
  <2>4. ds[k + 1] = Entry(c, part) /\ \A m \in 1 .. k : ds[m] = ms[m]
    BY <1>3, <2>1, <2>2
  <2>5. MovesTo(ds, cs, k, part, c)
    BY <1>3, <1>7, <2>1, <2>3, <2>4 DEF MovesTo
  <2> QED
    BY <1>4, <2>3, <2>5
<1> QED
  BY <1>6, <1>7

\* n of the stack s, of which cs is what it holds, become the stack t; c is the copy.
Splits(s, t, c, cs, k, part, n) ==
    /\ stack' = [stack EXCEPT
          ![s] = [contents |-> Staying(cs, k, part), total |-> @.total - n],
          ![t] = [contents |-> Moving(cs, k, part, c), total |-> n]]
    /\ stack_of' = [e \in Entity |->
          IF e = c \/ \E j \in 1 .. k : cs[j].entity = e THEN t ELSE stack_of[e]]
    /\ volume' = [e \in Entity |-> CASE e = s -> volume[s] - UnitVolume * n
                                     [] e = t -> UnitVolume * n
                                     [] e = c -> volume[cs[k + 1].entity]
                                     [] OTHER -> volume[e]]
    /\ original' = [e \in Entity |-> CASE e = t -> original[s]
                                       [] e = c -> original[cs[k + 1].entity]
                                       [] OTHER -> original[e]]

LEMMA SplitDone ==
    ASSUME StackTypes, NEW s \in Entity, NEW n \in Nat, SplitStack(s, n),
           NEW cs, cs = stack[s].contents, NEW k, k = MoveCount(cs, n),
           k \in Nat, k <= Len(cs), NEW part, part = n - Before(cs, k)
    PROVE  /\ s \in Stacked /\ n \in 1 .. stack[s].total - 1 /\ loose' = loose
           /\ \E t \in Free : \E c \in IF part = 0 THEN {NoStack} ELSE Free \ {t} :
                 Splits(s, t, c, cs, k, part, n)
<1>1. s \in Stacked /\ n \in 1 .. stack[s].total - 1 /\ loose' = loose
  BY DEF SplitStack
<1> DEFINE old == stack[s].contents
           k0 == MoveCount(old, n)
           part0 == n - Before(old, k0)
           moved == SubSeq(old, 1, k0)
           SplitTo(t, c) ==
             /\ stack' = [stack EXCEPT
                   ![s] = [contents |-> Staying(old, k0, part0), total |-> @.total - n],
                   ![t] = [contents |-> Moving(old, k0, part0, c), total |-> n]]
             /\ stack_of' = [e \in Entity |->
                   IF e = c \/ \E j \in 1..k0 : moved[j].entity = e THEN t ELSE stack_of[e]]
             /\ volume' = [e \in Entity |-> CASE e = s -> volume[s] - UnitVolume * n
                                              [] e = t -> UnitVolume * n
                                              [] e = c -> volume[old[k0 + 1].entity]
                                              [] OTHER -> volume[e]]
             /\ original' = [e \in Entity |-> CASE e = t -> original[s]
                                                [] e = c -> original[old[k0 + 1].entity]
                                                [] OTHER -> original[e]]
<1>2. \E t \in Free : \E c \in IF part0 = 0 THEN {NoStack} ELSE Free \ {t} : SplitTo(t, c)
  BY Zenon DEF SplitStack, Staying, Moving
<1> HIDE DEF SplitTo
<1>2a. PICK t \in Free : \E c \in IF part0 = 0 THEN {NoStack} ELSE Free \ {t} : SplitTo(t, c)
  BY <1>2, Zenon
<1>3. PICK c \in IF part0 = 0 THEN {NoStack} ELSE Free \ {t} : SplitTo(t, c)
  BY <1>2a, Zenon
<1>4. old \in Seq(Entries) /\ Len(old) \in Nat
  BY StackKinds
<1>5. \A j \in 1 .. k0 : moved[j] = old[j]
  BY <1>4
<1>6. stack_of' = [e \in Entity |->
          IF e = c \/ \E j \in 1 .. k0 : old[j].entity = e THEN t ELSE stack_of[e]]
  <2>1. stack_of' = [e \in Entity |->
          IF e = c \/ \E j \in 1..k0 : moved[j].entity = e THEN t ELSE stack_of[e]]
    BY <1>3, Zenon DEF SplitTo
  <2> HIDE DEF moved, k0, old
  <2>2. \A e : (\E j \in 1 .. k0 : moved[j].entity = e) <=> (\E j \in 1 .. k0 : old[j].entity = e)
    BY <1>5
  <2> QED
    BY <2>1, <2>2
<1>7. Splits(s, t, c, old, k0, part0, n)
  BY <1>3, <1>6, Zenon DEF Splits, SplitTo
<1> HIDE DEF k0, part0, moved
<1>8. cs = old /\ k = k0 /\ part = part0
  BY Zenon DEF k0, part0
<1>9. Splits(s, t, c, cs, k, part, n) /\ c \in IF part = 0 THEN {NoStack} ELSE Free \ {t}
  BY <1>3, <1>7, <1>8, Zenon
<1> QED
  BY <1>1, <1>9, Zenon

LEMMA SplitKeeps ==
    ASSUME StacksInv, StacksAssumption, NEW s \in Entity, NEW n \in Nat, SplitStack(s, n)
    PROVE  StacksInv'
<1>0. /\ StackTypes /\ OnlyStacks /\ NothingMissing
      /\ \A r \in Entity : Membered(r) /\ Counted(r)
      /\ UnitVolume \in Nat /\ MaxCount \in Nat
  BY DEF StacksInv, StacksAssumption
<1>1. PICK cs : cs = stack[s].contents
  OBVIOUS
<1>2. PICK total : total = stack[s].total
  OBVIOUS
<1>3. PICK k : k = MoveCount(cs, n)
  OBVIOUS
<1>4. PICK part : part = n - Before(cs, k)
  OBVIOUS
<1>5. /\ cs \in Seq(Entries) /\ Len(cs) \in Nat /\ DOMAIN cs = 1 .. Len(cs) /\ total \in Nat
      /\ total = Before(cs, Len(cs)) /\ total <= MaxCount
      /\ \A m \in 1 .. Len(cs) : cs[m].entity \in Entity
  BY <1>0, <1>1, <1>2, StackKinds DEF Counted
<1>6. s \in Stacked /\ n \in 1 .. total - 1 /\ loose' = loose
  BY <1>2 DEF SplitStack
<1>7. /\ k \in 0 .. Len(cs) - 1 /\ part \in Nat /\ part < cs[k + 1].count
      /\ Before(cs, k) \in Int /\ Before(cs, k) + part = n
  <2>1. n < Before(cs, Len(cs))
    BY <1>5, <1>6
  <2>2. /\ k \in 0 .. Len(cs) - 1 /\ Before(cs, k) \in Int
        /\ Before(cs, k) <= n /\ n < Before(cs, k) + cs[k + 1].count
    BY <1>3, <1>5, <2>1, MovesSome
  <2>3. cs[k + 1] \in Entries
    BY <1>5, <2>2
  <2>4. cs[k + 1].count \in Int
    BY <2>3, CountsInt
  <2> QED
    BY <1>4, <2>2, <2>4
<1>8. \E t \in Free : \E c \in IF part = 0 THEN {NoStack} ELSE Free \ {t} :
         Splits(s, t, c, cs, k, part, n)
  <2>1. k \in Nat /\ k <= Len(cs)
    BY <1>5, <1>7
  <2> QED
    BY <1>0, <1>1, <1>3, <1>4, <2>1, SplitDone
<1>9. PICK t \in Free : \E c \in IF part = 0 THEN {NoStack} ELSE Free \ {t} :
         Splits(s, t, c, cs, k, part, n)
  BY <1>8
<1>10. PICK c \in IF part = 0 THEN {NoStack} ELSE Free \ {t} : Splits(s, t, c, cs, k, part, n)
  BY <1>9
<1>11. PICK ds, ms : ds = Staying(cs, k, part) /\ ms = Moving(cs, k, part, c)
  OBVIOUS
\* Who takes part.
<1>12. /\ t \in Spare /\ t \in Entity /\ stack_of[t] = NoStack /\ stack[t].total = 0
       /\ original[t] = NoStack /\ s # t /\ total > 0 /\ stack[s].total > 0
       /\ s \notin Piece /\ t \notin Piece
  <2>1. t \in Spare /\ t \in Entity /\ original[t] = NoStack
    BY DEF Free, Entity
  <2>2. stack_of[t] = NoStack /\ stack[t].total = 0
    BY <1>0, <2>1 DEF OnlyStacks
  <2>3. total > 0 /\ stack[s].total > 0 /\ s \notin Piece
    BY <1>0, <1>2, <1>6 DEF Stacked, OnlyStacks
  <2> QED
    BY <2>1, <2>2, <2>3 DEF StacksAssumption
<1>13. /\ c \notin Piece /\ c # t /\ c # s
       /\ \A e \in Entity : e = c => /\ part # 0 /\ c \in Spare /\ stack_of[c] = NoStack
                                    /\ stack[c].total = 0 /\ original[c] = NoStack
       /\ part # 0 => c \in Entity
  <2>1. CASE part = 0
    BY <1>12, <2>1 DEF StacksAssumption, Entity
  <2>2. CASE part # 0
    <3>1. c \in Spare /\ c \in Entity /\ original[c] = NoStack /\ c # t
      BY <1>10, <2>2 DEF Free, Entity
    <3>2. stack_of[c] = NoStack /\ stack[c].total = 0
      BY <1>0, <3>1 DEF OnlyStacks
    <3> QED
      BY <1>12, <2>2, <3>1, <3>2 DEF StacksAssumption
  <2> QED
    BY <2>1, <2>2
<1>14. \A e \in Entity : stack_of[e] # NoStack => e # t /\ e # c
  BY <1>12, <1>13
\* What is moved, and of what a copy is made.
<1>15. ASSUME NEW m \in 1 .. Len(cs) PROVE InStack(s, cs[m].entity) /\ cs[m].entity \in Entity
  BY <1>0, <1>1, <1>5 DEF Membered
<1>16. \A m, j \in 1 .. Len(cs) : cs[m].entity = cs[j].entity => m = j
  BY <1>0, <1>1, <1>5 DEF Membered
<1>17. PICK x : x = cs[k + 1].entity
  OBVIOUS
<1>18. x \in Entity /\ InStack(s, x) /\ k + 1 \in 1 .. Len(cs)
  BY <1>5, <1>7, <1>15, <1>17
\* What the step does to each.
<1>19. /\ stack' = [stack EXCEPT ![s] = [contents |-> ds, total |-> stack[s].total - n],
                                 ![t] = [contents |-> ms, total |-> n]]
       /\ stack_of' = [e \in Entity |->
             IF e = c \/ \E j \in 1 .. k : cs[j].entity = e THEN t ELSE stack_of[e]]
       /\ volume' = [e \in Entity |-> CASE e = s -> volume[s] - UnitVolume * n
                                        [] e = t -> UnitVolume * n
                                        [] e = c -> volume[x]
                                        [] OTHER -> volume[e]]
       /\ original' = [e \in Entity |-> CASE e = t -> original[s]
                                          [] e = c -> original[x]
                                          [] OTHER -> original[e]]
  BY <1>10, <1>11, <1>17 DEF Splits
<1>20. /\ stack'[s] = [contents |-> ds, total |-> total - n] /\ stack'[t] = [contents |-> ms, total |-> n]
       /\ \A r \in Entity : r # s /\ r # t => stack'[r] = stack[r]
  BY <1>0, <1>2, <1>12, <1>19 DEF StackTypes
<1>21. /\ volume'[s] = volume[s] - UnitVolume * n /\ volume'[t] = UnitVolume * n
       /\ \A r \in Entity : r # s /\ r # t /\ r # c => volume'[r] = volume[r]
       /\ part # 0 => volume'[c] = volume[x]
  BY <1>12, <1>13, <1>19
<1>22. /\ original'[t] = original[s]
       /\ \A r \in Entity : r # t /\ r # c => original'[r] = original[r]
       /\ part # 0 => original'[c] = original[x]
  BY <1>12, <1>13, <1>19
<1>23. /\ \A e \in Entity : e # c /\ stack_of[e] # s => stack_of'[e] = stack_of[e]
       /\ \A m \in 1 .. k : stack_of'[cs[m].entity] = t
       /\ \A m \in k + 1 .. Len(cs) : stack_of'[cs[m].entity] = s
       /\ part # 0 => stack_of'[c] = t
  <2>1. ASSUME NEW e \in Entity, e # c, stack_of[e] # s PROVE stack_of'[e] = stack_of[e]
    <3>1. ~\E j \in 1 .. k : cs[j].entity = e
      BY <1>5, <1>7, <1>15, <2>1 DEF InStack
    <3> QED
      BY <1>19, <2>1, <3>1
  <2>2. ASSUME NEW m \in 1 .. k PROVE stack_of'[cs[m].entity] = t
    <3>1. cs[m].entity \in Entity
      BY <1>5, <1>7
    <3> QED
      BY <1>19, <3>1
  <2>3. ASSUME NEW m \in k + 1 .. Len(cs) PROVE stack_of'[cs[m].entity] = s
    <3>1. m \in 1 .. Len(cs) /\ \A j \in 1 .. k : j # m /\ j \in 1 .. Len(cs)
      BY <1>5, <1>7
    <3>2. PICK e : e = cs[m].entity
      OBVIOUS
    <3>3. e \in Entity /\ stack_of[e] = s
      BY <1>15, <3>1, <3>2 DEF InStack
    <3>4. ~\E j \in 1 .. k : cs[j].entity = e
      BY <1>16, <3>1, <3>2
    <3>5. e # c
      BY <1>14, <3>3 DEF StacksAssumption, Entity
    <3> QED
      BY <1>19, <3>2, <3>3, <3>4, <3>5
  <2> QED
    BY <1>13, <1>19, <2>1, <2>2, <2>3
<1>24. /\ ds \in Seq(Entries) /\ Len(ds) = Len(cs) - k
       /\ \A m \in 1 .. Len(cs) - k : ds[m].entity = cs[k + m].entity
       /\ Before(ds, Len(ds)) = total - n
  <2>1. Before(ds, Len(ds)) = Before(cs, Len(cs)) - (Before(cs, k) + part)
    BY <1>5, <1>7, <1>11, StayingCounts
  <2>2. Before(ds, Len(ds)) = total - n
    BY <1>5, <1>7, <2>1
  <2>3. Stays(ds, cs, k)
    BY <1>5, <1>7, <1>11, SplitParts
  <2> QED
    BY <2>2, <2>3 DEF Stays
<1>25. /\ ms \in Seq(Entries) /\ Len(ms) = IF part = 0 THEN k ELSE k + 1
       /\ \A m \in 1 .. k : ms[m].entity = cs[m].entity
       /\ part # 0 => ms[k + 1].entity = c
       /\ Before(ms, Len(ms)) = n
  <2>1. MovesTo(ms, cs, k, part, c) /\ Before(ms, Len(ms)) = Before(cs, k) + part
    <3>1. Copies(part, c)
      BY <1>13 DEF Copies
    <3>2. ms = Moving(cs, k, part, c)
      BY <1>11
    <3>3. cs \in Seq(Entries) /\ k \in 0 .. Len(cs) - 1 /\ part \in Nat
      BY <1>5, <1>7
    <3> QED
      BY <3>1, <3>2, <3>3, MovingCounts
  <2> QED
    BY <1>7, <2>1 DEF MovesTo
\* Members of any stack keep what they have, wherever they are then.
<1>26. ASSUME NEW e \in Entity, NEW r \in Entity, InStack(r, e), NEW q, stack_of'[e] = q
       PROVE  InStack(q, e)'
  <2>1. e # s /\ e # t /\ e # c
    BY <1>12, <1>14, <1>26 DEF InStack, StacksAssumption, Entity
  <2> QED
    BY <1>6, <1>20, <1>21, <1>26, <2>1 DEF InStack
<1>27. StackTypes'
  <2>1. stack' \in [Entity -> Heaps]
    <3>1. [contents |-> ds, total |-> stack[s].total - n] \in Heaps
      BY <1>2, <1>5, <1>6, <1>24 DEF Heaps
    <3>2. [contents |-> ms, total |-> n] \in Heaps
      BY <1>25 DEF Heaps
    <3> QED
      BY <1>0, <1>19, <3>1, <3>2 DEF StackTypes
  <2>2. stack_of' \in [Entity -> Entity \cup {NoStack}]
    BY <1>0, <1>12, <1>19 DEF StackTypes
  <2>3. volume' \in [Entity -> Int]
    <3>1. UnitVolume * n \in Int /\ volume[s] - UnitVolume * n \in Int /\ volume[x] \in Int
      BY <1>0, <1>18 DEF StackTypes
    <3> QED
      BY <1>0, <1>19, <3>1 DEF StackTypes
  <2>4. original' \in [Entity -> Piece \cup {NoStack}]
    BY <1>0, <1>18, <1>19 DEF StackTypes
  <2> QED
    BY <1>0, <1>6, <2>1, <2>2, <2>3, <2>4 DEF StackTypes
<1>28. OnlyStacks'
  <2>1. \A e \in Entity : stack'[e].total = 0 => stack'[e] = NotAStack
    BY <1>0, <1>5, <1>6, <1>20 DEF OnlyStacks
  <2>2. ASSUME NEW e \in Entity, original'[e] = NoStack
        PROVE  stack_of'[e] = NoStack /\ stack'[e].total = 0
    <3>1. original[s] # NoStack
      BY <1>0, <1>12 DEF OnlyStacks
    <3>2. original[x] # NoStack
      BY <1>0, <1>18 DEF OnlyStacks, InStack, StacksAssumption, Entity
    <3>3. e # t /\ e # c
      BY <1>13, <1>22, <2>2, <3>1, <3>2
    <3>4. original[e] = NoStack /\ e # s
      BY <1>22, <2>2, <3>1, <3>3
    <3>5. stack_of[e] = NoStack /\ stack[e].total = 0
      BY <1>0, <3>4 DEF OnlyStacks
    <3>6. stack_of[e] # s
      BY <3>5 DEF StacksAssumption, Entity
    <3> QED
      BY <1>20, <1>23, <3>3, <3>4, <3>5, <3>6
  <2>3. ASSUME NEW i \in Piece PROVE stack'[i].total = 0 /\ original'[i] # NoStack
    <3>1. i \in Entity /\ i # s /\ i # t /\ i # c
      BY <1>12, <1>13 DEF Entity
    <3> QED
      BY <1>0, <1>20, <1>22, <3>1 DEF OnlyStacks
  <2>4. ASSUME NEW i \in loose' PROVE volume'[i] = UnitVolume
    <3>1. i \in loose /\ i \in Entity /\ i # s /\ i # t /\ i # c
      BY <1>0, <1>6, <1>12, <1>13 DEF Entity, StackTypes
    <3> QED
      BY <1>0, <1>21, <3>1 DEF OnlyStacks
  <2> QED
    BY <2>1, <2>2, <2>3, <2>4 DEF OnlyStacks
<1>29. ASSUME NEW r \in Entity, r # s, r # t PROVE (Membered(r) /\ Counted(r))'
  <2>1. stack'[r] = stack[r] /\ (stack[r].total > 0 => volume'[r] = volume[r])
    BY <1>13, <1>20, <1>21, <1>29
  <2>2. PICK os : os = stack[r].contents
    OBVIOUS
  <2>3. ASSUME NEW m \in DOMAIN os PROVE InStack(r, os[m].entity)'
    <3>1. PICK e : e = os[m].entity
      OBVIOUS
    <3>2. e \in Entity /\ InStack(r, e)
      BY <1>0, <2>2, <3>1, StackKinds DEF Membered
    <3>3. stack_of'[e] = r
      BY <1>14, <1>23, <1>29, <3>2 DEF InStack, StacksAssumption, Entity
    <3>4. InStack(r, e)'
      BY <1>26, <3>2, <3>3
    <3> QED
      BY <3>1, <3>4, Zenon
  <2>4. Membered(r)'
    BY <1>0, <2>1, <2>2, <2>3 DEF Membered
  <2>5. Counted(r)'
    BY <1>0, <2>1 DEF Counted, Before
  <2> QED
    BY <2>4, <2>5
<1>30. Counted(s)'
  <2>1. volume[s] - UnitVolume * n = UnitVolume * (total - n)
    <3>1. volume[s] = UnitVolume * total
      BY <1>0, <1>2, <1>12 DEF Counted
    <3>2. PICK u \in Nat, v \in Int : u = UnitVolume /\ v = total
      BY <1>0, <1>5
    <3>3. u * v - u * n = u * (v - n)
      BY <3>2
    <3> QED
      BY <3>1, <3>2, <3>3
  <2>2. /\ stack'[s].contents = ds /\ stack'[s].total = total - n
        /\ volume'[s] = UnitVolume * (total - n)
    BY <1>20, <1>21, <2>1
  <2>3. total - n <= MaxCount
    BY <1>0, <1>5, <1>6
  <2> QED
    BY <1>24, <2>2, <2>3 DEF Counted
<1>31. Counted(t)'
  <2>1. stack'[t].contents = ms /\ stack'[t].total = n /\ volume'[t] = UnitVolume * n
    BY <1>20, <1>21
  <2>2. n <= MaxCount
    BY <1>0, <1>5, <1>6
  <2> QED
    BY <1>25, <2>1, <2>2 DEF Counted
<1>32. Membered(s)'
  <2>1. DOMAIN ds = 1 .. Len(cs) - k
    BY <1>24
  <2>2. ASSUME NEW m \in 1 .. Len(cs) - k PROVE InStack(s, ds[m].entity)'
    <3>1. PICK e : e = ds[m].entity
      OBVIOUS
    <3>2. k + m \in k + 1 .. Len(cs) /\ k + m \in 1 .. Len(cs) /\ e = cs[k + m].entity
      BY <1>5, <1>7, <1>24, <3>1
    <3>3. e \in Entity /\ InStack(s, e) /\ stack_of'[e] = s
      BY <1>15, <1>23, <3>2
    <3>4. InStack(s, e)'
      BY <1>26, <3>3
    <3> QED
      BY <3>1, <3>4, Zenon
  <2>3. ASSUME NEW m \in 1 .. Len(cs) - k, NEW j \in 1 .. Len(cs) - k, ds[m].entity = ds[j].entity
        PROVE  m = j
    <3>1. k + m \in 1 .. Len(cs) /\ k + j \in 1 .. Len(cs) /\ cs[k + m].entity = cs[k + j].entity
      BY <1>5, <1>7, <1>24, <2>3
    <3>2. k + m = k + j
      BY <1>16, <3>1
    <3> QED
      BY <1>7, <3>2
  <2> QED
    BY <1>20, <2>1, <2>2, <2>3 DEF Membered
<1>33. Membered(t)'
  <2>1. DOMAIN ms = 1 .. Len(ms) /\ Len(ms) = IF part = 0 THEN k ELSE k + 1
    BY <1>25
  <2>2. ASSUME NEW m \in 1 .. k
        PROVE  /\ InStack(t, ms[m].entity)' /\ ms[m].entity = cs[m].entity /\ m \in 1 .. Len(cs)
               /\ ms[m].entity # c
    <3>1. PICK e : e = ms[m].entity
      OBVIOUS
    <3>2. m \in 1 .. Len(cs) /\ e = cs[m].entity
      BY <1>5, <1>7, <1>25, <3>1
    <3>3. e \in Entity /\ InStack(s, e) /\ stack_of'[e] = t
      BY <1>15, <1>23, <3>2
    <3>4. InStack(t, e)'
      BY <1>26, <3>3
    <3>5. e # c
      BY <1>14, <3>3 DEF InStack, StacksAssumption, Entity
    <3> QED
      BY <3>1, <3>2, <3>4, <3>5, Zenon
  <2>3. ASSUME part # 0 PROVE InStack(t, c)'
    <3>1. c \in Entity /\ c \in Spare /\ stack[c].total = 0
      BY <1>13, <2>3
    <3>2. stack_of'[c] = t /\ stack'[c] = stack[c] /\ volume'[c] = UnitVolume
      BY <1>13, <1>18, <1>20, <1>21, <1>23, <2>3, <3>1 DEF InStack
    <3>3. c \notin loose'
      BY <1>0, <1>6, <1>13 DEF StackTypes
    <3> QED
      BY <3>1, <3>2, <3>3 DEF InStack
  <2>4. ASSUME NEW m \in DOMAIN ms PROVE InStack(t, ms[m].entity)'
    <3>1. CASE m \in 1 .. k
      BY <2>2, <3>1
    <3>2. CASE m \notin 1 .. k
      <4>1. part # 0 /\ m = k + 1
        BY <1>7, <2>1, <3>2
      <4> QED
        BY <1>25, <2>3, <4>1
    <3> QED
      BY <3>1, <3>2
  <2>5. ASSUME NEW m \in DOMAIN ms, NEW j \in DOMAIN ms, ms[m].entity = ms[j].entity PROVE m = j
    <3>1. CASE m \in 1 .. k /\ j \in 1 .. k
      BY <1>16, <2>2, <2>5, <3>1
    <3>2. CASE m \notin 1 .. k
      <4>1. part # 0 /\ m = k + 1 /\ ms[m].entity = c
        BY <1>7, <1>25, <2>1, <3>2
      <4>2. j \notin 1 .. k
        BY <2>2, <2>5, <4>1
      <4> QED
        BY <1>7, <2>1, <4>1, <4>2
    <3>3. CASE j \notin 1 .. k
      <4>1. part # 0 /\ j = k + 1 /\ ms[j].entity = c
        BY <1>7, <1>25, <2>1, <3>3
      <4>2. m \notin 1 .. k
        BY <2>2, <2>5, <4>1
      <4> QED
        BY <1>7, <2>1, <4>1, <4>2
    <3> QED
      BY <3>1, <3>2, <3>3
  <2> QED
    BY <1>20, <2>4, <2>5 DEF Membered
<1>34. NothingMissing'
  <2>1. PICK f, h, g : /\ f = [r \in Entity |-> stack[r].total] /\ g = [r \in Entity |-> stack'[r].total]
                       /\ h = [f EXCEPT ![s] = total - n]
    OBVIOUS
  <2>2. IsFiniteSet(Entity) /\ f \in [Entity -> Int] /\ g \in [Entity -> Int]
    BY <1>0, <1>27, <2>1, TotalsSum DEF StackTypes
  <2>3. h \in [Entity -> Int] /\ f[s] = total /\ h[s] = total - n /\ \A r \in Entity : r # s => f[r] = h[r]
    <3>0. total - n \in Int
      BY <1>5, <1>6
    <3>00. h = [f EXCEPT ![s] = total - n]
      BY <2>1, Zenon
    <3>000. f[s] = total
      BY <1>2, <2>1, Zenon
    <3>1. total - n \in Int /\ h = [f EXCEPT ![s] = total - n] /\ f[s] = total
      BY <3>0, <3>00, <3>000
    <3>2. PICK d \in Int : d = total - n
      BY <3>1
    <3> QED
      BY <2>2, <3>1, <3>2
  <2>4. h[t] = 0 /\ g[t] = n /\ \A r \in Entity : r # t => h[r] = g[r]
    BY <1>12, <1>20, <2>1, <2>3
  <2>5. SumFunction(f) \in Int /\ SumFunction(h) = (SumFunction(f) - f[s]) + h[s]
    BY <2>2, <2>3, SumChanges
  <2>6. SumFunction(h) \in Int /\ SumFunction(g) = (SumFunction(h) - h[t]) + g[t]
    BY <1>12, <2>2, <2>3, <2>4, SumChanges
  <2>7. SumFunction(g) = SumFunction(f)
    BY <1>5, <2>3, <2>4, <2>5, <2>6
  <2> QED
    BY <1>0, <1>6, <2>1, <2>7 DEF NothingMissing
<1> QED
  BY <1>27, <1>28, <1>29, <1>30, <1>31, <1>32, <1>33, <1>34 DEF StacksInv

-----------------------------------------------------------------------------
\* Stacks and what they hold keep fitting each other (StacksInv).
THEOREM StacksInvariant == StacksSpec => []StacksInv
<1>1. StacksInit => StacksInv
  <2> SUFFICES ASSUME StacksInit PROVE StacksInv
    OBVIOUS
  <2>1. StackTypes
    BY StacksAssumption DEF StacksInit, StackTypes, NotAStack, Heaps, StacksAssumption, Entity
  <2>2. OnlyStacks
    BY StacksAssumption DEF StacksInit, OnlyStacks, NotAStack, StacksAssumption, Entity
  <2>3. ASSUME NEW s \in Entity PROVE Membered(s) /\ Counted(s)
    <3>1. stack[s] = NotAStack
      BY DEF StacksInit
    <3>2. stack[s].contents = <<>> /\ stack[s].total = 0 /\ Len(<<>>) = 0 /\ <<>> \in Seq(Entries)
      BY <3>1 DEF NotAStack
    <3>3. Before(<<>>, 0) = 0
      BY <3>2, BeforeNext
    <3> QED
      BY <3>2, <3>3, StacksAssumption DEF Membered, Counted, StacksAssumption
  <2>4. NothingMissing
    <3>1. PICK f : f = [s \in Entity |-> stack[s].total]
      OBVIOUS
    <3>2. IsFiniteSet(Entity) /\ f \in [Entity -> Int] /\ \A s \in Entity : f[s] = 0
      BY <2>1, <3>1, StacksAssumption, TotalsSum DEF StacksInit, NotAStack, StackTypes
    <3>3. SumFunction(f) = 0 /\ Cardinality(Piece) \in Nat
      BY <3>2, SumOfZeros, FS_CardinalityType, StacksAssumption DEF StacksAssumption
    <3> QED
      BY <3>1, <3>3 DEF NothingMissing, StacksInit
  <2> QED
    BY <2>1, <2>2, <2>3, <2>4 DEF StacksInv
<1>2. StacksInv /\ [StacksNext]_stvars => StacksInv'
  <2> SUFFICES ASSUME StacksInv, [StacksNext]_stvars PROVE StacksInv'
    OBVIOUS
  <2>1. CASE UNCHANGED stvars
    BY <2>1 DEF stvars, StacksInv, StackTypes, OnlyStacks, Membered, InStack, Counted, NothingMissing
  <2>2. CASE \E i \in Piece : ConvertToStack(i)
    BY <2>2, StacksAssumption, ConvertKeeps
  <2>3. CASE \E i \in Piece : \E s \in Entity : AddToStack(s, i)
    BY <2>3, StacksAssumption, AddKeeps
  <2>4. CASE \E s \in Entity, n \in 1 .. MaxCount : SplitStack(s, n)
    <3>1. PICK s \in Entity, n \in 1 .. MaxCount : SplitStack(s, n)
      BY <2>4
    <3>2. n \in Nat
      BY StacksAssumption DEF StacksAssumption
    <3> QED
      BY <3>1, <3>2, StacksAssumption, SplitKeeps
  <2> QED
    BY <2>1, <2>2, <2>3, <2>4 DEF StacksNext
<1> QED
  BY <1>1, <1>2, PTL DEF StacksSpec

\* StacksValid: a stack's count and volume are those of its entities, each of which is
\* in it once and nowhere else, and no item is lost however they are stacked and split.
THEOREM StacksAreValid == StacksSpec => []StacksValid
<1>1. ASSUME StacksInv PROVE StacksValid
  <2>1. ASSUME NEW s \in Stacked
        PROVE  LET cs == stack[s].contents IN
          /\ stack[s].total = Before(cs, Len(cs)) /\ stack[s].total <= MaxCount
          /\ volume[s] = SumFunction([k \in DOMAIN cs |-> cs[k].count * volume[cs[k].entity]])
          /\ \A k \in DOMAIN cs :
                /\ cs[k].count > 0
                /\ stack_of[cs[k].entity] = s /\ cs[k].entity \notin loose \cup Stacked
          /\ \A j, k \in DOMAIN cs : cs[j].entity = cs[k].entity => j = k
    <3>1. PICK cs : cs = stack[s].contents
      OBVIOUS
    <3>2. /\ s \in Entity /\ stack[s].total > 0 /\ StackTypes /\ Membered(s) /\ Counted(s)
          /\ stack \in [Entity -> Heaps]
      BY <1>1 DEF StacksInv, Stacked, StackTypes
    <3>3. /\ cs \in Seq(Entries) /\ DOMAIN cs = 1 .. Len(cs) /\ Len(cs) \in Nat
          /\ \A k \in DOMAIN cs : cs[k] \in Entries /\ cs[k].count \in Nat \ {0}
      BY <3>1, <3>2, StackKinds, CountsInt
    <3>4. /\ \A k \in DOMAIN cs : InStack(s, cs[k].entity)
          /\ \A j, k \in DOMAIN cs : cs[j].entity = cs[k].entity => j = k
      BY <3>1, <3>2 DEF Membered
    <3>5. volume[s] = UnitVolume * Before(cs, Len(cs))
      BY <3>1, <3>2 DEF Counted
    <3>6. PICK f : f = [k \in 1 .. Len(cs) |-> cs[k].count]
      OBVIOUS
    <3>7. IsFiniteSet(1 .. Len(cs)) /\ f \in [1 .. Len(cs) -> Int] /\ Before(cs, Len(cs)) = SumFunction(f)
      BY <3>3, <3>6, CountParts DEF Before
    <3>8. [k \in DOMAIN cs |-> cs[k].count * volume[cs[k].entity]] = [k \in 1 .. Len(cs) |-> f[k] * UnitVolume]
      BY <3>3, <3>4, <3>6 DEF InStack
    <3>9. SumFunction([k \in 1 .. Len(cs) |-> f[k] * UnitVolume]) = UnitVolume * SumFunction(f)
      <4>1. UnitVolume \in Int
        BY StacksAssumption DEF StacksAssumption
      <4> QED
        BY <3>7, <4>1, SumScaled
    <3>10. volume[s] = SumFunction([k \in DOMAIN cs |-> cs[k].count * volume[cs[k].entity]])
      BY <3>5, <3>7, <3>8, <3>9
    <3>11. \A k \in DOMAIN cs : /\ cs[k].count > 0 /\ stack_of[cs[k].entity] = s
                                /\ cs[k].entity \notin loose \cup Stacked
      BY <3>3, <3>4 DEF InStack, Stacked
    <3> QED
      BY <3>1, <3>2, <3>4, <3>10, <3>11 DEF Counted
  <2> QED
    BY <1>1, <2>1 DEF StacksValid, StacksInv, NothingMissing
<1> QED
  BY <1>1, StacksInvariant, PTL

=============================================================================
