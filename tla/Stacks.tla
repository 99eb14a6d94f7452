------------------------------- MODULE Stacks -------------------------------
(***************************************************************************)
(* Stacks of items of one kind (item/stack.rs, item/containers.rs): loose  *)
(* items become a stack, join one, and part of a stack is split off into   *)
(* another.  A stack keeps a queue of entities; one that can be copied may *)
(* stand for several identical items.                                      *)
(***************************************************************************)
EXTENDS Integers, Sequences, FiniteSets, SequencesExt, FiniteSetsExt, Functions

CONSTANTS
    Piece,       \* items that are in the world to begin with
    Spare,       \* entities that are created for stacks and for copies
    Copyable,    \* items without a component that must not be cloned
    Identical,   \* pairs that World::is_identical takes for one (EcsWorld: none yet)
    UnitVolume,  \* the volume of an item, the same for the whole kind
    MaxCount,    \* StackableComponent::max_count
    NoStack

\* Entities can be told apart; a stack has a max_count, which is a NonZeroU16.
ASSUME StacksAssumption ==
    /\ IsFiniteSet(Piece) /\ IsFiniteSet(Spare) /\ Piece \cap Spare = {}
    /\ NoStack \notin Piece \cup Spare /\ UnitVolume \in Nat /\ MaxCount \in Nat \ {0}

VARIABLES
    stack,      \* ItemStackComponent of the entities that have one
    loose,      \* items with a transform, alone in the world
    stack_of,   \* ContainedInComponent::StackOf
    volume,     \* PhysicalComponent::volume
    original    \* of which item an entity is a clone

stvars == <<stack, loose, stack_of, volume, original>>

Entity == Piece \cup Spare
NotAStack == [contents |-> <<>>, total |-> 0]
Stacked == {s \in Entity : stack[s].total > 0}
Free == {e \in Spare : original[e] = NoStack}
CanCopy(e) == original[e] \in Copyable
Entry(e, n) == [entity |-> e, count |-> n]

StacksInit ==
    /\ stack = [e \in Entity |-> NotAStack]
    /\ loose = Piece
    /\ stack_of = [e \in Entity |-> NoStack]
    /\ volume = [e \in Entity |-> IF e \in Piece THEN UnitVolume ELSE 0]
    /\ original = [e \in Entity |-> IF e \in Piece THEN e ELSE NoStack]

\* Where add_internal finds an entity that can stand for e as well, or 0.
CollapseInto(contents, e) ==
    IF ~CanCopy(e) THEN 0
    ELSE SelectInSeq(contents, LAMBDA x :
            CanCopy(x.entity) /\ <<original[e], original[x.entity]>> \in Identical)

AddInternal(st, e) ==
    LET k == CollapseInto(st.contents, e) IN
    [contents |-> IF k = 0 THEN Append(st.contents, Entry(e, 1))
                  ELSE [st.contents EXCEPT ![k].count = @ + 1],
     total |-> st.total + 1]

\* convert_to_stack: the stack is a new entity with the item's components.
ConvertToStack(i) ==
    /\ i \in loose
    /\ \E s \in Free :
          /\ stack' = [stack EXCEPT ![s] = AddInternal(NotAStack, i)]
          /\ stack_of' = [stack_of EXCEPT ![i] = s]
          /\ volume' = [volume EXCEPT ![s] = volume[i]]
          /\ original' = [original EXCEPT ![s] = original[i]]
    /\ loose' = loose \ {i}

\* add_to_stack: an identical entity swallows the item, which is killed.
AddToStack(s, i) ==
    /\ s \in Stacked /\ i \in loose
    /\ stack[s].total < MaxCount
    /\ stack' = [stack EXCEPT ![s] = AddInternal(@, i)]
    /\ stack_of' = IF CollapseInto(stack[s].contents, i) = 0
                   THEN [stack_of EXCEPT ![i] = s] ELSE stack_of
    /\ volume' = [volume EXCEPT ![s] = @ + volume[i]]
    /\ loose' = loose \ {i}
    /\ UNCHANGED original

\* How many items the first k entities of a stack stand for.
Before(contents, k) == SumFunction([j \in 1..k |-> contents[j].count])

\* Mutant of MoveCount: the entity that makes up the number is not moved whole.
MoveCountLess(contents, n) == Max({k \in 0..Len(contents) : Before(contents, k) < n})

\* How many entities split_off moves as they are; of the next one it takes the items
\* that are missing, for which a copy is made.
MoveCount(contents, n) == Max({k \in 0..Len(contents) : Before(contents, k) <= n})

\* split_stack.  The copy takes the place of its original in the new stack.
SplitStack(s, n) ==
    LET old == stack[s].contents
        k == MoveCount(old, n)
        moved == SubSeq(old, 1, k)
        part == n - Before(old, k)
        kept == IF part = 0 THEN SubSeq(old, k + 1, Len(old))
                ELSE <<[old[k + 1] EXCEPT !.count = @ - part]>> \o SubSeq(old, k + 2, Len(old))
        MovedTotal == UnitVolume * n
    IN
    /\ s \in Stacked /\ n \in 1..(stack[s].total - 1)
    /\ \E t \in Free : \E c \in IF part = 0 THEN {NoStack} ELSE Free \ {t} :
          /\ stack' = [stack EXCEPT
                ![s] = [contents |-> kept, total |-> @.total - n],
                ![t] = [contents |-> moved \o IF part = 0 THEN <<>> ELSE <<Entry(c, part)>>,
                        total |-> n]]
          /\ stack_of' = [e \in Entity |->
                IF e = c \/ \E j \in 1..k : moved[j].entity = e THEN t ELSE stack_of[e]]
          /\ volume' = [e \in Entity |-> CASE e = s -> volume[s] - MovedTotal
                                           [] e = t -> MovedTotal
                                           [] e = c -> volume[old[k + 1].entity]
                                           [] OTHER -> volume[e]]
          /\ original' = [e \in Entity |-> CASE e = t -> original[s]
                                             [] e = c -> original[old[k + 1].entity]
                                             [] OTHER -> original[e]]
    /\ UNCHANGED loose

StacksNext ==
    \/ \E i \in Piece : ConvertToStack(i) \/ \E s \in Entity : AddToStack(s, i)
    \/ \E s \in Entity, n \in 1..MaxCount : SplitStack(s, n)

StacksSpec == StacksInit /\ [][StacksNext]_stvars

----------------------------------------------------------------------------
\* InventoryValidationSystem (validate_stack): a stack's count and volume are those
\* of its entities, which are in no other stack, stand for an item each and know where they are.  And
\* however often items were stacked, swallowed, split and copied, none was lost.
StacksValid ==
    /\ \A s \in Stacked :
          LET cs == stack[s].contents IN
          /\ stack[s].total = Before(cs, Len(cs)) /\ stack[s].total <= MaxCount
          /\ volume[s] = SumFunction([k \in DOMAIN cs |-> cs[k].count * volume[cs[k].entity]])
          /\ \A k \in DOMAIN cs :
                /\ cs[k].count > 0
                /\ stack_of[cs[k].entity] = s /\ cs[k].entity \notin loose \cup Stacked
          /\ \A j, k \in DOMAIN cs : cs[j].entity = cs[k].entity => j = k
    /\ Cardinality(Piece) = Cardinality(loose) + SumFunction([s \in Entity |-> stack[s].total])
=============================================================================
