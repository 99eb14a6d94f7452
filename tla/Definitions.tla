----------------------------- MODULE Definitions -----------------------------
(***************************************************************************)
(* Entity definitions (definitions/): raw definitions are validated, each  *)
(* is linked to its parent, inherits the components of its ancestors, and  *)
(* those that are not abstract are built from their templates and          *)
(* registered.  Parents are linked and inheritance is applied in the order *)
(* of the values of a HashMap, that is in any order.                       *)
(***************************************************************************)
EXTENDS Integers, Sequences, FiniteSets, SequencesExt, TLC

CONSTANTS
    NoParent,    \* the empty string
    RawFiles,    \* sequences of definitions, as they are read
    Templates    \* names of the components that have a template

VARIABLES
    raw,       \* what was read, see RawFiles
    edges,     \* of the Dag: <<definition, parent>>, by their place in raw
    comps,     \* processed_components of each
    todo,      \* uids that the current pass has not come to
    wrong,     \* DefinitionErrors: <<uid, kind>>
    stage,     \* which pass
    registry   \* DefinitionRegistry: uid |-> components

defVars == <<raw, edges, comps, todo, wrong, stage, registry>>

----------------------------------------------------------------------------
\* ComponentFields
Fields(f) == [kind |-> "fields", fields |-> f]
Unit == [kind |-> "unit", fields |-> <<>>]
Negate == [kind |-> "negate", fields |-> <<>>]
Unreachable == [kind |-> "unreachable", fields |-> <<>>]

\* Mutant of Combine: a field that the parent has is not overridden.
CombineOld(mine, other) ==
    CASE mine = Unreachable -> mine
      [] other \in {Negate, Unit} -> other
      [] mine = Unit -> mine
      [] mine = Negate -> Unreachable
      [] OTHER -> Fields(mine.fields @@ other.fields)

\* ComponentFields::override_with
Combine(mine, other) ==
    CASE mine = Unreachable -> mine
      [] other \in {Negate, Unit} -> other
      [] mine = Unit -> mine
      [] mine = Negate -> Unreachable
      [] OTHER -> Fields(other.fields @@ mine.fields)

\* ProcessedComponents::override_with, clean_negated
Override(mine, other) ==
    [n \in DOMAIN mine \cup DOMAIN other |->
        IF n \notin DOMAIN mine THEN other[n]
        ELSE IF n \notin DOMAIN other THEN mine[n]
        ELSE Combine(mine[n], other[n])]
CleanNegated(cs) == [n \in {m \in DOMAIN cs : cs[m] # Negate} |-> cs[n]]

\* The uids are looked up in a map, in which the last of a name stays.
Lookup(uid) ==
    CHOOSE i \in DOMAIN raw : raw[i].uid = uid /\ \A j \in DOMAIN raw : raw[j].uid = uid => j <= i
Uids == {raw[i].uid : i \in DOMAIN raw}

\* A walk from i along the edges; each definition has one at most.
Walk[path \in Seq(DOMAIN raw)] ==
    LET over == {e[2] : e \in {f \in edges : f[1] = Last(path)}} IN
    IF over = {} THEN path ELSE Walk[Append(path, CHOOSE p \in over : TRUE)]
PathToRoot(i) == Walk[<<i>>]

----------------------------------------------------------------------------
Error(uid, kind) == {<<uid, kind>>}

\* validate_and_process_components, and which definitions have a name that another takes.
DefinitionsInit ==
    /\ raw \in RawFiles
    /\ comps = [i \in DOMAIN raw |-> IF raw[i].sound THEN raw[i].components ELSE <<>>]
    /\ wrong = UNION {IF raw[i].sound THEN {} ELSE Error(raw[i].uid, "Format") : i \in DOMAIN raw}
                \cup UNION {IF i = Lookup(raw[i].uid) THEN {} ELSE Error(raw[i].uid, "DuplicateUid") :
                                i \in DOMAIN raw}
    /\ edges = {} /\ todo = Uids /\ stage = "link" /\ registry = <<>>

\* add_link, which refuses an edge that would close a cycle.
AddLink(uid) ==
    LET i == Lookup(uid)
        parent == raw[i].parent
        cyclic == i \in ToSet(PathToRoot(Lookup(parent))) IN
    /\ stage = "link" /\ uid \in todo /\ todo' = todo \ {uid}
    /\ CASE parent = NoParent -> UNCHANGED <<edges, wrong>>
         [] parent # NoParent /\ parent \notin Uids ->
                wrong' = wrong \cup Error(uid, "InvalidParent") /\ UNCHANGED edges
         [] parent \in Uids /\ cyclic ->
                wrong' = wrong \cup Error(uid, "CyclicParentRelation") /\ UNCHANGED edges
         [] OTHER -> edges' = edges \cup {<<i, Lookup(parent)>>} /\ UNCHANGED wrong
    /\ UNCHANGED <<raw, comps, stage, registry>>

Linked ==
    /\ stage = "link" /\ todo = {}
    /\ stage' = "inherit" /\ todo' = Uids
    /\ UNCHANGED <<raw, edges, comps, wrong, registry>>

\* Apply the overrides of one definition: from the root's components down to its own, as
\* they are by now, and put the result in their place.
ApplyInheritance(uid) ==
    LET i == Lookup(uid)
        result == FoldRight(LAMBDA j, cs : Override(cs, comps[j]), Front(PathToRoot(i)),
                            comps[Last(PathToRoot(i))])
    IN
    /\ stage = "inherit" /\ uid \in todo /\ todo' = todo \ {uid}
    /\ comps' = [comps EXCEPT ![i] = CleanNegated(result)]
    /\ stage' = IF \E n \in DOMAIN result : result[n] = Unreachable THEN "panicked" ELSE stage
    /\ UNCHANGED <<raw, edges, wrong, registry>>

\* The abstract definitions are left out; the others are built and registered, each
\* under its name, unless there is an error anywhere.
Instantiate ==
    LET real == {i \in DOMAIN raw : ~raw[i].abstract}
        unknown == UNION {IF DOMAIN comps[i] \subseteq Templates THEN {}
                          ELSE Error(raw[i].uid, "NoSuchComponent") : i \in real}
    IN
    /\ stage = "inherit" /\ todo = {}
    /\ IF wrong \cup unknown = {}
       THEN /\ stage' = "loaded"
            /\ registry' = [uid \in {raw[i].uid : i \in real} |-> comps[Lookup(uid)]]
            /\ UNCHANGED wrong
       ELSE /\ stage' = "failed"
            /\ wrong' = IF wrong # {} THEN wrong ELSE unknown
            /\ UNCHANGED registry
    /\ UNCHANGED <<raw, edges, comps, todo>>

DefinitionsNext ==
    \/ \E uid \in Uids : AddLink(uid) \/ ApplyInheritance(uid)
    \/ Linked
    \/ Instantiate

DefinitionsSpec == DefinitionsInit /\ [][DefinitionsNext]_defVars

----------------------------------------------------------------------------
\* The ancestors of a definition, itself first, by the names in the files alone.
ParentOf(i) == {j \in DOMAIN raw : raw[j].uid = raw[i].parent}
Ancestors(i) ==
    LET Up[n \in Nat] == IF n = 0 THEN {i} ELSE UNION {ParentOf(j) : j \in Up[n - 1]}
    IN UNION {Up[n] : n \in 0 .. Len(raw)}
\* What a definition says of component n, and the nearest of its line that says something.
Says(i, n) == n \in DOMAIN raw[i].components
Negates(i, n) == Says(i, n) /\ raw[i].components[n] = Negate
Nearest(i, P(_)) ==
    CHOOSE j \in Ancestors(i) : P(j) /\ \A k \in Ancestors(i) : P(k) => k \in {j} \cup UNION {Ancestors(l) : l \in ParentOf(j)}
Component(i, n) ==
    LET mentions == {raw[j].components[n] : j \in {k \in Ancestors(i) : Says(k, n)}}
        names == UNION {DOMAIN m.fields : m \in mentions}
        Has(f, j) == Says(j, n) /\ f \in DOMAIN raw[j].components[n].fields
    IN IF Unit \in mentions THEN Unit
       ELSE Fields([f \in names |-> raw[Nearest(i, LAMBDA j : Has(f, j))].components[n].fields[f]])

IsWrong ==
    \/ \E i \in DOMAIN raw : ~raw[i].sound
    \/ \E i, j \in DOMAIN raw : i # j /\ raw[i].uid = raw[j].uid
    \/ \E i \in DOMAIN raw : raw[i].parent \notin Uids \cup {NoParent}
    \/ \E i \in DOMAIN raw : \E j \in ParentOf(i) : i \in Ancestors(j)

\* A set of definitions is loaded whole or not at all, and it is refused just if there is
\* something wrong with it, in whatever order the map gives them.  What is loaded has all
\* that is real and no component is negated, which the building of components takes for
\* granted; and a component that nobody in its line negates it has just if one of them
\* does, each field as the nearest says, although its ancestors may have been processed
\* before it or after it.
DefinitionsAreSound ==
    /\ stage \in {"loaded", "panicked"} /\ IsWrong => stage = "panicked" /\ wrong # {}
    /\ stage = "failed" => IsWrong \/ \E i \in DOMAIN raw : ~(DOMAIN comps[i] \subseteq Templates)
    /\ stage = "loaded" =>
        /\ DOMAIN registry = {raw[i].uid : i \in {j \in DOMAIN raw : ~raw[j].abstract}}
        /\ \A i \in {j \in DOMAIN raw : ~raw[j].abstract} :
            LET has == registry[raw[i].uid] IN
            /\ \A n \in DOMAIN has : has[n] # Negate
            /\ \A n \in Templates : (\A j \in Ancestors(i) : ~Negates(j, n)) =>
                /\ n \in DOMAIN has <=> \E j \in Ancestors(i) : Says(j, n)
                /\ n \in DOMAIN has => has[n] = Component(i, n)

\* What a definition removes its children do not have, unless one of them adds it again.
RemovedStaysRemoved ==
    stage = "loaded" =>
        \A i \in {j \in DOMAIN raw : ~raw[j].abstract}, n \in Templates :
            (\E j \in Ancestors(i) : Says(j, n)) /\ Negates(Nearest(i, LAMBDA j : Says(j, n)), n) =>
                n \notin DOMAIN registry[raw[i].uid]
=============================================================================
