--------------------------- MODULE RegionLoading ----------------------------
(***************************************************************************)
(* How the regions of a planet are loaded by concurrent requests           *)
(* (procgen/src/region/regions.rs, region.rs, feature.rs).                 *)
(*                                                                         *)
(* Each region has a load state behind a read-write lock of its own.  A    *)
(* request for a region (get_or_create) marks it and its neighbours as     *)
(* requested, spawns a task for each, waits for them all, and calls the    *)
(* region fully loaded.  A region is created by the first task that gets   *)
(* to it.  Its creation looks for a forest, and hands the forest over to   *)
(* the neighbours that it overflows into, through continuations that all   *)
(* share behind one mutex; where two forests meet one absorbs the other.   *)
(*                                                                         *)
(* All of them run on several threads: a step ends where another thread    *)
(* can tell the difference, at a lock or an await.  Locks are granted in   *)
(* any order.  Debug assertions are compiled out; a panic ends its task,   *)
(* and then the request that joins it, releasing what they hold.           *)
(***************************************************************************)
EXTENDS Integers, FiniteSets

CONSTANTS
    Region,
    Distance,       \* between two regions, 1 between neighbours
    Line,           \* the regions strictly between two
    Forest,         \* regions that have a forest
    Overflows,      \* the neighbours that a region's forest continues into
    Call,           \* requests that may be under way at a time
    Wanted,         \* the regions they may be for
    NoOne, NoFeature

Neighbours(r) == {n \in Region : Distance[r][n] = 1}

ASSUME DistanceAssumption ==
    /\ Distance \in [Region -> [Region -> Nat]]
    /\ \A r, n \in Region : Distance[r][n] = Distance[n][r]
    /\ Line \in [Region -> [Region -> SUBSET Region]]
    /\ \A r, n \in Region : r \notin Line[r][n] /\ n \notin Line[r][n]
ASSUME ForestAssumption ==
    /\ Forest \subseteq Region /\ Wanted \subseteq Region
    /\ Overflows \in [Region -> SUBSET Region]
    /\ \A r \in Region : Overflows[r] \subseteq Neighbours(r)
    /\ \A r \in Region \ Forest : Overflows[r] = {}
ASSUME NoneAssumption == NoOne \notin Call \cup Region /\ NoFeature \notin Region

VARIABLES
    state,          \* RegionLoadState of each region
    requested_type, \* its RequestedType, once it is requested
    writer, readers,\* the calls that hold its lock from one step to the next
    is_initial_region,
    pc, target,     \* of each call: where it is, and the region it is for
    central,        \* WaitOnCentral, or "InProgress" to wait for its channel
    task,           \* the request_region tasks of each call
    work,           \* the creation of each region
    todo,           \* neighbours that it has still to consider
    this_feature,   \* the feature it has found or created; it is named after the
                    \* region that created it
    continuation,   \* what it took from region_continuations
    replacing,      \* <<keep, replace>> while it merges two features
    mutex,          \* the region whose creation holds region_continuations
    region_continuations, \* of each region: the features of its neighbours
    features,       \* Region.features
    members,        \* RegionalFeature.regions
    gutted          \* features whose boundary is empty

lockvars == <<writer, readers>>
callvars == <<is_initial_region, pc, target, central>>
createvars == <<work, todo, this_feature, continuation, replacing>>
featurevars == <<features, members, gutted>>
contvars == <<mutex, region_continuations>>
statevars == <<state, requested_type>>
rlvars == <<statevars, lockvars, callvars, task, createvars, contvars, featurevars>>

Feature == Region
Loaded == {"Partially", "Fully"}
IsLoaded(r) == state[r] \in Loaded

RegionTypeOK ==
    /\ state \in [Region -> {"Unloaded", "Requested", "InProgress"} \cup Loaded]
    /\ requested_type \in [Region -> {"Central", "Neighbour"}]
    /\ writer \in [Region -> Call \cup {NoOne}] /\ readers \in [Region -> SUBSET Call]
    /\ \A r \in Region : writer[r] = NoOne \/ readers[r] = {}
    /\ is_initial_region \in BOOLEAN
    /\ pc \in [Call -> {"idle", "fast", "want", "scan", "line", "mark", "join", "upgrade",
                        "holding", "done", "panicked"}]
    /\ target \in [Call -> Region]
    /\ central \in [Call -> {"Nope", "Wait", "RequestAndWait", "InProgress"}]
    /\ task \in [Call -> [Region -> {"none", "request", "create", "wait", "done", "panicked"}]]
    /\ work \in [Region -> {"none", "chunks", "spread", "merge", "unreachable", "add", "finish",
                          "done", "panicked"}]
    /\ todo \in [Region -> SUBSET Region]
    /\ this_feature \in [Region -> Feature \cup {NoFeature}]
    /\ continuation \in [Region -> SUBSET (Region \X Feature)]
    /\ replacing \in [Region -> (Feature \cup {NoFeature}) \X (Feature \cup {NoFeature})]
    /\ mutex \in Region \cup {NoOne}
    /\ region_continuations \in [Region -> SUBSET (Region \X Feature)]
    /\ features \in [Region -> Feature \cup {NoFeature}]
    /\ members \in [Feature -> SUBSET Region]
    /\ gutted \subseteq Feature

RegionInit ==
    /\ state = [r \in Region |-> "Unloaded"]
    /\ requested_type = [r \in Region |-> "Neighbour"]
    /\ writer = [r \in Region |-> NoOne] /\ readers = [r \in Region |-> {}]
    /\ is_initial_region = TRUE
    /\ pc = [c \in Call |-> "idle"]
    /\ target \in [Call -> Wanted]
    /\ central = [c \in Call |-> "Nope"]
    /\ task = [c \in Call |-> [r \in Region |-> "none"]]
    /\ work = [r \in Region |-> "none"]
    /\ todo = [r \in Region |-> {}]
    /\ this_feature = [r \in Region |-> NoFeature]
    /\ continuation = [r \in Region |-> {}]
    /\ replacing = [r \in Region |-> <<NoFeature, NoFeature>>]
    /\ mutex = NoOne
    /\ region_continuations = [r \in Region |-> {}]
    /\ features = [r \in Region |-> NoFeature]
    /\ members = [f \in Feature |-> {}]
    /\ gutted = {}

-----------------------------------------------------------------------------
(* Locks, and marking regions as requested. *)

Readable(r) == writer[r] = NoOne
Free(r) == writer[r] = NoOne /\ readers[r] = {}
AddReader(c, r) == readers' = [readers EXCEPT ![r] = @ \cup {c}]
DropReader(c, r) == readers' = [readers EXCEPT ![r] = @ \ {c}]
GoTo(c, p) == pc' = [pc EXCEPT ![c] = p]

\* Somebody else may just be reading the region: to find a loaded one, or to see
\* whether the neighbour of a region with a forest is loaded.
LookedAt(c, r) ==
    \/ \E d \in Call \ {c} : pc[d] = "scan"
    \/ \E x \in Region : work[x] = "spread" /\ r \in todo[x]

\* Mutant: a region is marked whatever its state is.
MarkOverwriting(c, regions) == {{r \in regions : Free(r) /\ ~IsLoaded(r)}}

\* try_write fails, and leaves a region as it is, when its lock is taken just then.
CanMark(c, regions) ==
    LET unloaded == {r \in regions : Free(r) /\ state[r] = "Unloaded"}
    IN  {marked \in SUBSET unloaded : \A r \in unloaded : r \in marked \/ LookedAt(c, r)}

-----------------------------------------------------------------------------
(* A request: get_or_create *)

\* The fast path looks at the region with a read lock only, ...
Request(c) ==
    LET r == target[c] IN
    /\ pc[c] = "idle" /\ Readable(r)
    /\ AddReader(c, r)
    /\ GoTo(c, "fast")
    /\ UNCHANGED <<statevars, writer, is_initial_region, target, central, task, createvars,
                   contvars, featurevars>>

\* ... which becomes the reference that is returned, if the region is fully loaded.
FastPath(c) ==
    LET r == target[c] IN
    /\ pc[c] = "fast"
    /\ IF state[r] = "Fully"
       THEN GoTo(c, "holding") /\ UNCHANGED readers
       ELSE GoTo(c, "want") /\ DropReader(c, r)
    /\ UNCHANGED <<statevars, writer, is_initial_region, target, central, task, createvars,
                   contvars, featurevars>>

\* The write lock is kept if the region is unloaded, until it has been marked.
LookUnloaded(c) ==
    LET r == target[c] IN
    /\ pc[c] = "want" /\ Free(r) /\ state[r] = "Unloaded"
    /\ writer' = [writer EXCEPT ![r] = c]
    /\ central' = [central EXCEPT ![c] = "RequestAndWait"]
    /\ is_initial_region' = FALSE
    /\ GoTo(c, IF is_initial_region THEN "mark" ELSE "scan")
    /\ UNCHANGED <<statevars, readers, target, task, createvars, contvars, featurevars>>

LookStarted(c) ==
    LET r == target[c] IN
    /\ pc[c] = "want" /\ Free(r)
    /\ state[r] \in {"Requested", "InProgress", "Partially"}
    /\ central' = [central EXCEPT ![c] = CASE state[r] = "Requested" -> "Wait"
                                           [] state[r] = "InProgress" -> "InProgress"
                                           [] state[r] = "Partially" -> "Nope"]
    /\ GoTo(c, IF state[r] = "InProgress" /\ requested_type[r] = "Central" THEN "join" ELSE "mark")
    /\ UNCHANGED <<statevars, lockvars, is_initial_region, target, task, createvars, contvars,
                   featurevars>>

LookFully(c) ==
    LET r == target[c] IN
    /\ pc[c] = "want" /\ Free(r) /\ state[r] = "Fully"
    /\ AddReader(c, r)
    /\ GoTo(c, "holding")
    /\ UNCHANGED <<statevars, writer, is_initial_region, target, central, task, createvars,
                   contvars, featurevars>>

\* The nearest region that is not unloaded, or whose lock is taken.
Nearest(r) ==
    LET begun == {n \in Region \ {r} : ~Readable(n) \/ state[n] # "Unloaded"}
    IN  {n \in begun : \A o \in begun : Distance[r][n] <= Distance[r][o]}

\* find_load_source found a region that is near enough, ...
ScanNear(c) ==
    LET r == target[c] IN
    /\ pc[c] = "scan"
    /\ \E n \in Nearest(r) : Distance[r][n] <= 2
    /\ GoTo(c, "mark")
    /\ UNCHANGED <<statevars, lockvars, is_initial_region, target, central, task, createvars,
                   contvars, featurevars>>

\* ... or the regions on the line to it are loaded first.
ScanFar(c) ==
    LET r == target[c] IN
    /\ pc[c] = "scan"
    /\ \E n \in Nearest(r) :
          /\ Distance[r][n] > 2
          /\ task' = [task EXCEPT ![c] = [x \in Region |->
                          IF x \in Line[n][r] THEN "request" ELSE "none"]]
          /\ \E marked \in CanMark(c, Line[n][r]) :
                /\ state' = [x \in Region |-> IF x \in marked THEN "Requested" ELSE state[x]]
                /\ requested_type' = [x \in Region |->
                          IF x \in marked THEN "Neighbour" ELSE requested_type[x]]
    /\ GoTo(c, "line")
    /\ UNCHANGED <<lockvars, is_initial_region, target, central, createvars, contvars, featurevars>>

\* Mutant: a request goes on when the first of its tasks is done.
JoinedFirst(c) == \E x \in Region : task[c][x] \in {"done", "panicked"}
Joined(c) == \A x \in Region : task[c][x] \in {"none", "done", "panicked"}
Panicked(c) == \E x \in Region : task[c][x] = "panicked"

LineLoaded(c) ==
    /\ pc[c] = "line" /\ Joined(c)
    /\ GoTo(c, IF Panicked(c) THEN "panicked" ELSE "mark")
    /\ writer' = IF Panicked(c) THEN [writer EXCEPT ![target[c]] = NoOne] ELSE writer
    /\ UNCHANGED <<statevars, readers, is_initial_region, target, central, task, createvars,
                   contvars, featurevars>>

\* request_all_neighbours: mark the neighbours, and the region itself if its lock
\* is still held, and spawn their tasks.
RequestAllNeighbours(c) ==
    LET r == target[c]
        owned == IF central[c] = "RequestAndWait" THEN {r} ELSE {}
        awaited == IF central[c] \in {"Wait", "RequestAndWait"} THEN {r} ELSE {}
    IN
    /\ pc[c] = "mark"
    /\ \E marked \in CanMark(c, Neighbours(r)) :
          /\ state' = [x \in Region |-> IF x \in marked \cup owned THEN "Requested" ELSE state[x]]
          /\ requested_type' = [x \in Region |-> IF x \in owned THEN "Central"
                                                 ELSE IF x \in marked THEN "Neighbour"
                                                 ELSE requested_type[x]]
    /\ task' = [task EXCEPT ![c] = [x \in Region |->
                    IF x \in Neighbours(r) \cup awaited THEN "request" ELSE "none"]]
    /\ writer' = [x \in Region |-> IF x \in owned THEN NoOne ELSE writer[x]]
    /\ GoTo(c, "join")
    /\ UNCHANGED <<readers, is_initial_region, target, central, createvars, contvars, featurevars>>

AllLoaded(c) ==
    /\ pc[c] = "join" /\ Joined(c)
    /\ central[c] = "InProgress" => state[target[c]] # "InProgress" \/ Panicked(c)
    /\ GoTo(c, IF Panicked(c) THEN "panicked" ELSE "upgrade")
    /\ UNCHANGED <<statevars, lockvars, is_initial_region, target, central, task, createvars,
                   contvars, featurevars>>

\* upgrade_from_partially_to_fully; the write lock is downgraded.  That the region
\* is not loaded by now would be a panic: here the request would never end.
Upgrade(c) ==
    LET r == target[c] IN
    /\ pc[c] = "upgrade" /\ Free(r) /\ IsLoaded(r)
    /\ state' = [state EXCEPT ![r] = "Fully"]
    /\ AddReader(c, r)
    /\ GoTo(c, "holding")
    /\ UNCHANGED <<requested_type, writer, is_initial_region, target, central, task, createvars,
                   contvars, featurevars>>

\* A slab has been generated, and LoadedRegionRef is dropped.
Release(c) ==
    /\ pc[c] = "holding"
    /\ DropReader(c, target[c])
    /\ GoTo(c, "done")
    /\ UNCHANGED <<statevars, writer, is_initial_region, target, central, task, createvars,
                   contvars, featurevars>>

-----------------------------------------------------------------------------
(* Its tasks: request_region, create_single_region *)

SetTask(c, r, s) == task' = [task EXCEPT ![c][r] = s]

RequestUnloaded(c, r) ==
    /\ task[c][r] = "request" /\ Free(r) /\ state[r] = "Unloaded"
    /\ SetTask(c, r, "panicked")
    /\ UNCHANGED <<statevars, lockvars, callvars, createvars, contvars, featurevars>>

\* Mutant: the region is not reserved by the task that creates it.
RequestFirstUnreserved(c, r) ==
    /\ task[c][r] = "request" /\ Free(r) /\ state[r] = "Requested"
    /\ SetTask(c, r, "create")
    /\ work' = [work EXCEPT ![r] = "chunks"]
    /\ UNCHANGED <<statevars, lockvars, callvars, todo, this_feature, continuation,
                   replacing, contvars, featurevars>>

RequestFirst(c, r) ==
    /\ task[c][r] = "request" /\ Free(r) /\ state[r] = "Requested"
    /\ state' = [state EXCEPT ![r] = "InProgress"]
    /\ SetTask(c, r, "create")
    /\ work' = [work EXCEPT ![r] = "chunks"]
    /\ UNCHANGED <<requested_type, lockvars, callvars, todo, this_feature, continuation,
                   replacing, contvars, featurevars>>

RequestStarted(c, r) ==
    /\ task[c][r] = "request" /\ Free(r) /\ state[r] \in {"InProgress"} \cup Loaded
    /\ SetTask(c, r, IF IsLoaded(r) THEN "done" ELSE "wait")
    /\ UNCHANGED <<statevars, lockvars, callvars, createvars, contvars, featurevars>>

\* The channel in the region's state is closed when the state is overwritten.
ChannelCloses(c, r) ==
    /\ task[c][r] = "wait" /\ state[r] # "InProgress"
    /\ SetTask(c, r, "done")
    /\ UNCHANGED <<statevars, lockvars, callvars, createvars, contvars, featurevars>>

\* The task that creates the region ends with its creation.
EndCreation(r, s) ==
    task' = [c \in Call |-> IF task[c][r] = "create" THEN [task[c] EXCEPT ![r] = s] ELSE task[c]]

\* discover_regional_features of a region without a forest drops its continuations;
\* otherwise the mutex is kept until all neighbours have been considered.
TakeContinuations(r) ==
    /\ work[r] = "chunks" /\ mutex = NoOne
    /\ region_continuations' = [region_continuations EXCEPT ![r] = {}]
    /\ IF r \in Forest
       THEN /\ work' = [work EXCEPT ![r] = "spread"]
            /\ mutex' = r
            /\ continuation' = [continuation EXCEPT ![r] = region_continuations[r]]
            /\ todo' = [todo EXCEPT ![r] = Overflows[r]]
       ELSE /\ work' = [work EXCEPT ![r] = "finish"]
            /\ UNCHANGED <<mutex, continuation, todo>>
    /\ UNCHANGED <<statevars, lockvars, callvars, task, this_feature, replacing, featurevars>>

\* Continuations hold weak references.
StrongRefs == {features[r] : r \in Region} \cup {this_feature[r] : r \in Region}
Continued(r, n) ==
    {f \in StrongRefs \ gutted : <<n, f>> \in continuation[r]}

\* Neighbours with a continuation come first.
IsNext(r, n) ==
    /\ work[r] = "spread" /\ n \in todo[r]
    /\ \A o \in todo[r] : (\E f \in Feature : <<o, f>> \in continuation[r])
                             => \E f \in Feature : <<n, f>> \in continuation[r]

\* A neighbour's feature becomes that of the region, if it has none yet.
UseTheirs(r, n) ==
    /\ IsNext(r, n)
    /\ \E f \in Continued(r, n) :
          /\ this_feature[r] \in {f, NoFeature}
          /\ this_feature' = [this_feature EXCEPT ![r] = f]
    /\ todo' = [todo EXCEPT ![r] = @ \ {n}]
    /\ UNCHANGED <<statevars, lockvars, callvars, task, work, continuation, replacing, contvars,
                   featurevars>>

\* The region's own feature goes to the continuations of a neighbour that is not
\* loaded, which takes a read lock to see.
OfferOurs(r, n) ==
    LET f == IF this_feature[r] = NoFeature THEN r ELSE this_feature[r] IN
    /\ IsNext(r, n) /\ Continued(r, n) = {} /\ Readable(n)
    /\ this_feature' = [this_feature EXCEPT ![r] = f]
    /\ region_continuations' = IF IsLoaded(n) THEN region_continuations
                               ELSE [region_continuations EXCEPT ![n] = @ \cup {<<r, f>>}]
    /\ todo' = [todo EXCEPT ![r] = @ \ {n}]
    /\ UNCHANGED <<statevars, lockvars, callvars, task, work, continuation, replacing, mutex,
                   featurevars>>

HasGenerated(f) == f \notin gutted /\ \E x \in members[f] : state[x] = "Fully"

\* resolve_feature_replacement keeps a feature that has generated terrain; it is
\* unreachable!() that both have.
ChooseFeature(r, n) ==
    LET ours == this_feature[r] IN
    /\ IsNext(r, n)
    /\ \E theirs \in Continued(r, n) \ {ours} :
          /\ ours # NoFeature
          /\ \A x \in members[ours] \cup members[theirs] : Readable(x)
          /\ work' = [work EXCEPT ![r] =
                  IF HasGenerated(ours) /\ HasGenerated(theirs) THEN "unreachable" ELSE "merge"]
          /\ replacing' = [replacing EXCEPT ![r] =
                  IF HasGenerated(theirs) THEN <<theirs, ours>> ELSE <<ours, theirs>>]
    /\ todo' = [todo EXCEPT ![r] = @ \ {n}]
    /\ UNCHANGED <<statevars, lockvars, callvars, task, this_feature, continuation, contvars,
                   featurevars>>

ReplaceIn(conts, f, g) == {IF p[2] = f THEN <<p[1], g>> ELSE p : p \in conts}

\* One feature absorbs the other, and the other's regions are pointed at it.
MergeFeatures(r) ==
    LET keep == replacing[r][1]
        replace == replacing[r][2]
        outdated == members[replace]
    IN
    /\ work[r] = "merge"
    /\ \A x \in outdated : Free(x) /\ IsLoaded(x)
    /\ gutted' = gutted \cup {replace}
    /\ members' = [members EXCEPT ![replace] = {}, ![keep] = @ \cup outdated]
    /\ features' = [x \in Region |->
                        IF x \in outdated /\ features[x] = replace THEN keep ELSE features[x]]
    /\ region_continuations' =
          [x \in Region |-> ReplaceIn(region_continuations[x], replace, keep)]
    /\ this_feature' = [this_feature EXCEPT ![r] = keep]
    /\ work' = [work EXCEPT ![r] = "spread"]
    /\ UNCHANGED <<statevars, lockvars, callvars, task, todo, continuation, replacing, mutex>>

\* It is unreachable!() that one of them is still being created, but the other
\* feature is gutted by then, and the regions before it have been pointed away.
MergeUnreachable(r) ==
    LET keep == replacing[r][1]
        replace == replacing[r][2]
    IN
    /\ work[r] = "merge"
    /\ \E bad \in members[replace], before \in SUBSET members[replace] :
          /\ Free(bad) /\ ~IsLoaded(bad)
          /\ \A x \in before : Free(x) /\ IsLoaded(x)
          /\ features' = [x \in Region |->
                        IF x \in before /\ features[x] = replace THEN keep ELSE features[x]]
    /\ gutted' = gutted \cup {replace}
    /\ members' = [members EXCEPT ![replace] = {}]
    /\ work' = [work EXCEPT ![r] = "unreachable"]
    /\ UNCHANGED <<statevars, lockvars, callvars, task, todo, this_feature, continuation, replacing,
                   contvars>>

\* A panic leaves the region in progress, and its channel open, for good.
CreationPanics(r) ==
    /\ work[r] = "unreachable"
    /\ work' = [work EXCEPT ![r] = "panicked"]
    /\ mutex' = NoOne
    /\ this_feature' = [this_feature EXCEPT ![r] = NoFeature]
    /\ EndCreation(r, "panicked")
    /\ UNCHANGED <<statevars, lockvars, callvars, todo, continuation, replacing,
                   region_continuations, featurevars>>

\* Mutant: the mutex is not released.
EndDiscoveryHolding(r) ==
    /\ work[r] = "spread" /\ todo[r] = {}
    /\ this_feature' = [this_feature EXCEPT ![r] = IF @ = NoFeature THEN r ELSE @]
    /\ work' = [work EXCEPT ![r] = "add"]
    /\ UNCHANGED <<statevars, lockvars, callvars, task, todo, continuation, replacing,
                   contvars, featurevars>>

\* The mutex is released first, ...
EndDiscovery(r) ==
    /\ work[r] = "spread" /\ todo[r] = {}
    /\ mutex' = NoOne
    /\ this_feature' = [this_feature EXCEPT ![r] = IF @ = NoFeature THEN r ELSE @]
    /\ work' = [work EXCEPT ![r] = "add"]
    /\ UNCHANGED <<statevars, lockvars, callvars, task, todo, continuation, replacing,
                   region_continuations, featurevars>>

\* ... then the region becomes one of the feature's, and the feature the region's.
AddRegion(r) ==
    /\ work[r] = "add"
    /\ members' = [members EXCEPT ![this_feature[r]] = @ \cup {r}]
    /\ features' = [features EXCEPT ![r] = this_feature[r]]
    /\ work' = [work EXCEPT ![r] = "finish"]
    /\ UNCHANGED <<statevars, lockvars, callvars, task, todo, this_feature, continuation,
                   replacing, contvars, gutted>>

FinishCreation(r) ==
    /\ work[r] = "finish" /\ Free(r)
    /\ state' = [state EXCEPT ![r] = "Partially"]
    /\ work' = [work EXCEPT ![r] = "done"]
    /\ this_feature' = [this_feature EXCEPT ![r] = NoFeature]
    /\ EndCreation(r, "done")
    /\ UNCHANGED <<requested_type, lockvars, callvars, todo, continuation, replacing, contvars,
                   featurevars>>

-----------------------------------------------------------------------------

CallStep(c) ==
    \/ FastPath(c) \/ LookUnloaded(c) \/ LookStarted(c) \/ LookFully(c)
    \/ ScanNear(c) \/ ScanFar(c) \/ LineLoaded(c)
    \/ RequestAllNeighbours(c) \/ AllLoaded(c) \/ Upgrade(c) \/ Release(c)

TaskStep(c, r) ==
    RequestUnloaded(c, r) \/ RequestFirst(c, r) \/ RequestStarted(c, r) \/ ChannelCloses(c, r)

CreateStep(r) ==
    \/ TakeContinuations(r)
    \/ \E n \in Region : UseTheirs(r, n) \/ OfferOurs(r, n) \/ ChooseFeature(r, n)
    \/ MergeFeatures(r) \/ MergeUnreachable(r) \/ CreationPanics(r)
    \/ EndDiscovery(r) \/ AddRegion(r) \/ FinishCreation(r)

Step ==
    \/ \E c \in Call : CallStep(c)
    \/ \E c \in Call, r \in Region : TaskStep(c, r)
    \/ \E r \in Region : CreateStep(r)

RegionNext == (\E c \in Call : Request(c)) \/ Step

RegionSpec == RegionInit /\ [][RegionNext]_rlvars

\* The runtime polls every task that can go on.  Every step is taken once, so
\* that it does not matter which goes first.  Requests need never be made.
FairRegionSpec == RegionSpec /\ WF_rlvars(Step)

-----------------------------------------------------------------------------
(* Properties *)

Begun == {"chunks", "spread", "merge", "unreachable", "add", "finish"}

(* A region is created by one task at a time, and is in progress meanwhile; it is   *)
(* loaded when its creation is done (request_region reserves it,                    *)
(* create_single_region expects it "should already be reserved").                   *)
CreatorReserved ==
    \A r \in Region :
       /\ work[r] \in Begun => /\ state[r] = "InProgress"
                               /\ \E c \in Call : task[c][r] = "create"
       /\ \A c, d \in Call : task[c][r] = "create" /\ task[d][r] = "create" => c = d
       /\ work[r] = "done" => IsLoaded(r)

Rank == [s \in {"Unloaded", "Requested", "InProgress", "Partially", "Fully"} |->
            CASE s = "Unloaded" -> 0 [] s = "Requested" -> 1 [] s = "InProgress" -> 2
              [] s = "Partially" -> 3 [] s = "Fully" -> 4]

(* "don't overwrite more advanced states" (regions.rs): however requests overlap,   *)
(* the state of a region only ever advances.                                        *)
StatesAdvance == [][\A r \in Region : Rank[state'[r]] >= Rank[state[r]]]_rlvars

Over == {"idle", "done", "panicked"}
CreationPanicked == \E r \in Region : work[r] = "panicked"

(* The tests of concurrent loads look for regions that are left requested or in     *)
(* progress when all requests have ended: there are none, even after requests that  *)
(* panicked, unless it was in creating a region.                                    *)
NothingLeftBehind ==
    /\ \A c \in Call : pc[c] \in Over
    /\ ~CreationPanicked
    => \A r \in Region : state[r] \notin {"Requested", "InProgress"}

(* The continuations' mutex and the regions' locks are let go of: a request that has begun  *)
(* ends, unless the creation of a region panics.                                    *)
LoadsEnd == \A c \in Call : pc[c] = "fast" ~> pc[c] \in Over \/ CreationPanicked

(* "ensure that no gutted features remain" (get_or_create): the feature of a fully  *)
(* loaded region has a boundary.                                                    *)
NoGuttedFeatures == \A r \in Region : state[r] = "Fully" => features[r] \notin gutted

=============================================================================
