------------------------ MODULE RegionLoadingProofs -------------------------
(***************************************************************************)
(* That a region is created by one task, that its state only advances, and *)
(* that none is left requested when all requests have ended.               *)
(*                                                                         *)
(* Both rest on who holds a region's lock: an unloaded region is set back  *)
(* by nobody because the call that found it so keeps its write lock until  *)
(* it has marked it (KeepsUnloaded); a task reserves a region by the state *)
(* that it finds under the lock, so that a region that has not begun has   *)
(* no creator (Creators).  A call spawns tasks only when it has joined     *)
(* those before them (NoTaskYet), so that it never loses sight of one.     *)
(***************************************************************************)
EXTENDS RegionLoading, TLAPS

\* The call that found its region unloaded keeps the write lock.
Keeping(c) == pc[c] \in {"scan", "line"} \/ (pc[c] = "mark" /\ central[c] = "RequestAndWait")

KeepsUnloaded ==
    \A c \in Call : Keeping(c) => writer[target[c]] = c /\ state[target[c]] = "Unloaded"

NoTaskYet ==
    \A c \in Call : pc[c] \in {"idle", "fast", "want", "scan", "mark"} =>
        \A r \in Region : task[c][r] \in {"none", "done", "panicked"}

\* Only two features are ever merged.
MergesFeatures ==
    \A r \in Region : work[r] = "merge" => replacing[r] \in Feature \X Feature

\* A creation task is counted by its region's work, and starts only once it is reserved.
CreatorsOf(r) ==
    /\ \A c \in Call : task[c][r] = "create" => work[r] \in Begun
    /\ state[r] \in {"Unloaded", "Requested"} => work[r] = "none"
Creators == \A r \in Region : CreatorsOf(r)

\* CreatorReserved, region by region
ReservedFor(r) ==
    /\ work[r] \in Begun => /\ state[r] = "InProgress"
                            /\ \E c \in Call : task[c][r] = "create"
    /\ \A c, d \in Call : task[c][r] = "create" /\ task[d][r] = "create" => c = d
    /\ work[r] = "done" => IsLoaded(r)

RegionInv ==
    /\ RegionTypeOK
    /\ KeepsUnloaded
    /\ NoTaskYet
    /\ MergesFeatures
    /\ Creators
    /\ CreatorReserved

-----------------------------------------------------------------------------

\* What ScanFar does to the regions on the line.
ScanFarMarks(c, line, marked) ==
    /\ pc' = [pc EXCEPT ![c] = "line"]
    /\ marked \subseteq line
    /\ \A x \in marked : Free(x) /\ state[x] = "Unloaded"
    /\ task' = [task EXCEPT ![c] = [x \in Region |-> IF x \in line THEN "request" ELSE "none"]]
    /\ state' = [x \in Region |-> IF x \in marked THEN "Requested" ELSE state[x]]
    /\ requested_type' = [x \in Region |->
            IF x \in marked THEN "Neighbour" ELSE requested_type[x]]

\* When the nearest region is far, ScanFar marks what it can of the line to it.
LEMMA ScanFarCases ==
    ASSUME NEW c \in Call, ScanFar(c), target[c] \in Region
    PROVE  \E line \in SUBSET Region, marked \in SUBSET Region : ScanFarMarks(c, line, marked)
<1>1. PICK n \in Nearest(target[c]) :
          /\ task' = [task EXCEPT ![c] = [x \in Region |->
                          IF x \in Line[n][target[c]] THEN "request" ELSE "none"]]
          /\ \E marked \in CanMark(c, Line[n][target[c]]) :
                /\ state' = [x \in Region |-> IF x \in marked THEN "Requested" ELSE state[x]]
                /\ requested_type' = [x \in Region |->
                          IF x \in marked THEN "Neighbour" ELSE requested_type[x]]
    BY Zenon DEF ScanFar
<1>2. n \in Region
    BY DEF Nearest
<1>3. Line[n][target[c]] \in SUBSET Region
    BY <1>2, DistanceAssumption
<1>4. PICK marked \in CanMark(c, Line[n][target[c]]) :
          /\ state' = [x \in Region |-> IF x \in marked THEN "Requested" ELSE state[x]]
          /\ requested_type' = [x \in Region |->
                    IF x \in marked THEN "Neighbour" ELSE requested_type[x]]
    BY <1>1
<1>5. /\ marked \subseteq Line[n][target[c]] /\ marked \in SUBSET Region
      /\ \A x \in marked : Free(x) /\ state[x] = "Unloaded"
    BY <1>3, <1>4 DEF CanMark
<1>6. pc' = [pc EXCEPT ![c] = "line"]
    BY Zenon DEF ScanFar, GoTo
<1> QED
    BY <1>1, <1>3, <1>4, <1>5, <1>6 DEF ScanFarMarks

\* The state keeps its types.
LEMMA TypesKept ==
    ASSUME RegionInv, [RegionNext]_rlvars
    PROVE  RegionTypeOK'
<1> USE DEF RegionInv, RegionTypeOK, rlvars, statevars, lockvars, callvars, createvars,
            featurevars, contvars
<1>1. ASSUME NEW c \in Call, Request(c)
      PROVE  RegionTypeOK'
    BY <1>1 DEF Request, Readable, AddReader, GoTo
<1>2. ASSUME NEW c \in Call, FastPath(c)
      PROVE  RegionTypeOK'
  <2>1. UNCHANGED <<state, requested_type, writer, is_initial_region, target, central, task,
                    work, todo, this_feature, continuation, replacing, mutex,
                    region_continuations, features, members, gutted>>
    BY <1>2 DEF FastPath
  <2>2. CASE state[target[c]] = "Fully"
    <3>1. pc' = [pc EXCEPT ![c] = "holding"] /\ readers' = readers
      BY <1>2, <2>2, Zenon DEF FastPath, GoTo, DropReader
    <3>2. pc' \in [Call -> {"idle", "fast", "want", "scan", "line", "mark", "join", "upgrade",
                       "holding", "done", "panicked"}]
      BY <3>1 DEF GoTo
    <3> QED
      BY <3>1, <3>2, <2>1
  <2>3. CASE ~(state[target[c]] = "Fully")
    <3>1. /\ pc' = [pc EXCEPT ![c] = "want"]
          /\ readers' = [readers EXCEPT ![target[c]] = @ \ {c}]
      BY <1>2, <2>3, Zenon DEF FastPath, GoTo, DropReader
    <3>2. pc' \in [Call -> {"idle", "fast", "want", "scan", "line", "mark", "join", "upgrade",
                       "holding", "done", "panicked"}]
      BY <3>1 DEF GoTo
    <3>3. readers' \in [Region -> SUBSET Call] /\ \A x \in Region : readers'[x] \subseteq readers[x]
      BY <3>1
    <3> QED
      BY <3>1, <3>2, <3>3, <2>1
  <2> QED
    BY <2>2, <2>3
<1>3. ASSUME NEW c \in Call, LookUnloaded(c)
      PROVE  RegionTypeOK'
    BY <1>3 DEF LookUnloaded, Free, GoTo
<1>4. ASSUME NEW c \in Call, LookStarted(c)
      PROVE  RegionTypeOK'
    BY <1>4 DEF LookStarted, Free, GoTo
<1>5. ASSUME NEW c \in Call, LookFully(c)
      PROVE  RegionTypeOK'
    BY <1>5 DEF LookFully, Free, AddReader, GoTo
<1>6. ASSUME NEW c \in Call, ScanNear(c)
      PROVE  RegionTypeOK'
    BY <1>6 DEF ScanNear, GoTo
<1>7. ASSUME NEW c \in Call, ScanFar(c)
      PROVE  RegionTypeOK'
  <2>1. PICK line \in SUBSET Region, marked \in SUBSET Region : ScanFarMarks(c, line, marked)
    BY <1>7, ScanFarCases
  <2>2. pc' \in [Call -> {"idle", "fast", "want", "scan", "line", "mark", "join", "upgrade",
                       "holding", "done", "panicked"}]
    BY <2>1 DEF ScanFarMarks
  <2>3. task' \in [Call -> [Region -> {"none", "request", "create", "wait", "done", "panicked"}]]
    BY <2>1 DEF ScanFarMarks
  <2>4. state' \in [Region -> {"Unloaded", "Requested", "InProgress"} \cup Loaded]
    BY <2>1 DEF ScanFarMarks
  <2>5. requested_type' \in [Region -> {"Central", "Neighbour"}]
    BY <2>1 DEF ScanFarMarks
  <2>6. UNCHANGED <<writer, readers, is_initial_region, target, central, work, todo,
                    this_feature, continuation, replacing, mutex, region_continuations,
                    features, members, gutted>>
    BY <1>7 DEF ScanFar
  <2> QED
    BY <2>2, <2>3, <2>4, <2>5, <2>6
<1>8. ASSUME NEW c \in Call, LineLoaded(c)
      PROVE  RegionTypeOK'
    BY <1>8 DEF LineLoaded, GoTo
<1>9. ASSUME NEW c \in Call, RequestAllNeighbours(c)
      PROVE  RegionTypeOK'
  <2>1. pc' \in [Call -> {"idle", "fast", "want", "scan", "line", "mark", "join", "upgrade",
                       "holding", "done", "panicked"}]
    BY <1>9 DEF RequestAllNeighbours, GoTo
  <2>2. task' \in [Call -> [Region -> {"none", "request", "create", "wait", "done", "panicked"}]]
    BY <1>9 DEF RequestAllNeighbours
  <2>3. state' \in [Region -> {"Unloaded", "Requested", "InProgress"} \cup Loaded]
    BY <1>9 DEF RequestAllNeighbours, CanMark
  <2>4. requested_type' \in [Region -> {"Central", "Neighbour"}]
    BY <1>9 DEF RequestAllNeighbours, CanMark
  <2>5. writer' \in [Region -> Call \cup {NoOne}]
    BY <1>9 DEF RequestAllNeighbours
  <2>6. \A x \in Region : writer'[x] \in {writer[x], NoOne}
    BY <1>9 DEF RequestAllNeighbours
  <2>7. UNCHANGED <<readers, is_initial_region, target, central, work, todo, this_feature,
                    continuation, replacing, mutex, region_continuations, features, members,
                    gutted>>
    BY <1>9 DEF RequestAllNeighbours
  <2> QED
    BY <2>1, <2>2, <2>3, <2>4, <2>5, <2>6, <2>7
<1>10. ASSUME NEW c \in Call, AllLoaded(c)
      PROVE  RegionTypeOK'
    BY <1>10 DEF AllLoaded, GoTo
<1>11. ASSUME NEW c \in Call, Upgrade(c)
      PROVE  RegionTypeOK'
    BY <1>11 DEF Upgrade, Free, IsLoaded, Loaded, AddReader, GoTo
<1>12. ASSUME NEW c \in Call, Release(c)
      PROVE  RegionTypeOK'
    BY <1>12 DEF Release, DropReader, GoTo
<1>13. ASSUME NEW c \in Call, NEW r \in Region, RequestUnloaded(c, r)
      PROVE  RegionTypeOK'
    BY <1>13 DEF RequestUnloaded, SetTask
<1>14. ASSUME NEW c \in Call, NEW r \in Region, RequestFirst(c, r)
      PROVE  RegionTypeOK'
    BY <1>14 DEF RequestFirst, SetTask
<1>15. ASSUME NEW c \in Call, NEW r \in Region, RequestStarted(c, r)
      PROVE  RegionTypeOK'
    BY <1>15 DEF RequestStarted, SetTask, IsLoaded, Loaded
<1>16. ASSUME NEW c \in Call, NEW r \in Region, ChannelCloses(c, r)
      PROVE  RegionTypeOK'
    BY <1>16 DEF ChannelCloses, SetTask
<1>17. ASSUME NEW r \in Region, TakeContinuations(r)
      PROVE  RegionTypeOK'
  <2>1. UNCHANGED <<state, requested_type, writer, readers, is_initial_region, pc, target,
                    central, task, this_feature, replacing, features, members, gutted>>
    BY <1>17 DEF TakeContinuations
  <2>2. CASE r \in Forest
    <3>1. /\ region_continuations' = [region_continuations EXCEPT ![r] = {}]
          /\ work' = [work EXCEPT ![r] = "spread"] /\ mutex' = r
          /\ continuation' = [continuation EXCEPT ![r] = region_continuations[r]]
          /\ todo' = [todo EXCEPT ![r] = Overflows[r]]
      BY <1>17, <2>2, Zenon DEF TakeContinuations
    <3>2. region_continuations' \in [Region -> SUBSET (Region \X Feature)]
      BY <3>1
    <3>3. work' \in [Region -> {"none", "chunks", "spread", "merge", "unreachable", "add", "finish",
                          "done", "panicked"}]
      BY <3>1
    <3>4. continuation' \in [Region -> SUBSET (Region \X Feature)]
      BY <3>1
    <3>5. Overflows[r] \in SUBSET Region
      BY <3>1, ForestAssumption DEF Neighbours
    <3>6. todo' \in [Region -> SUBSET Region]
      BY <3>1, <3>5
    <3> QED
      BY <3>1, <3>2, <3>3, <3>4, <3>5, <3>6, <2>1
  <2>3. CASE ~(r \in Forest)
    <3>1. /\ region_continuations' = [region_continuations EXCEPT ![r] = {}]
          /\ work' = [work EXCEPT ![r] = "finish"]
          /\ UNCHANGED <<mutex, continuation, todo>>
      BY <1>17, <2>3, Zenon DEF TakeContinuations
    <3>2. region_continuations' \in [Region -> SUBSET (Region \X Feature)]
      BY <3>1
    <3>3. work' \in [Region -> {"none", "chunks", "spread", "merge", "unreachable", "add", "finish",
                          "done", "panicked"}]
      BY <3>1
    <3> QED
      BY <3>1, <3>2, <3>3, <2>1
  <2> QED
    BY <2>2, <2>3
<1>18. ASSUME NEW r \in Region, NEW n \in Region, UseTheirs(r, n)
      PROVE  RegionTypeOK'
  <2>1. Continued(r, n) \subseteq Feature
    BY <1>18 DEF UseTheirs, Continued, StrongRefs
  <2>2. this_feature' \in [Region -> Feature \cup {NoFeature}]
    BY <1>18, <2>1 DEF UseTheirs
  <2>3. todo' \in [Region -> SUBSET Region]
    BY <1>18 DEF UseTheirs
  <2>4. UNCHANGED <<state, requested_type, writer, readers, is_initial_region, pc, target,
                    central, task, work, continuation, replacing, mutex, region_continuations,
                    features, members, gutted>>
    BY <1>18 DEF UseTheirs
  <2> QED
    BY <2>1, <2>2, <2>3, <2>4
<1>19. ASSUME NEW r \in Region, NEW n \in Region, OfferOurs(r, n)
      PROVE  RegionTypeOK'
  <2>1. (IF this_feature[r] = NoFeature THEN r ELSE this_feature[r]) \in Feature
    BY <1>19 DEF OfferOurs, Feature
  <2>2. this_feature' \in [Region -> Feature \cup {NoFeature}]
    BY <1>19, <2>1 DEF OfferOurs
  <2>3. region_continuations' \in [Region -> SUBSET (Region \X Feature)]
    BY <1>19, <2>1 DEF OfferOurs
  <2>4. todo' \in [Region -> SUBSET Region]
    BY <1>19 DEF OfferOurs
  <2>5. UNCHANGED <<state, requested_type, writer, readers, is_initial_region, pc, target,
                    central, task, work, continuation, replacing, mutex, features, members,
                    gutted>>
    BY <1>19 DEF OfferOurs
  <2> QED
    BY <2>1, <2>2, <2>3, <2>4, <2>5
<1>20. ASSUME NEW r \in Region, NEW n \in Region, ChooseFeature(r, n)
      PROVE  RegionTypeOK'
  <2>1. Continued(r, n) \subseteq Feature
    BY <1>20 DEF ChooseFeature, Continued, StrongRefs
  <2>2. work' \in [Region -> {"none", "chunks", "spread", "merge", "unreachable", "add", "finish",
                          "done", "panicked"}]
    BY <1>20 DEF ChooseFeature
  <2>3. replacing' \in [Region -> (Feature \cup {NoFeature}) \X (Feature \cup {NoFeature})]
    BY <1>20, <2>1 DEF ChooseFeature
  <2>4. todo' \in [Region -> SUBSET Region]
    BY <1>20 DEF ChooseFeature
  <2>5. UNCHANGED <<state, requested_type, writer, readers, is_initial_region, pc, target,
                    central, task, this_feature, continuation, mutex, region_continuations,
                    features, members, gutted>>
    BY <1>20 DEF ChooseFeature
  <2> QED
    BY <2>1, <2>2, <2>3, <2>4, <2>5
<1>21. ASSUME NEW r \in Region, MergeFeatures(r)
      PROVE  RegionTypeOK'
  <2>1. replacing[r][1] \in Feature /\ replacing[r][2] \in Feature
    BY <1>21 DEF MergeFeatures, MergesFeatures
  <2>2. gutted' \subseteq Feature
    BY <1>21, <2>1 DEF MergeFeatures
  <2>3. members' \in [Feature -> SUBSET Region]
    BY <1>21, <2>1 DEF MergeFeatures
  <2>4. features' \in [Region -> Feature \cup {NoFeature}]
    BY <1>21, <2>1 DEF MergeFeatures
  <2>5. \A x \in Region : ReplaceIn(region_continuations[x], replacing[r][2], replacing[r][1])
                 \in SUBSET (Region \X Feature)
    BY <1>21, <2>1 DEF MergeFeatures, ReplaceIn
  <2>6. region_continuations' \in [Region -> SUBSET (Region \X Feature)]
    BY <1>21, <2>5 DEF MergeFeatures
  <2>7. this_feature' \in [Region -> Feature \cup {NoFeature}]
    BY <1>21, <2>1 DEF MergeFeatures
  <2>8. work' \in [Region -> {"none", "chunks", "spread", "merge", "unreachable", "add", "finish",
                          "done", "panicked"}]
    BY <1>21 DEF MergeFeatures
  <2>9. UNCHANGED <<state, requested_type, writer, readers, is_initial_region, pc, target,
                    central, task, todo, continuation, replacing, mutex>>
    BY <1>21 DEF MergeFeatures
  <2> QED
    BY <2>1, <2>2, <2>3, <2>4, <2>5, <2>6, <2>7, <2>8, <2>9
<1>22. ASSUME NEW r \in Region, MergeUnreachable(r)
      PROVE  RegionTypeOK'
  <2>1. replacing[r][1] \in Feature /\ replacing[r][2] \in Feature
    BY <1>22 DEF MergeUnreachable, MergesFeatures
  <2>2. gutted' \subseteq Feature
    BY <1>22, <2>1 DEF MergeUnreachable
  <2>3. members' \in [Feature -> SUBSET Region]
    BY <1>22, <2>1 DEF MergeUnreachable
  <2>4. features' \in [Region -> Feature \cup {NoFeature}]
    BY <1>22, <2>1 DEF MergeUnreachable
  <2>5. work' \in [Region -> {"none", "chunks", "spread", "merge", "unreachable", "add", "finish",
                          "done", "panicked"}]
    BY <1>22 DEF MergeUnreachable
  <2>6. UNCHANGED <<state, requested_type, writer, readers, is_initial_region, pc, target,
                    central, task, todo, this_feature, continuation, replacing, mutex,
                    region_continuations>>
    BY <1>22 DEF MergeUnreachable
  <2> QED
    BY <2>1, <2>2, <2>3, <2>4, <2>5, <2>6
<1>23. ASSUME NEW r \in Region, CreationPanics(r)
      PROVE  RegionTypeOK'
    BY <1>23 DEF CreationPanics, EndCreation
<1>24. ASSUME NEW r \in Region, EndDiscovery(r)
      PROVE  RegionTypeOK'
    BY <1>24 DEF EndDiscovery, Feature
<1>25. ASSUME NEW r \in Region, AddRegion(r)
      PROVE  RegionTypeOK'
    BY <1>25 DEF AddRegion, Feature
<1>26. ASSUME NEW r \in Region, FinishCreation(r)
      PROVE  RegionTypeOK'
    BY <1>26 DEF FinishCreation, EndCreation, Loaded
<1>27. CASE UNCHANGED rlvars
    BY <1>27
<1> QED
    BY <1>1, <1>2, <1>3, <1>4, <1>5, <1>6, <1>7, <1>8, <1>9, <1>10, <1>11, <1>12, <1>13,
       <1>14, <1>15, <1>16, <1>17, <1>18, <1>19, <1>20, <1>21, <1>22, <1>23, <1>24, <1>25,
       <1>26, <1>27
    DEF RegionNext, Step, CallStep, TaskStep, CreateStep

\* A write lock that is kept is let go of by its call only, and nobody else changes
\* the region meanwhile.
LEMMA KeepsUnloadedKept ==
    ASSUME RegionInv, [RegionNext]_rlvars
    PROVE  KeepsUnloaded'
<1> SUFFICES ASSUME NEW d \in Call, Keeping(d)'
         PROVE  (writer[target[d]] = d /\ state[target[d]] = "Unloaded")'
    BY DEF KeepsUnloaded
<1> USE DEF RegionInv, RegionTypeOK, KeepsUnloaded, Keeping, rlvars, statevars, lockvars,
            callvars, createvars, featurevars, contvars
<1>1. ASSUME NEW c \in Call, Request(c)
      PROVE  (writer[target[d]] = d /\ state[target[d]] = "Unloaded")'
    BY <1>1 DEF Request, Readable, AddReader, GoTo
<1>2. ASSUME NEW c \in Call, FastPath(c)
      PROVE  (writer[target[d]] = d /\ state[target[d]] = "Unloaded")'
    BY <1>2 DEF FastPath, GoTo, DropReader
<1>3. ASSUME NEW c \in Call, LookUnloaded(c)
      PROVE  (writer[target[d]] = d /\ state[target[d]] = "Unloaded")'
    BY <1>3, NoneAssumption DEF LookUnloaded, Free, GoTo
<1>4. ASSUME NEW c \in Call, LookStarted(c)
      PROVE  (writer[target[d]] = d /\ state[target[d]] = "Unloaded")'
    BY <1>4 DEF LookStarted, Free, GoTo
<1>5. ASSUME NEW c \in Call, LookFully(c)
      PROVE  (writer[target[d]] = d /\ state[target[d]] = "Unloaded")'
    BY <1>5 DEF LookFully, Free, AddReader, GoTo
<1>6. ASSUME NEW c \in Call, ScanNear(c)
      PROVE  (writer[target[d]] = d /\ state[target[d]] = "Unloaded")'
    BY <1>6 DEF ScanNear, GoTo
<1>7. ASSUME NEW c \in Call, ScanFar(c)
      PROVE  (writer[target[d]] = d /\ state[target[d]] = "Unloaded")'
  <2>1. PICK line \in SUBSET Region, marked \in SUBSET Region : ScanFarMarks(c, line, marked)
    BY <1>7, ScanFarCases
  <2>2. UNCHANGED <<writer, target, central>> /\ pc[c] = "scan"
    BY <1>7, Zenon DEF ScanFar
  <2>3. Keeping(d)
    BY <2>1, <2>2 DEF ScanFarMarks
  <2>4. writer[target[d]] = d /\ state[target[d]] = "Unloaded" /\ target[d] \in Region
    BY <2>3
  <2>5. target[d] \notin marked
    BY <2>1, <2>4, NoneAssumption DEF ScanFarMarks, Free
  <2> QED
    BY <2>1, <2>2, <2>4, <2>5 DEF ScanFarMarks
<1>8. ASSUME NEW c \in Call, LineLoaded(c)
      PROVE  (writer[target[d]] = d /\ state[target[d]] = "Unloaded")'
    BY <1>8, NoneAssumption DEF LineLoaded, GoTo, Joined, Panicked
<1>9. ASSUME NEW c \in Call, RequestAllNeighbours(c)
      PROVE  (writer[target[d]] = d /\ state[target[d]] = "Unloaded")'
    BY <1>9, NoneAssumption DEF RequestAllNeighbours, CanMark, GoTo, Free
<1>10. ASSUME NEW c \in Call, AllLoaded(c)
      PROVE  (writer[target[d]] = d /\ state[target[d]] = "Unloaded")'
    BY <1>10 DEF AllLoaded, GoTo
<1>11. ASSUME NEW c \in Call, Upgrade(c)
      PROVE  (writer[target[d]] = d /\ state[target[d]] = "Unloaded")'
    BY <1>11, NoneAssumption DEF Upgrade, Free, IsLoaded, Loaded, AddReader, GoTo
<1>12. ASSUME NEW c \in Call, Release(c)
      PROVE  (writer[target[d]] = d /\ state[target[d]] = "Unloaded")'
    BY <1>12 DEF Release, DropReader, GoTo
<1>13. ASSUME NEW c \in Call, NEW r \in Region, RequestUnloaded(c, r)
      PROVE  (writer[target[d]] = d /\ state[target[d]] = "Unloaded")'
    BY <1>13 DEF RequestUnloaded, SetTask
<1>14. ASSUME NEW c \in Call, NEW r \in Region, RequestFirst(c, r)
      PROVE  (writer[target[d]] = d /\ state[target[d]] = "Unloaded")'
    BY <1>14, NoneAssumption DEF RequestFirst, SetTask, Free
<1>15. ASSUME NEW c \in Call, NEW r \in Region, RequestStarted(c, r)
      PROVE  (writer[target[d]] = d /\ state[target[d]] = "Unloaded")'
    BY <1>15 DEF RequestStarted, SetTask
<1>16. ASSUME NEW c \in Call, NEW r \in Region, ChannelCloses(c, r)
      PROVE  (writer[target[d]] = d /\ state[target[d]] = "Unloaded")'
    BY <1>16 DEF ChannelCloses, SetTask
<1>17. ASSUME NEW r \in Region, TakeContinuations(r)
      PROVE  (writer[target[d]] = d /\ state[target[d]] = "Unloaded")'
    BY <1>17 DEF TakeContinuations
<1>18. ASSUME NEW r \in Region, NEW n \in Region, UseTheirs(r, n)
      PROVE  (writer[target[d]] = d /\ state[target[d]] = "Unloaded")'
    BY <1>18 DEF UseTheirs
<1>19. ASSUME NEW r \in Region, NEW n \in Region, OfferOurs(r, n)
      PROVE  (writer[target[d]] = d /\ state[target[d]] = "Unloaded")'
    BY <1>19 DEF OfferOurs
<1>20. ASSUME NEW r \in Region, NEW n \in Region, ChooseFeature(r, n)
      PROVE  (writer[target[d]] = d /\ state[target[d]] = "Unloaded")'
    BY <1>20 DEF ChooseFeature
<1>21. ASSUME NEW r \in Region, MergeFeatures(r)
      PROVE  (writer[target[d]] = d /\ state[target[d]] = "Unloaded")'
    BY <1>21 DEF MergeFeatures, ReplaceIn
<1>22. ASSUME NEW r \in Region, MergeUnreachable(r)
      PROVE  (writer[target[d]] = d /\ state[target[d]] = "Unloaded")'
    BY <1>22 DEF MergeUnreachable
<1>23. ASSUME NEW r \in Region, CreationPanics(r)
      PROVE  (writer[target[d]] = d /\ state[target[d]] = "Unloaded")'
    BY <1>23 DEF CreationPanics, EndCreation
<1>24. ASSUME NEW r \in Region, EndDiscovery(r)
      PROVE  (writer[target[d]] = d /\ state[target[d]] = "Unloaded")'
    BY <1>24 DEF EndDiscovery
<1>25. ASSUME NEW r \in Region, AddRegion(r)
      PROVE  (writer[target[d]] = d /\ state[target[d]] = "Unloaded")'
    BY <1>25 DEF AddRegion
<1>26. ASSUME NEW r \in Region, FinishCreation(r)
      PROVE  (writer[target[d]] = d /\ state[target[d]] = "Unloaded")'
    BY <1>26, NoneAssumption DEF FinishCreation, EndCreation, Free
<1>27. CASE UNCHANGED rlvars
    BY <1>27
<1> QED
    BY <1>1, <1>2, <1>3, <1>4, <1>5, <1>6, <1>7, <1>8, <1>9, <1>10, <1>11, <1>12, <1>13,
       <1>14, <1>15, <1>16, <1>17, <1>18, <1>19, <1>20, <1>21, <1>22, <1>23, <1>24, <1>25,
       <1>26, <1>27
    DEF RegionNext, Step, CallStep, TaskStep, CreateStep

\* A call that is yet to spawn its tasks has none from before.
LEMMA NoTaskYetKept ==
    ASSUME RegionInv, [RegionNext]_rlvars
    PROVE  NoTaskYet'
<1> SUFFICES ASSUME NEW d \in Call, pc'[d] \in {"idle", "fast", "want", "scan", "mark"},
                NEW x \in Region
         PROVE  task'[d][x] \in {"none", "done", "panicked"}
    BY DEF NoTaskYet
<1> USE DEF RegionInv, RegionTypeOK, NoTaskYet, rlvars, statevars, lockvars, callvars,
            createvars, featurevars, contvars
<1>1. ASSUME NEW c \in Call, Request(c)
      PROVE  task'[d][x] \in {"none", "done", "panicked"}
    BY <1>1 DEF Request, Readable, AddReader, GoTo
<1>2. ASSUME NEW c \in Call, FastPath(c)
      PROVE  task'[d][x] \in {"none", "done", "panicked"}
  <2>1. pc[c] = "fast" /\ task' = task
    BY <1>2, Zenon DEF FastPath
  <2>2. pc' = [pc EXCEPT ![c] = "holding"] \/ pc' = [pc EXCEPT ![c] = "want"]
    BY <1>2, Zenon DEF FastPath, GoTo
  <2> QED
    BY <2>1, <2>2
<1>3. ASSUME NEW c \in Call, LookUnloaded(c)
      PROVE  task'[d][x] \in {"none", "done", "panicked"}
    BY <1>3 DEF LookUnloaded, Free, GoTo
<1>4. ASSUME NEW c \in Call, LookStarted(c)
      PROVE  task'[d][x] \in {"none", "done", "panicked"}
    BY <1>4 DEF LookStarted, Free, GoTo
<1>5. ASSUME NEW c \in Call, LookFully(c)
      PROVE  task'[d][x] \in {"none", "done", "panicked"}
    BY <1>5 DEF LookFully, Free, AddReader, GoTo
<1>6. ASSUME NEW c \in Call, ScanNear(c)
      PROVE  task'[d][x] \in {"none", "done", "panicked"}
    BY <1>6 DEF ScanNear, GoTo
<1>7. ASSUME NEW c \in Call, ScanFar(c)
      PROVE  task'[d][x] \in {"none", "done", "panicked"}
    BY <1>7 DEF ScanFar, GoTo
<1>8. ASSUME NEW c \in Call, LineLoaded(c)
      PROVE  task'[d][x] \in {"none", "done", "panicked"}
    BY <1>8 DEF LineLoaded, GoTo, Joined, Panicked
<1>9. ASSUME NEW c \in Call, RequestAllNeighbours(c)
      PROVE  task'[d][x] \in {"none", "done", "panicked"}
    BY <1>9 DEF RequestAllNeighbours, CanMark, GoTo, Free
<1>10. ASSUME NEW c \in Call, AllLoaded(c)
      PROVE  task'[d][x] \in {"none", "done", "panicked"}
    BY <1>10 DEF AllLoaded, GoTo
<1>11. ASSUME NEW c \in Call, Upgrade(c)
      PROVE  task'[d][x] \in {"none", "done", "panicked"}
    BY <1>11 DEF Upgrade, Free, IsLoaded, Loaded, AddReader, GoTo
<1>12. ASSUME NEW c \in Call, Release(c)
      PROVE  task'[d][x] \in {"none", "done", "panicked"}
    BY <1>12 DEF Release, DropReader, GoTo
<1>13. ASSUME NEW c \in Call, NEW r \in Region, RequestUnloaded(c, r)
      PROVE  task'[d][x] \in {"none", "done", "panicked"}
    BY <1>13 DEF RequestUnloaded, SetTask
<1>14. ASSUME NEW c \in Call, NEW r \in Region, RequestFirst(c, r)
      PROVE  task'[d][x] \in {"none", "done", "panicked"}
    BY <1>14 DEF RequestFirst, SetTask, Free
<1>15. ASSUME NEW c \in Call, NEW r \in Region, RequestStarted(c, r)
      PROVE  task'[d][x] \in {"none", "done", "panicked"}
    BY <1>15 DEF RequestStarted, SetTask
<1>16. ASSUME NEW c \in Call, NEW r \in Region, ChannelCloses(c, r)
      PROVE  task'[d][x] \in {"none", "done", "panicked"}
    BY <1>16 DEF ChannelCloses, SetTask
<1>17. ASSUME NEW r \in Region, TakeContinuations(r)
      PROVE  task'[d][x] \in {"none", "done", "panicked"}
    BY <1>17 DEF TakeContinuations
<1>18. ASSUME NEW r \in Region, NEW n \in Region, UseTheirs(r, n)
      PROVE  task'[d][x] \in {"none", "done", "panicked"}
    BY <1>18 DEF UseTheirs
<1>19. ASSUME NEW r \in Region, NEW n \in Region, OfferOurs(r, n)
      PROVE  task'[d][x] \in {"none", "done", "panicked"}
    BY <1>19 DEF OfferOurs
<1>20. ASSUME NEW r \in Region, NEW n \in Region, ChooseFeature(r, n)
      PROVE  task'[d][x] \in {"none", "done", "panicked"}
    BY <1>20 DEF ChooseFeature
<1>21. ASSUME NEW r \in Region, MergeFeatures(r)
      PROVE  task'[d][x] \in {"none", "done", "panicked"}
    BY <1>21 DEF MergeFeatures, ReplaceIn
<1>22. ASSUME NEW r \in Region, MergeUnreachable(r)
      PROVE  task'[d][x] \in {"none", "done", "panicked"}
    BY <1>22 DEF MergeUnreachable
<1>23. ASSUME NEW r \in Region, CreationPanics(r)
      PROVE  task'[d][x] \in {"none", "done", "panicked"}
    BY <1>23 DEF CreationPanics, EndCreation
<1>24. ASSUME NEW r \in Region, EndDiscovery(r)
      PROVE  task'[d][x] \in {"none", "done", "panicked"}
    BY <1>24 DEF EndDiscovery
<1>25. ASSUME NEW r \in Region, AddRegion(r)
      PROVE  task'[d][x] \in {"none", "done", "panicked"}
    BY <1>25 DEF AddRegion
<1>26. ASSUME NEW r \in Region, FinishCreation(r)
      PROVE  task'[d][x] \in {"none", "done", "panicked"}
    BY <1>26 DEF FinishCreation, EndCreation, Free
<1>27. CASE UNCHANGED rlvars
    BY <1>27
<1> QED
    BY <1>1, <1>2, <1>3, <1>4, <1>5, <1>6, <1>7, <1>8, <1>9, <1>10, <1>11, <1>12, <1>13,
       <1>14, <1>15, <1>16, <1>17, <1>18, <1>19, <1>20, <1>21, <1>22, <1>23, <1>24, <1>25,
       <1>26, <1>27
    DEF RegionNext, Step, CallStep, TaskStep, CreateStep

\* A region merges its own feature, which it has by then, with another.
LEMMA MergesFeaturesKept ==
    ASSUME RegionInv, [RegionNext]_rlvars
    PROVE  MergesFeatures'
<1> SUFFICES ASSUME NEW x \in Region, work'[x] = "merge"
         PROVE  replacing'[x] \in Feature \X Feature
    BY DEF MergesFeatures
<1> USE DEF RegionInv, RegionTypeOK, MergesFeatures, rlvars, statevars, lockvars, callvars,
            createvars, featurevars, contvars
<1>1. ASSUME NEW c \in Call, Request(c)
      PROVE  replacing'[x] \in Feature \X Feature
    BY <1>1 DEF Request, Readable, AddReader, GoTo
<1>2. ASSUME NEW c \in Call, FastPath(c)
      PROVE  replacing'[x] \in Feature \X Feature
    BY <1>2 DEF FastPath, GoTo, DropReader
<1>3. ASSUME NEW c \in Call, LookUnloaded(c)
      PROVE  replacing'[x] \in Feature \X Feature
    BY <1>3 DEF LookUnloaded, Free, GoTo
<1>4. ASSUME NEW c \in Call, LookStarted(c)
      PROVE  replacing'[x] \in Feature \X Feature
    BY <1>4 DEF LookStarted, Free, GoTo
<1>5. ASSUME NEW c \in Call, LookFully(c)
      PROVE  replacing'[x] \in Feature \X Feature
    BY <1>5 DEF LookFully, Free, AddReader, GoTo
<1>6. ASSUME NEW c \in Call, ScanNear(c)
      PROVE  replacing'[x] \in Feature \X Feature
    BY <1>6 DEF ScanNear, GoTo
<1>7. ASSUME NEW c \in Call, ScanFar(c)
      PROVE  replacing'[x] \in Feature \X Feature
    BY <1>7 DEF ScanFar, GoTo
<1>8. ASSUME NEW c \in Call, LineLoaded(c)
      PROVE  replacing'[x] \in Feature \X Feature
    BY <1>8 DEF LineLoaded, GoTo, Joined, Panicked
<1>9. ASSUME NEW c \in Call, RequestAllNeighbours(c)
      PROVE  replacing'[x] \in Feature \X Feature
    BY <1>9 DEF RequestAllNeighbours, CanMark, GoTo, Free
<1>10. ASSUME NEW c \in Call, AllLoaded(c)
      PROVE  replacing'[x] \in Feature \X Feature
    BY <1>10 DEF AllLoaded, GoTo
<1>11. ASSUME NEW c \in Call, Upgrade(c)
      PROVE  replacing'[x] \in Feature \X Feature
    BY <1>11 DEF Upgrade, Free, IsLoaded, Loaded, AddReader, GoTo
<1>12. ASSUME NEW c \in Call, Release(c)
      PROVE  replacing'[x] \in Feature \X Feature
    BY <1>12 DEF Release, DropReader, GoTo
<1>13. ASSUME NEW c \in Call, NEW r \in Region, RequestUnloaded(c, r)
      PROVE  replacing'[x] \in Feature \X Feature
    BY <1>13 DEF RequestUnloaded, SetTask
<1>14. ASSUME NEW c \in Call, NEW r \in Region, RequestFirst(c, r)
      PROVE  replacing'[x] \in Feature \X Feature
    BY <1>14 DEF RequestFirst, SetTask, Free
<1>15. ASSUME NEW c \in Call, NEW r \in Region, RequestStarted(c, r)
      PROVE  replacing'[x] \in Feature \X Feature
    BY <1>15 DEF RequestStarted, SetTask
<1>16. ASSUME NEW c \in Call, NEW r \in Region, ChannelCloses(c, r)
      PROVE  replacing'[x] \in Feature \X Feature
    BY <1>16 DEF ChannelCloses, SetTask
<1>17. ASSUME NEW r \in Region, TakeContinuations(r)
      PROVE  replacing'[x] \in Feature \X Feature
    BY <1>17 DEF TakeContinuations
<1>18. ASSUME NEW r \in Region, NEW n \in Region, UseTheirs(r, n)
      PROVE  replacing'[x] \in Feature \X Feature
    BY <1>18 DEF UseTheirs
<1>19. ASSUME NEW r \in Region, NEW n \in Region, OfferOurs(r, n)
      PROVE  replacing'[x] \in Feature \X Feature
    BY <1>19 DEF OfferOurs
<1>20. ASSUME NEW r \in Region, NEW n \in Region, ChooseFeature(r, n)
      PROVE  replacing'[x] \in Feature \X Feature
  <2>1. PICK theirs \in Continued(r, n) :
            /\ this_feature[r] # NoFeature
            /\ \/ replacing' = [replacing EXCEPT ![r] = <<theirs, this_feature[r]>>]
               \/ replacing' = [replacing EXCEPT ![r] = <<this_feature[r], theirs>>]
            /\ \A y \in Region : y # r => work'[y] = work[y]
    BY <1>20 DEF ChooseFeature
  <2>2. theirs \in Feature /\ this_feature[r] \in Feature
    BY <2>1 DEF Continued, StrongRefs
  <2> QED
    BY <2>1, <2>2
<1>21. ASSUME NEW r \in Region, MergeFeatures(r)
      PROVE  replacing'[x] \in Feature \X Feature
    BY <1>21 DEF MergeFeatures, ReplaceIn
<1>22. ASSUME NEW r \in Region, MergeUnreachable(r)
      PROVE  replacing'[x] \in Feature \X Feature
    BY <1>22 DEF MergeUnreachable
<1>23. ASSUME NEW r \in Region, CreationPanics(r)
      PROVE  replacing'[x] \in Feature \X Feature
    BY <1>23 DEF CreationPanics, EndCreation
<1>24. ASSUME NEW r \in Region, EndDiscovery(r)
      PROVE  replacing'[x] \in Feature \X Feature
    BY <1>24 DEF EndDiscovery
<1>25. ASSUME NEW r \in Region, AddRegion(r)
      PROVE  replacing'[x] \in Feature \X Feature
    BY <1>25 DEF AddRegion
<1>26. ASSUME NEW r \in Region, FinishCreation(r)
      PROVE  replacing'[x] \in Feature \X Feature
    BY <1>26 DEF FinishCreation, EndCreation, Free
<1>27. CASE UNCHANGED rlvars
    BY <1>27
<1> QED
    BY <1>1, <1>2, <1>3, <1>4, <1>5, <1>6, <1>7, <1>8, <1>9, <1>10, <1>11, <1>12, <1>13,
       <1>14, <1>15, <1>16, <1>17, <1>18, <1>19, <1>20, <1>21, <1>22, <1>23, <1>24, <1>25,
       <1>26, <1>27
    DEF RegionNext, Step, CallStep, TaskStep, CreateStep

\* A region has a creator only while it is being created, and no creation is under
\* way, nor over, in a region that was not reserved.
LEMMA CreatorsKept ==
    ASSUME RegionInv, [RegionNext]_rlvars
    PROVE  Creators'
<1> SUFFICES ASSUME NEW x \in Region PROVE CreatorsOf(x)'
    BY DEF Creators
<1> USE DEF RegionInv, RegionTypeOK, KeepsUnloaded, Keeping, NoTaskYet, Creators, CreatorsOf,
            CreatorReserved, ReservedFor, Begun, rlvars, statevars, lockvars, callvars,
            createvars, featurevars, contvars
<1>1. ASSUME NEW c \in Call, Request(c)
      PROVE  CreatorsOf(x)'
    BY <1>1 DEF Request, Readable, AddReader, GoTo
<1>2. ASSUME NEW c \in Call, FastPath(c)
      PROVE  CreatorsOf(x)'
    BY <1>2 DEF FastPath, GoTo, DropReader
<1>3. ASSUME NEW c \in Call, LookUnloaded(c)
      PROVE  CreatorsOf(x)'
    BY <1>3 DEF LookUnloaded, Free, GoTo
<1>4. ASSUME NEW c \in Call, LookStarted(c)
      PROVE  CreatorsOf(x)'
    BY <1>4 DEF LookStarted, Free, GoTo
<1>5. ASSUME NEW c \in Call, LookFully(c)
      PROVE  CreatorsOf(x)'
    BY <1>5 DEF LookFully, Free, AddReader, GoTo
<1>6. ASSUME NEW c \in Call, ScanNear(c)
      PROVE  CreatorsOf(x)'
    BY <1>6 DEF ScanNear, GoTo
<1>7. ASSUME NEW c \in Call, ScanFar(c)
      PROVE  CreatorsOf(x)'
  <2>1. PICK line \in SUBSET Region, marked \in SUBSET Region : ScanFarMarks(c, line, marked)
    BY <1>7, ScanFarCases
  <2>2. UNCHANGED <<writer, target, central, work>>
    BY <1>7, Zenon DEF ScanFar
  <2>3. pc[c] = "scan"
    BY <1>7, Zenon DEF ScanFar
  <2> QED
    BY <2>1, <2>2, <2>3 DEF ScanFarMarks, Free
<1>8. ASSUME NEW c \in Call, LineLoaded(c)
      PROVE  CreatorsOf(x)'
    BY <1>8 DEF LineLoaded, GoTo, Joined, Panicked
<1>9. ASSUME NEW c \in Call, RequestAllNeighbours(c)
      PROVE  CreatorsOf(x)'
    BY <1>9 DEF RequestAllNeighbours, CanMark, GoTo, Free
<1>10. ASSUME NEW c \in Call, AllLoaded(c)
      PROVE  CreatorsOf(x)'
    BY <1>10 DEF AllLoaded, GoTo
<1>11. ASSUME NEW c \in Call, Upgrade(c)
      PROVE  CreatorsOf(x)'
    BY <1>11 DEF Upgrade, Free, IsLoaded, Loaded, AddReader, GoTo
<1>12. ASSUME NEW c \in Call, Release(c)
      PROVE  CreatorsOf(x)'
    BY <1>12 DEF Release, DropReader, GoTo
<1>13. ASSUME NEW c \in Call, NEW r \in Region, RequestUnloaded(c, r)
      PROVE  CreatorsOf(x)'
    BY <1>13 DEF RequestUnloaded, SetTask
<1>14. ASSUME NEW c \in Call, NEW r \in Region, RequestFirst(c, r)
      PROVE  CreatorsOf(x)'
    BY <1>14 DEF RequestFirst, SetTask, Free
<1>15. ASSUME NEW c \in Call, NEW r \in Region, RequestStarted(c, r)
      PROVE  CreatorsOf(x)'
    BY <1>15 DEF RequestStarted, SetTask
<1>16. ASSUME NEW c \in Call, NEW r \in Region, ChannelCloses(c, r)
      PROVE  CreatorsOf(x)'
    BY <1>16 DEF ChannelCloses, SetTask
<1>17. ASSUME NEW r \in Region, TakeContinuations(r)
      PROVE  CreatorsOf(x)'
    BY <1>17 DEF TakeContinuations
<1>18. ASSUME NEW r \in Region, NEW n \in Region, UseTheirs(r, n)
      PROVE  CreatorsOf(x)'
    BY <1>18 DEF UseTheirs
<1>19. ASSUME NEW r \in Region, NEW n \in Region, OfferOurs(r, n)
      PROVE  CreatorsOf(x)'
    BY <1>19 DEF OfferOurs
<1>20. ASSUME NEW r \in Region, NEW n \in Region, ChooseFeature(r, n)
      PROVE  CreatorsOf(x)'
  <2>1. work[r] = "spread" /\ state' = state /\ task' = task
    BY <1>20, Zenon DEF ChooseFeature, IsNext
  <2>2. \E s \in {"unreachable", "merge"} : work' = [work EXCEPT ![r] = s]
    <3>1. \E theirs : work' = [work EXCEPT ![r] =
              IF HasGenerated(this_feature[r]) /\ HasGenerated(theirs)
              THEN "unreachable" ELSE "merge"]
      BY <1>20, Zenon DEF ChooseFeature
    <3> QED
      BY <3>1
  <2>3. /\ work[x] \in Begun <=> work'[x] \in Begun
        /\ work'[x] # work[x] => work[x] = "spread" /\ work'[x] \in {"unreachable", "merge"}
    BY <2>1, <2>2
  <2>4. ReservedFor(x) /\ CreatorsOf(x)
    OBVIOUS
  <2> QED
    BY <2>1, <2>3, <2>4
<1>21. ASSUME NEW r \in Region, MergeFeatures(r)
      PROVE  CreatorsOf(x)'
    BY <1>21 DEF MergeFeatures, ReplaceIn
<1>22. ASSUME NEW r \in Region, MergeUnreachable(r)
      PROVE  CreatorsOf(x)'
    BY <1>22 DEF MergeUnreachable
<1>23. ASSUME NEW r \in Region, CreationPanics(r)
      PROVE  CreatorsOf(x)'
    BY <1>23 DEF CreationPanics, EndCreation
<1>24. ASSUME NEW r \in Region, EndDiscovery(r)
      PROVE  CreatorsOf(x)'
    BY <1>24 DEF EndDiscovery
<1>25. ASSUME NEW r \in Region, AddRegion(r)
      PROVE  CreatorsOf(x)'
    BY <1>25 DEF AddRegion
<1>26. ASSUME NEW r \in Region, FinishCreation(r)
      PROVE  CreatorsOf(x)'
    BY <1>26 DEF FinishCreation, EndCreation, Free
<1>27. CASE UNCHANGED rlvars
    BY <1>27
<1> QED
    BY <1>1, <1>2, <1>3, <1>4, <1>5, <1>6, <1>7, <1>8, <1>9, <1>10, <1>11, <1>12, <1>13,
       <1>14, <1>15, <1>16, <1>17, <1>18, <1>19, <1>20, <1>21, <1>22, <1>23, <1>24, <1>25,
       <1>26, <1>27
    DEF RegionNext, Step, CallStep, TaskStep, CreateStep

\* The creator of a region holds it until it is loaded.
LEMMA CreatorReservedKept ==
    ASSUME RegionInv, [RegionNext]_rlvars
    PROVE  CreatorReserved'
<1> SUFFICES ASSUME NEW x \in Region PROVE ReservedFor(x)'
    BY DEF CreatorReserved, ReservedFor
<1> USE DEF RegionInv, RegionTypeOK, KeepsUnloaded, Keeping, NoTaskYet, Creators, CreatorsOf,
            CreatorReserved, ReservedFor, Begun, IsLoaded, Loaded, rlvars, statevars,
            lockvars, callvars, createvars, featurevars, contvars
<1>1. ASSUME NEW c \in Call, Request(c)
      PROVE  ReservedFor(x)'
    BY <1>1 DEF Request, Readable, AddReader, GoTo
<1>2. ASSUME NEW c \in Call, FastPath(c)
      PROVE  ReservedFor(x)'
    BY <1>2 DEF FastPath, GoTo, DropReader
<1>3. ASSUME NEW c \in Call, LookUnloaded(c)
      PROVE  ReservedFor(x)'
    BY <1>3 DEF LookUnloaded, Free, GoTo
<1>4. ASSUME NEW c \in Call, LookStarted(c)
      PROVE  ReservedFor(x)'
    BY <1>4 DEF LookStarted, Free, GoTo
<1>5. ASSUME NEW c \in Call, LookFully(c)
      PROVE  ReservedFor(x)'
    BY <1>5 DEF LookFully, Free, AddReader, GoTo
<1>6. ASSUME NEW c \in Call, ScanNear(c)
      PROVE  ReservedFor(x)'
    BY <1>6 DEF ScanNear, GoTo
<1>7. ASSUME NEW c \in Call, ScanFar(c)
      PROVE  ReservedFor(x)'
  <2>1. PICK line \in SUBSET Region, marked \in SUBSET Region : ScanFarMarks(c, line, marked)
    BY <1>7, ScanFarCases
  <2>2. work' = work /\ pc[c] = "scan"
    BY <1>7, Zenon DEF ScanFar
  <2>3. \A e \in Call : task'[e][x] = "create" <=> task[e][x] = "create"
    <3>1. task[c][x] # "create"
      BY <2>2
    <3>2. task'[c][x] # "create" /\ \A e \in Call \ {c} : task'[e] = task[e]
      BY <2>1 DEF ScanFarMarks
    <3> QED
      BY <3>1, <3>2
  <2>4. IF x \in marked THEN state[x] = "Unloaded" ELSE state'[x] = state[x]
    BY <2>1 DEF ScanFarMarks
  <2>5. x \in marked => work[x] = "none"
    BY <2>4
  <2>6. ReservedFor(x)
    OBVIOUS
  <2>7. CASE x \in marked
    BY <2>2, <2>3, <2>5, <2>6, <2>7
  <2>8. CASE x \notin marked
    BY <2>2, <2>3, <2>4, <2>6, <2>8
  <2> QED
    BY <2>7, <2>8
<1>8. ASSUME NEW c \in Call, LineLoaded(c)
      PROVE  ReservedFor(x)'
    BY <1>8 DEF LineLoaded, GoTo, Joined, Panicked
<1>9. ASSUME NEW c \in Call, RequestAllNeighbours(c)
      PROVE  ReservedFor(x)'
  <2>1. work' = work /\ pc[c] = "mark"
    BY <1>9, Zenon DEF RequestAllNeighbours
  <2>2. \A e \in Call : task'[e][x] = "create" <=> task[e][x] = "create"
    <3>1. task[c][x] # "create"
      BY <2>1
    <3>2. task'[c][x] # "create" /\ \A e \in Call \ {c} : task'[e] = task[e]
      BY <1>9 DEF RequestAllNeighbours
    <3> QED
      BY <3>1, <3>2
  <2>3. state[x] = "Unloaded" \/ state'[x] = state[x]
    <3>1. central[c] = "RequestAndWait" => state[target[c]] = "Unloaded"
      BY <2>1
    <3> QED
      BY <1>9, <3>1 DEF RequestAllNeighbours, CanMark
  <2>4. ReservedFor(x) /\ CreatorsOf(x)
    OBVIOUS
  <2>5. CASE state[x] = "Unloaded"
    BY <2>1, <2>2, <2>4, <2>5
  <2>6. CASE state'[x] = state[x]
    BY <2>1, <2>2, <2>4, <2>6
  <2> QED
    BY <2>3, <2>5, <2>6
<1>10. ASSUME NEW c \in Call, AllLoaded(c)
      PROVE  ReservedFor(x)'
    BY <1>10 DEF AllLoaded, GoTo
<1>11. ASSUME NEW c \in Call, Upgrade(c)
      PROVE  ReservedFor(x)'
    BY <1>11 DEF Upgrade, Free, AddReader, GoTo
<1>12. ASSUME NEW c \in Call, Release(c)
      PROVE  ReservedFor(x)'
    BY <1>12 DEF Release, DropReader, GoTo
<1>13. ASSUME NEW c \in Call, NEW r \in Region, RequestUnloaded(c, r)
      PROVE  ReservedFor(x)'
    BY <1>13 DEF RequestUnloaded, SetTask
<1>14. ASSUME NEW c \in Call, NEW r \in Region, RequestFirst(c, r)
      PROVE  ReservedFor(x)'
    BY <1>14 DEF RequestFirst, SetTask, Free
<1>15. ASSUME NEW c \in Call, NEW r \in Region, RequestStarted(c, r)
      PROVE  ReservedFor(x)'
    BY <1>15 DEF RequestStarted, SetTask
<1>16. ASSUME NEW c \in Call, NEW r \in Region, ChannelCloses(c, r)
      PROVE  ReservedFor(x)'
    BY <1>16 DEF ChannelCloses, SetTask
<1>17. ASSUME NEW r \in Region, TakeContinuations(r)
      PROVE  ReservedFor(x)'
    BY <1>17 DEF TakeContinuations
<1>18. ASSUME NEW r \in Region, NEW n \in Region, UseTheirs(r, n)
      PROVE  ReservedFor(x)'
    BY <1>18 DEF UseTheirs
<1>19. ASSUME NEW r \in Region, NEW n \in Region, OfferOurs(r, n)
      PROVE  ReservedFor(x)'
    BY <1>19 DEF OfferOurs
<1>20. ASSUME NEW r \in Region, NEW n \in Region, ChooseFeature(r, n)
      PROVE  ReservedFor(x)'
  <2>1. work[r] = "spread" /\ state' = state /\ task' = task
    BY <1>20, Zenon DEF ChooseFeature, IsNext
  <2>2. \E s \in {"unreachable", "merge"} : work' = [work EXCEPT ![r] = s]
    <3>1. \E theirs : work' = [work EXCEPT ![r] =
              IF HasGenerated(this_feature[r]) /\ HasGenerated(theirs)
              THEN "unreachable" ELSE "merge"]
      BY <1>20, Zenon DEF ChooseFeature
    <3> QED
      BY <3>1
  <2>3. /\ work[x] \in Begun <=> work'[x] \in Begun
        /\ work'[x] # work[x] => work[x] = "spread" /\ work'[x] \in {"unreachable", "merge"}
    BY <2>1, <2>2
  <2>4. ReservedFor(x) /\ CreatorsOf(x)
    OBVIOUS
  <2> QED
    BY <2>1, <2>3, <2>4
<1>21. ASSUME NEW r \in Region, MergeFeatures(r)
      PROVE  ReservedFor(x)'
    BY <1>21 DEF MergeFeatures, ReplaceIn
<1>22. ASSUME NEW r \in Region, MergeUnreachable(r)
      PROVE  ReservedFor(x)'
    BY <1>22 DEF MergeUnreachable
<1>23. ASSUME NEW r \in Region, CreationPanics(r)
      PROVE  ReservedFor(x)'
    BY <1>23 DEF CreationPanics, EndCreation
<1>24. ASSUME NEW r \in Region, EndDiscovery(r)
      PROVE  ReservedFor(x)'
    BY <1>24 DEF EndDiscovery
<1>25. ASSUME NEW r \in Region, AddRegion(r)
      PROVE  ReservedFor(x)'
    BY <1>25 DEF AddRegion
<1>26. ASSUME NEW r \in Region, FinishCreation(r)
      PROVE  ReservedFor(x)'
    BY <1>26 DEF FinishCreation, EndCreation, Free
<1>27. CASE UNCHANGED rlvars
    BY <1>27
<1> QED
    BY <1>1, <1>2, <1>3, <1>4, <1>5, <1>6, <1>7, <1>8, <1>9, <1>10, <1>11, <1>12, <1>13,
       <1>14, <1>15, <1>16, <1>17, <1>18, <1>19, <1>20, <1>21, <1>22, <1>23, <1>24, <1>25,
       <1>26, <1>27
    DEF RegionNext, Step, CallStep, TaskStep, CreateStep

\* No step sets a region back.
LEMMA StatesAdvanceStep ==
    ASSUME RegionInv, [RegionNext]_rlvars
    PROVE  \A x \in Region : Rank[state'[x]] >= Rank[state[x]]
<1> SUFFICES ASSUME NEW x \in Region PROVE Rank[state'[x]] >= Rank[state[x]]
    OBVIOUS
<1> USE DEF RegionInv, RegionTypeOK, KeepsUnloaded, Keeping, CreatorReserved, Begun, Rank,
            Loaded, rlvars, statevars, lockvars, callvars, createvars, featurevars, contvars
<1>1. ASSUME NEW c \in Call, Request(c)
      PROVE  Rank[state'[x]] >= Rank[state[x]]
    BY <1>1 DEF Request, Readable, AddReader, GoTo
<1>2. ASSUME NEW c \in Call, FastPath(c)
      PROVE  Rank[state'[x]] >= Rank[state[x]]
    BY <1>2 DEF FastPath, GoTo, DropReader
<1>3. ASSUME NEW c \in Call, LookUnloaded(c)
      PROVE  Rank[state'[x]] >= Rank[state[x]]
    BY <1>3 DEF LookUnloaded, Free, GoTo
<1>4. ASSUME NEW c \in Call, LookStarted(c)
      PROVE  Rank[state'[x]] >= Rank[state[x]]
    BY <1>4 DEF LookStarted, Free, GoTo
<1>5. ASSUME NEW c \in Call, LookFully(c)
      PROVE  Rank[state'[x]] >= Rank[state[x]]
    BY <1>5 DEF LookFully, Free, AddReader, GoTo
<1>6. ASSUME NEW c \in Call, ScanNear(c)
      PROVE  Rank[state'[x]] >= Rank[state[x]]
    BY <1>6 DEF ScanNear, GoTo
<1>7. ASSUME NEW c \in Call, ScanFar(c)
      PROVE  Rank[state'[x]] >= Rank[state[x]]
  <2>1. PICK line \in SUBSET Region, marked \in SUBSET Region : ScanFarMarks(c, line, marked)
    BY <1>7, ScanFarCases
  <2>2. UNCHANGED <<writer, target, central, work>>
    BY <1>7, Zenon DEF ScanFar
  <2>3. pc[c] = "scan"
    BY <1>7, Zenon DEF ScanFar
  <2> QED
    BY <2>1, <2>2, <2>3 DEF ScanFarMarks, Free
<1>8. ASSUME NEW c \in Call, LineLoaded(c)
      PROVE  Rank[state'[x]] >= Rank[state[x]]
    BY <1>8 DEF LineLoaded, GoTo, Joined, Panicked
<1>9. ASSUME NEW c \in Call, RequestAllNeighbours(c)
      PROVE  Rank[state'[x]] >= Rank[state[x]]
    BY <1>9 DEF RequestAllNeighbours, CanMark, GoTo, Free
<1>10. ASSUME NEW c \in Call, AllLoaded(c)
      PROVE  Rank[state'[x]] >= Rank[state[x]]
    BY <1>10 DEF AllLoaded, GoTo
<1>11. ASSUME NEW c \in Call, Upgrade(c)
      PROVE  Rank[state'[x]] >= Rank[state[x]]
    BY <1>11 DEF Upgrade, Free, IsLoaded, AddReader, GoTo
<1>12. ASSUME NEW c \in Call, Release(c)
      PROVE  Rank[state'[x]] >= Rank[state[x]]
    BY <1>12 DEF Release, DropReader, GoTo
<1>13. ASSUME NEW c \in Call, NEW r \in Region, RequestUnloaded(c, r)
      PROVE  Rank[state'[x]] >= Rank[state[x]]
    BY <1>13 DEF RequestUnloaded, SetTask
<1>14. ASSUME NEW c \in Call, NEW r \in Region, RequestFirst(c, r)
      PROVE  Rank[state'[x]] >= Rank[state[x]]
    BY <1>14 DEF RequestFirst, SetTask, Free
<1>15. ASSUME NEW c \in Call, NEW r \in Region, RequestStarted(c, r)
      PROVE  Rank[state'[x]] >= Rank[state[x]]
    BY <1>15 DEF RequestStarted, SetTask
<1>16. ASSUME NEW c \in Call, NEW r \in Region, ChannelCloses(c, r)
      PROVE  Rank[state'[x]] >= Rank[state[x]]
    BY <1>16 DEF ChannelCloses, SetTask
<1>17. ASSUME NEW r \in Region, TakeContinuations(r)
      PROVE  Rank[state'[x]] >= Rank[state[x]]
    BY <1>17 DEF TakeContinuations
<1>18. ASSUME NEW r \in Region, NEW n \in Region, UseTheirs(r, n)
      PROVE  Rank[state'[x]] >= Rank[state[x]]
    BY <1>18 DEF UseTheirs
<1>19. ASSUME NEW r \in Region, NEW n \in Region, OfferOurs(r, n)
      PROVE  Rank[state'[x]] >= Rank[state[x]]
    BY <1>19 DEF OfferOurs
<1>20. ASSUME NEW r \in Region, NEW n \in Region, ChooseFeature(r, n)
      PROVE  Rank[state'[x]] >= Rank[state[x]]
    BY <1>20 DEF ChooseFeature
<1>21. ASSUME NEW r \in Region, MergeFeatures(r)
      PROVE  Rank[state'[x]] >= Rank[state[x]]
    BY <1>21 DEF MergeFeatures, ReplaceIn
<1>22. ASSUME NEW r \in Region, MergeUnreachable(r)
      PROVE  Rank[state'[x]] >= Rank[state[x]]
    BY <1>22 DEF MergeUnreachable
<1>23. ASSUME NEW r \in Region, CreationPanics(r)
      PROVE  Rank[state'[x]] >= Rank[state[x]]
    BY <1>23 DEF CreationPanics, EndCreation
<1>24. ASSUME NEW r \in Region, EndDiscovery(r)
      PROVE  Rank[state'[x]] >= Rank[state[x]]
    BY <1>24 DEF EndDiscovery
<1>25. ASSUME NEW r \in Region, AddRegion(r)
      PROVE  Rank[state'[x]] >= Rank[state[x]]
    BY <1>25 DEF AddRegion
<1>26. ASSUME NEW r \in Region, FinishCreation(r)
      PROVE  Rank[state'[x]] >= Rank[state[x]]
    BY <1>26 DEF FinishCreation, EndCreation, Free
<1>27. CASE UNCHANGED rlvars
    BY <1>27
<1> QED
    BY <1>1, <1>2, <1>3, <1>4, <1>5, <1>6, <1>7, <1>8, <1>9, <1>10, <1>11, <1>12, <1>13,
       <1>14, <1>15, <1>16, <1>17, <1>18, <1>19, <1>20, <1>21, <1>22, <1>23, <1>24, <1>25,
       <1>26, <1>27
    DEF RegionNext, Step, CallStep, TaskStep, CreateStep

\* Nothing is requested at first, and no lock is held.
LEMMA RegionInitInv ==
    ASSUME RegionInit
    PROVE  RegionInv
<1>1. RegionTypeOK
  <2>1. target \in [Call -> Region]
    BY ForestAssumption DEF RegionInit
  <2> QED
    BY <2>1 DEF RegionInit, RegionTypeOK, Feature
<1>2. KeepsUnloaded /\ NoTaskYet
  BY DEF RegionInit, KeepsUnloaded, Keeping, NoTaskYet
<1>3. MergesFeatures /\ Creators /\ CreatorReserved
  BY DEF RegionInit, MergesFeatures, Creators, CreatorsOf, CreatorReserved, Begun
<1> QED
  BY <1>1, <1>2, <1>3 DEF RegionInv

\* All that a step keeps, together.
LEMMA RegionInvKept ==
    ASSUME RegionInv, [RegionNext]_rlvars
    PROVE  RegionInv'
BY TypesKept, KeepsUnloadedKept, NoTaskYetKept, MergesFeaturesKept, CreatorsKept,
   CreatorReservedKept DEF RegionInv

\* The inductive invariant: whoever keeps a write lock keeps its region unloaded, and
\* a region has one creator, from when it is reserved until it is loaded.
THEOREM RegionInvariant == RegionSpec => []RegionInv
<1>1. RegionInit => RegionInv
  BY RegionInitInv
<1>2. RegionInv /\ [RegionNext]_rlvars => RegionInv'
  BY RegionInvKept
<1> QED
  BY <1>1, <1>2, PTL DEF RegionSpec

\* The variables keep their types; a write lock is held beside no read lock.
THEOREM RegionTypes == RegionSpec => []RegionTypeOK
<1>1. RegionInv => RegionTypeOK
  BY DEF RegionInv
<1> QED
  BY <1>1, RegionInvariant, PTL

\* However many requests, neighbours and threads there are, a region is created by
\* one task at a time, is in progress meanwhile, and loaded when it is done
\* (request_region, create_single_region).
THEOREM OneCreator == RegionSpec => []CreatorReserved
<1>1. RegionInv => CreatorReserved
  BY DEF RegionInv
<1> QED
  BY <1>1, RegionInvariant, PTL

\* No request, task or creation ever sets a region back to an earlier state
\* (RegionLoadState).
THEOREM RegionsAdvance == RegionSpec => StatesAdvance
<1>1. RegionInv /\ [RegionNext]_rlvars
        => [\A r \in Region : Rank[state'[r]] >= Rank[state[r]]]_rlvars
  BY StatesAdvanceStep
<1> QED
  BY <1>1, RegionInvariant, PTL DEF RegionSpec, StatesAdvance

-----------------------------------------------------------------------------
(* What is left when all requests have ended *)

\* A call has tasks only while it waits for them; a region that is requested has a task to
\* create it; and one in progress is being created, or its creation has panicked.
TasksJoined ==
    \A c \in Call : pc[c] \notin {"line", "join"} =>
        \A r \in Region : task[c][r] \in {"none", "done", "panicked"}
TaskForRequested == \A r \in Region : state[r] = "Requested" => \E c \in Call : task[c][r] = "request"
ProgressMade == \A r \in Region : state[r] = "InProgress" => work[r] \in Begun \cup {"panicked"}
LeftInv == TasksJoined /\ TaskForRequested /\ ProgressMade

\* Where a call goes without touching a task or a region.
LEMMA LeftByMoves ==
    ASSUME RegionInv, LeftInv, NEW c \in Call, NEW p,
           pc' = [pc EXCEPT ![c] = p], UNCHANGED <<state, task, work>>,
           pc[c] \in {"line", "join"} => Joined(c)
    PROVE  LeftInv'
<1>1. pc \in [Call -> {"idle", "fast", "want", "scan", "line", "mark", "join", "upgrade", "holding",
                      "done", "panicked"}]
  BY DEF RegionInv, RegionTypeOK
<1>2. TasksJoined'
  BY <1>1 DEF LeftInv, TasksJoined, Joined
<1>3. TaskForRequested' /\ ProgressMade'
  BY DEF LeftInv, TaskForRequested, ProgressMade
<1> QED
  BY <1>2, <1>3 DEF LeftInv

\* A call that has joined its tasks spawns others, for all that it marks.
SpawnsFor(c, p, new, marked) ==
    /\ pc[c] \in {"scan", "mark"} /\ pc' = [pc EXCEPT ![c] = p]
    /\ task' = [task EXCEPT ![c] = [x \in Region |-> IF x \in new THEN "request" ELSE "none"]]
    /\ state' = [x \in Region |-> IF x \in marked THEN "Requested" ELSE state[x]]
    /\ marked \subseteq new /\ UNCHANGED work

LEMMA LeftBySpawn ==
    ASSUME RegionInv, LeftInv, NEW c \in Call, NEW p \in {"line", "join"}, NEW new, NEW marked,
           SpawnsFor(c, p, new, marked)
    PROVE  LeftInv'
<1> USE DEF SpawnsFor
<1>1. /\ pc \in [Call -> {"idle", "fast", "want", "scan", "line", "mark", "join", "upgrade", "holding",
                      "done", "panicked"}]
      /\ task \in [Call -> [Region -> {"none", "request", "create", "wait", "done", "panicked"}]]
  BY DEF RegionInv, RegionTypeOK
<1>2. TasksJoined'
  BY <1>1 DEF LeftInv, TasksJoined
<1>3. TaskForRequested'
  <2> SUFFICES ASSUME NEW r \in Region, state'[r] = "Requested" PROVE \E d \in Call : task'[d][r] = "request"
    BY DEF TaskForRequested
  <2>1. CASE r \in marked
    BY <1>1, <2>1
  <2>2. CASE r \notin marked
    <3>1. PICK d \in Call : task[d][r] = "request"
      BY <2>2 DEF LeftInv, TaskForRequested
    <3>2. d # c
      BY <3>1 DEF RegionInv, NoTaskYet
    <3> QED
      BY <1>1, <3>1, <3>2
  <2> QED
    BY <2>1, <2>2
<1>4. ProgressMade'
  BY DEF LeftInv, ProgressMade
<1> QED
  BY <1>2, <1>3, <1>4 DEF LeftInv

LEMMA LeftByCalls ==
    ASSUME RegionInv, LeftInv, NEW c \in Call, Request(c) \/ CallStep(c)
    PROVE  LeftInv'
<1>1. CASE Request(c) \/ LookUnloaded(c) \/ LookStarted(c) \/ LookFully(c) \/ ScanNear(c)
           \/ LineLoaded(c) \/ AllLoaded(c) \/ Release(c)
  <2>1. /\ \E p : pc' = [pc EXCEPT ![c] = p]
        /\ UNCHANGED <<state, task, work>>
        /\ pc[c] \in {"line", "join"} => Joined(c)
    BY <1>1 DEF Request, LookUnloaded, LookStarted, LookFully, ScanNear, LineLoaded, AllLoaded,
                Release, GoTo, statevars, createvars
  <2> QED
    BY <2>1, LeftByMoves
<1>2. CASE FastPath(c)
  <2>1. /\ \E p : pc' = [pc EXCEPT ![c] = p]
        /\ UNCHANGED <<state, task, work>>
        /\ pc[c] = "fast"
    BY <1>2, Zenon DEF FastPath, GoTo, statevars, createvars
  <2> QED
    BY <2>1, LeftByMoves
<1>3. CASE ScanFar(c)
  <2>1. PICK line \in SUBSET Region, marked \in SUBSET Region :
            ScanFarMarks(c, line, marked)
    BY <1>3, ScanFarCases DEF RegionInv, RegionTypeOK
  <2>2. pc[c] = "scan" /\ UNCHANGED work
    BY <1>3, Zenon DEF ScanFar, createvars
  <2>3. SpawnsFor(c, "line", line, marked)
    BY <2>1, <2>2 DEF ScanFarMarks, SpawnsFor
  <2> QED
    BY <2>3, LeftBySpawn
<1>4. CASE RequestAllNeighbours(c)
  <2> DEFINE r == target[c]
             owned == IF central[c] = "RequestAndWait" THEN {r} ELSE {}
             new == Neighbours(r) \cup (IF central[c] \in {"Wait", "RequestAndWait"} THEN {r} ELSE {})
  <2>1. PICK marked \in CanMark(c, Neighbours(r)) :
            state' = [x \in Region |-> IF x \in marked \cup owned THEN "Requested" ELSE state[x]]
    BY <1>4 DEF RequestAllNeighbours
  <2>2. marked \cup owned \subseteq new
    BY <2>1 DEF CanMark
  <2>3. /\ pc[c] = "mark" /\ pc' = [pc EXCEPT ![c] = "join"] /\ UNCHANGED work
        /\ task' = [task EXCEPT ![c] = [x \in Region |-> IF x \in new THEN "request" ELSE "none"]]
    BY <1>4 DEF RequestAllNeighbours, GoTo, createvars
  <2> HIDE DEF new, owned
  <2>4. SpawnsFor(c, "join", new, marked \cup owned)
    BY <2>1, <2>2, <2>3 DEF SpawnsFor
  <2> QED
    BY <2>4, LeftBySpawn
<1>5. CASE Upgrade(c)
  <2>1. /\ pc' = [pc EXCEPT ![c] = "holding"] /\ pc[c] = "upgrade"
        /\ state' = [state EXCEPT ![target[c]] = "Fully"] /\ UNCHANGED <<task, work>>
    BY <1>5 DEF Upgrade, GoTo, createvars
  <2>2. state \in [Region -> {"Unloaded", "Requested", "InProgress"} \cup Loaded]
        /\ pc \in [Call -> {"idle", "fast", "want", "scan", "line", "mark", "join", "upgrade",
                            "holding", "done", "panicked"}]
    BY DEF RegionInv, RegionTypeOK
  <2>3. TasksJoined'
    BY <2>1, <2>2 DEF LeftInv, TasksJoined
  <2>4. \A x \in Region : state'[x] \in {state[x], "Fully"}
    BY <2>1, <2>2
  <2>5. TaskForRequested' /\ ProgressMade'
    BY <2>1, <2>4 DEF LeftInv, TaskForRequested, ProgressMade
  <2> QED
    BY <2>3, <2>5 DEF LeftInv
<1> QED
  BY <1>1, <1>2, <1>3, <1>4, <1>5 DEF CallStep

LEMMA LeftByTasks ==
    ASSUME RegionInv, LeftInv, NEW c \in Call, NEW r \in Region, TaskStep(c, r)
    PROVE  LeftInv'
<1>1. /\ task \in [Call -> [Region -> {"none", "request", "create", "wait", "done", "panicked"}]]
      /\ state \in [Region -> {"Unloaded", "Requested", "InProgress"} \cup Loaded]
      /\ work \in [Region -> {"none", "chunks", "spread", "merge", "unreachable", "add", "finish",
                              "done", "panicked"}]
  BY DEF RegionInv, RegionTypeOK
<1>2. /\ UNCHANGED pc /\ \E s : task' = [task EXCEPT ![c][r] = s]
      /\ task[c][r] \in {"request", "wait"}
  BY DEF TaskStep, RequestUnloaded, RequestFirst, RequestStarted, ChannelCloses, SetTask, callvars
<1>3. TasksJoined'
  <2>1. pc[c] \in {"line", "join"}
    BY <1>2 DEF LeftInv, TasksJoined
  <2>2. \A d \in Call : d # c => task'[d] = task[d]
    BY <1>1, <1>2
  <2> QED
    BY <1>2, <2>1, <2>2 DEF LeftInv, TasksJoined
<1>4. \A d \in Call, x \in Region : d # c \/ x # r => task'[d][x] = task[d][x]
  BY <1>1, <1>2
<1>5. CASE RequestFirst(c, r)
  <2>1. /\ state' = [state EXCEPT ![r] = "InProgress"] /\ work' = [work EXCEPT ![r] = "chunks"]
    BY <1>5 DEF RequestFirst
  <2>2. \A x \in Region : x # r => state'[x] = state[x] /\ work'[x] = work[x]
    BY <1>1, <2>1
  <2>3. state'[r] = "InProgress" /\ work'[r] \in Begun
    BY <1>1, <2>1 DEF Begun
  <2>4. TaskForRequested'
    BY <1>4, <2>2, <2>3 DEF LeftInv, TaskForRequested
  <2>5. ProgressMade'
    BY <2>2, <2>3 DEF LeftInv, ProgressMade
  <2> QED
    BY <1>3, <2>4, <2>5 DEF LeftInv
<1>6. CASE ~ RequestFirst(c, r)
  <2>1. UNCHANGED <<state, work>> /\ (task[c][r] = "request" => state[r] # "Requested")
    BY <1>6 DEF TaskStep, RequestUnloaded, RequestStarted, ChannelCloses, Loaded, statevars, createvars
  <2>2. TaskForRequested'
    BY <1>4, <2>1 DEF LeftInv, TaskForRequested
  <2>3. ProgressMade'
    BY <2>1 DEF LeftInv, ProgressMade
  <2> QED
    BY <1>3, <2>2, <2>3 DEF LeftInv
<1> QED
  BY <1>5, <1>6

LEMMA LeftByCreation ==
    ASSUME RegionInv, LeftInv, NEW r \in Region, CreateStep(r)
    PROVE  LeftInv'
<1>1. /\ task \in [Call -> [Region -> {"none", "request", "create", "wait", "done", "panicked"}]]
      /\ state \in [Region -> {"Unloaded", "Requested", "InProgress"} \cup Loaded]
      /\ work \in [Region -> {"none", "chunks", "spread", "merge", "unreachable", "add", "finish",
                              "done", "panicked"}]
  BY DEF RegionInv, RegionTypeOK
<1>2. CASE CreationPanics(r) \/ FinishCreation(r)
  <2>1. UNCHANGED pc /\ \E s \in {"done", "panicked"} : EndCreation(r, s) /\ work' = [work EXCEPT ![r] = s]
    BY <1>2 DEF CreationPanics, FinishCreation, callvars
  <2>2. /\ state' = state \/ state' = [state EXCEPT ![r] = "Partially"]
        /\ work'[r] = "done" => state'[r] = "Partially"
    BY <1>1, <1>2 DEF CreationPanics, FinishCreation, statevars
  <2>3. \A c \in Call, x \in Region : \/ task'[c][x] = task[c][x]
                                      \/ task[c][x] = "create" /\ task'[c][x] \in {"done", "panicked"}
    BY <1>1, <2>1 DEF EndCreation
  <2>4. TasksJoined'
    BY <2>1, <2>3 DEF LeftInv, TasksJoined
  <2>5. \A x \in Region : state'[x] \in {state[x], "Partially"}
    BY <1>1, <2>2
  <2>6. TaskForRequested'
    BY <2>3, <2>5 DEF LeftInv, TaskForRequested
  <2>7. \A x \in Region : x # r => work'[x] = work[x]
    BY <1>1, <2>1
  <2>8. work'[r] \in {"done", "panicked"}
    BY <1>1, <2>1
  <2>9. ProgressMade'
    BY <2>2, <2>5, <2>7, <2>8 DEF LeftInv, ProgressMade
  <2> QED
    BY <2>4, <2>6, <2>9 DEF LeftInv
<1>3. CASE ~ (CreationPanics(r) \/ FinishCreation(r))
  <2>1. UNCHANGED <<state, task, pc>>
    BY <1>3 DEF CreateStep, TakeContinuations, UseTheirs, OfferOurs, ChooseFeature, MergeFeatures,
                MergeUnreachable, EndDiscovery, AddRegion, statevars, callvars
  <2>2. work' = work \/ \E s \in Begun : work' = [work EXCEPT ![r] = s]
    <3>1. CASE \E n \in Region : ChooseFeature(r, n)
      <4>1. \E b : work' = [work EXCEPT ![r] = IF b THEN "unreachable" ELSE "merge"]
        BY <3>1, Zenon DEF ChooseFeature
      <4> QED
        BY <4>1 DEF Begun
    <3>2. CASE TakeContinuations(r)
      <4>1. \/ work' = [work EXCEPT ![r] = "spread"] \/ work' = [work EXCEPT ![r] = "finish"]
        BY <3>2, Zenon DEF TakeContinuations
      <4> QED
        BY <4>1 DEF Begun
    <3>3. CASE ~ TakeContinuations(r) /\ ~ \E n \in Region : ChooseFeature(r, n)
      BY <1>3, <3>3 DEF CreateStep, UseTheirs, OfferOurs, MergeFeatures, MergeUnreachable, EndDiscovery,
                  AddRegion, Begun
    <3> QED
      BY <3>1, <3>2, <3>3
  <2>3. \A x \in Region : work'[x] = work[x] \/ work'[x] \in Begun
    BY <1>1, <2>2
  <2> QED
    BY <2>1, <2>3 DEF LeftInv, TasksJoined, TaskForRequested, ProgressMade
<1> QED
  BY <1>2, <1>3

\* When every request has ended, no region is left requested or in progress, however they
\* overlapped and whichever panicked, unless it was in creating a region.
THEOREM NothingIsLeft == RegionSpec => []NothingLeftBehind
<1>1. RegionInit => LeftInv
  BY DEF RegionInit, LeftInv, TasksJoined, TaskForRequested, ProgressMade
<1>2. RegionInv /\ LeftInv /\ [RegionNext]_rlvars => LeftInv'
  <2> SUFFICES ASSUME RegionInv, LeftInv, [RegionNext]_rlvars PROVE LeftInv'
    OBVIOUS
  <2>1. CASE UNCHANGED rlvars
    BY <2>1 DEF rlvars, statevars, callvars, createvars, LeftInv, TasksJoined, TaskForRequested,
                ProgressMade
  <2> QED
    BY <2>1, LeftByCalls, LeftByTasks, LeftByCreation DEF RegionNext, Step
<1>3. RegionInv /\ LeftInv => NothingLeftBehind
  <2> SUFFICES ASSUME RegionInv, LeftInv, \A c \in Call : pc[c] \in Over, ~CreationPanicked,
                      NEW r \in Region
               PROVE  state[r] \notin {"Requested", "InProgress"}
    BY DEF NothingLeftBehind
  <2>1. \A c \in Call : task[c][r] \in {"none", "done", "panicked"}
    BY DEF LeftInv, TasksJoined, Over
  <2>2. state[r] # "Requested"
    BY <2>1 DEF LeftInv, TaskForRequested
  <2>3. work[r] \notin Begun
    BY <2>1 DEF RegionInv, CreatorReserved
  <2> QED
    BY <2>2, <2>3 DEF LeftInv, ProgressMade, CreationPanicked
<1> QED
  BY <1>1, <1>2, <1>3, RegionInvariant, PTL DEF RegionSpec

=============================================================================
