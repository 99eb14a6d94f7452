---------------------------- MODULE MCWorldLoader ----------------------------
(* Instances of WorldLoader for TLC: a camera that moves over two chunks, and *)
(* two worker threads; and, as another instance over the same variables, one  *)
(* worker thread and a slab that fails to load.                               *)
EXTENDS WorldLoader

MCViews == {{<<c, 0>> : c \in cs} : cs \in {{1}, {1, 2}}}
MCOutside == {<<2, 0>>}
\* Every tick updates slabs of one layer.
MCCovers == [u1 |-> {<<1, 0>>}, u2 |-> {<<1, 0>>, <<2, 0>>}]
NoSlabs == {}

Single == INSTANCE WorldLoader
            WITH Threads <- 1, Views <- {{<<1, 0>>}, {<<2, 0>>}},
                 Broken <- {<<2, 0>>}, Outside <- {}

VARIABLE single   \* which of the two instances runs

LoaderNext ==
    \/ ~single /\ Next /\ UNCHANGED single
    \/ single /\ Single!Next /\ UNCHANGED single

LoaderInit == single \in BOOLEAN /\ IF single THEN Single!Init ELSE Init

\* Fairness of the instance whose liveness is checked.
Alone(A) == single /\ A /\ UNCHANGED single

BothSpec ==
    /\ LoaderInit /\ [][LoaderNext]_<<vars, single>>
    /\ WF_<<vars, single>>(Alone(Single!RequestSlabs))
    /\ WF_<<vars, single>>(Alone(Single!ApplyUpdates))
    /\ WF_<<vars, single>>(Alone(Single!Finalize))
    /\ \A l \in Slabs :
          WF_<<vars, single>>(Alone(\E t \in tasks : t.slab = l /\ Single!Work(t)))

ManySpec == LoaderInit /\ ~single /\ [][LoaderNext]_<<vars, single>>

\* Every request and every update is served in the end, unless it waits for a slab
\* that failed to load (RequestsEnd and UpdatesEnd).
AllEnds == single => Single!RequestsEnd /\ Single!UpdatesEnd
=============================================================================
