------------------------------ MODULE WorldStore ------------------------------
(***************************************************************************)
(* What the world loader promises of the world: every slab is absent until *)
(* it is wanted, is loaded once, as it was generated, and keeps every      *)
(* terrain update made to it from then on.                                 *)
(***************************************************************************)
EXTENDS FiniteSets

CONSTANTS Slabs, Updates

VARIABLES slab, edits

storeVars == <<slab, edits>>

Init == slab = [l \in Slabs |-> "absent"] /\ edits = [l \in Slabs |-> {}]

Want(ls) ==
  /\ ls # {} /\ \A l \in ls : slab[l] = "absent"
  /\ slab' = [l \in Slabs |-> IF l \in ls THEN "wanted" ELSE slab[l]]
  /\ UNCHANGED edits

Load(ls) ==
  /\ ls # {} /\ \A l \in ls : slab[l] = "wanted"
  /\ slab' = [l \in Slabs |-> IF l \in ls THEN "loaded" ELSE slab[l]]
  /\ UNCHANGED edits

Edit(ls) ==
  /\ ls # {} /\ \A l \in ls : slab[l] = "loaded"
  /\ \A l \in ls : edits[l] # edits'[l] /\ edits[l] \subseteq edits'[l]
  /\ edits' \in [Slabs -> SUBSET Updates]
  /\ \A l \in Slabs \ ls : edits'[l] = edits[l]
  /\ UNCHANGED slab

Next == \E ls \in SUBSET Slabs : Want(ls) \/ Load(ls) \/ Edit(ls)

Spec == Init /\ [][Next]_storeVars
=============================================================================
