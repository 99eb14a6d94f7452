---------------------------- MODULE MCSocietyWork ---------------------------
(* Two entities and two jobs: one to break a block, as the player may also  *)
(* command, and one to gather a material, whose task is a different one     *)
(* when less of it is missing, though the action may be the same.           *)
EXTENDS SocietyWork, TLC

CONSTANTS e1, e2, j1, j2, break, gather2, gather1, go_break, haul, wander

MCEntity == {e1, e2}
Symmetric == Permutations(MCEntity)
MCJob == {j1, j2}
MCTask == {break, gather2, gather1}
MCMaxReservers == break :> 1 @@ gather2 :> 2 @@ gather1 :> 2
MCJobTasks == j1 :> {break} @@ j2 :> {gather2, gather1}
MCAction == {go_break, haul, wander}
MCActionsOf == break :> {go_break} @@ gather2 :> {haul} @@ gather1 :> {haul}
MCBaseAction == {wander}
MCDivineAction == {go_break}
=============================================================================
