------------------------- MODULE MCRegionLoading -----------------------------
(* A strip of five regions, with a forest in the middle.                      *)
EXTENDS RegionLoading

MCRegion == 1..5
MCDistance == [r \in MCRegion |-> [n \in MCRegion |-> IF r < n THEN n - r ELSE r - n]]
MCLine == [r \in MCRegion |-> [n \in MCRegion |->
              {x \in MCRegion : (r < x /\ x < n) \/ (n < x /\ x < r)}]]
\* A forest goes on into every neighbour that has one.
MCOverflows == [r \in MCRegion |->
                   IF r \in Forest THEN {n \in Forest : MCDistance[r][n] = 1} ELSE {}]
=============================================================================
