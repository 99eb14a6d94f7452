--------------------------- MODULE MCTaskRuntime ----------------------------
(* One entity with timers of one and two ticks, and two types of events. *)
EXTENDS TaskRuntime, TLC

CONSTANTS e1, e2, item, h1, h2, h3, Hauled, Died

MCEntity == {e1, e2}
OneEntity == {e1}
MCSubject == {item}
MCType == {Hauled, Died}
OneType == {Hauled}
MCHandle == {h1, h2, h3}
MCWaitTicks == {1, 2}
NoWait == {}
=============================================================================
