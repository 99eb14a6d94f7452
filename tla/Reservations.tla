---------------------------- MODULE Reservations ----------------------------
(***************************************************************************)
(* The reservation table of a society's job list                           *)
(* (society/job/list.rs, struct Reservations<T>): which entity has         *)
(* promised to work on which society task.                                 *)
(*                                                                         *)
(* The code keeps the pairs (task, entity) in a vector, and beside it a    *)
(* reference count per task, `task_membership`, used as a fast check.      *)
(* Nothing but the code of the three operations keeps the two in step, and *)
(* nothing but reserve() keeps an entity to a single pair.  The order of   *)
(* the vector is never observed, so the model holds the pairs in a set.    *)
(***************************************************************************)
EXTENDS Integers, FiniteSets

CONSTANTS
    Entity,         \* entities that may reserve
    Task,           \* society tasks (trait ReservationTask)
    max_reservers   \* Task -> how many in total can work on it

ASSUME EntityAssumption == IsFiniteSet(Entity)
ASSUME MaxReserversAssumption == max_reservers \in [Task -> Nat \ {0}]

VARIABLES
    reservations,    \* set of <<task, entity>>
    task_membership  \* Task -> reference count, 0 standing for "not in the map"

rvars == <<reservations, task_membership>>

ResTypeOK ==
    /\ reservations \in SUBSET (Task \X Entity)
    /\ task_membership \in [Task -> Nat]

ResInit ==
    /\ reservations = {}
    /\ task_membership = [t \in Task |-> 0]

-----------------------------------------------------------------------------
(* Reference counts. *)

AddRef(m, t) == [m EXCEPT ![t] = @ + 1]

\* saturating_sub(1); an entry that reaches 0 leaves the map
ReleaseRef(m, t) == [m EXCEPT ![t] = IF @ = 0 THEN 0 ELSE @ - 1]

ReservationsOf(e) == {r \in reservations : r[2] = e}

ReserversOf(t) == {r \in reservations : r[1] = t}

-----------------------------------------------------------------------------
(* The operations *)

\* reserve(task, reserver) when the entity holds nothing: push a new pair.
ReserveNew(t, e) ==
    /\ ReservationsOf(e) = {}
    /\ reservations' = reservations \cup {<<t, e>>}
    /\ task_membership' = AddRef(task_membership, t)

\* ... when the entity's pair is already this one: do nothing.
ReserveAgain(t, e) ==
    /\ <<t, e>> \in ReservationsOf(e)
    /\ UNCHANGED rvars

\* Mutant of ReserveReplace: the old task's count is not released.
ReserveReplaceLeaks(t, e) ==
    \E prev \in ReservationsOf(e) :
        /\ prev[1] # t
        /\ reservations' = (reservations \ {prev}) \cup {<<t, e>>}
        /\ task_membership' = AddRef(task_membership, t)

\* ... when it holds another: its task is replaced in place, with add_ref of
\* the new task before release_ref of the previous one.
ReserveReplace(t, e) ==
    \E prev \in ReservationsOf(e) :
        /\ prev[1] # t
        /\ reservations' = (reservations \ {prev}) \cup {<<t, e>>}
        /\ task_membership' = ReleaseRef(AddRef(task_membership, t), prev[1])

Reserve(t, e) ==
    \/ ReserveNew(t, e)
    \/ ReserveAgain(t, e)
    \/ ReserveReplace(t, e)

\* cancel(reserver): swap_remove the entity's pair, if any, and release it.
CancelHeld(e) ==
    \E prev \in ReservationsOf(e) :
        /\ reservations' = reservations \ {prev}
        /\ task_membership' = ReleaseRef(task_membership, prev[1])

CancelNone(e) ==
    /\ ReservationsOf(e) = {}
    /\ UNCHANGED rvars

Cancel(e) == CancelHeld(e) \/ CancelNone(e)

-----------------------------------------------------------------------------
(* check_for: what the AI is told about a task before it scores it.  The   *)
(* loop over the vector stops at the first pair that decides: the caller's *)
(* own, or the one that fills the task.  With the vector's order left out, *)
(* the answer is a set of the possible ones.                               *)

Shareable(n) == [kind |-> "ReservedButShareable", count |-> n]
Unreserved == [kind |-> "Unreserved", count |-> 0]
ReservedBySelf == [kind |-> "ReservedBySelf", count |-> 0]
Unavailable == [kind |-> "Unavailable", count |-> 0]

CheckFor(t, e) ==
    LET others == Cardinality({r \in ReserversOf(t) : r[2] # e})
        mine == <<t, e>> \in reservations
    IN  IF task_membership[t] = 0 THEN {Unreserved}
        ELSE (IF mine THEN {ReservedBySelf} ELSE {})
             \cup (IF others >= max_reservers[t] THEN {Unavailable} ELSE {})
             \cup (IF ~mine /\ others < max_reservers[t]
                   THEN {Shareable(others)} ELSE {})

-----------------------------------------------------------------------------
(* The table on its own: any caller, any order of calls. *)

ResNext ==
    \E e \in Entity :
        \/ Cancel(e)
        \/ \E t \in Task : Reserve(t, e)

ResSpec == ResInit /\ [][ResNext]_rvars

-----------------------------------------------------------------------------
(* Properties *)

\* An entity has at most one reservation (the debug assertions "has multiple
\* reservations" of reserve() and cancel(), list.rs:286-295 and 326-335).
OneTaskPerEntity ==
    \A r, s \in reservations : r[2] = s[2] => r = s

\* The fast-check count of a task is exactly the number of pairs that name
\* it: a count too low hides a reserved task as Unreserved, one too high makes
\* release_ref leave a phantom entry, and check_for's debug_assert_eq!
\* (list.rs:373) fires on either.
CountsAgree ==
    \A t \in Task : task_membership[t] = Cardinality(ReserversOf(t))

=============================================================================
