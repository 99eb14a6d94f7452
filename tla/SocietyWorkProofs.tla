-------------------------- MODULE SocietyWorkProofs -------------------------
(***************************************************************************)
(* For any number of entities, jobs and tasks: the reservation table, the  *)
(* AI and the activity system agree about who works on what, and nobody    *)
(* shares an unshareable task.                                             *)
(*                                                                         *)
(* None of these is inductive by itself.  That two entities do not work on *)
(* the same task depends on what was decided earlier in the same run of    *)
(* the AI, from a table that has been written to since, while some         *)
(* entities have already switched and others not.  SocietyInv says how far *)
(* the parts may have drifted apart in each phase.                         *)
(*                                                                         *)
(* The table comes first: whoever calls it, an entity never holds two      *)
(* reservations, and the reference counts agree with the pairs.            *)
(***************************************************************************)
EXTENDS SocietyWork, FiniteSetTheorems, TLAPS

-----------------------------------------------------------------------------
(* The table of reservations alone (Reservations) *)

ResInv ==
    /\ ResTypeOK
    /\ IsFiniteSet(reservations)
    /\ OneTaskPerEntity
    /\ CountsAgree

\* The pairs of a table R that name task t, and how many they are.
NamingIn(R, t) == {r \in R : r[1] = t}
CountIn(R, t) == Cardinality(NamingIn(R, t))

\* The pairs that name a task form a finite set.
LEMMA ReserversFinite ==
    ASSUME NEW R, IsFiniteSet(R), NEW t
    PROVE  IsFiniteSet(NamingIn(R, t))
<1>1. NamingIn(R, t) \in SUBSET R
  BY DEF NamingIn
<1> QED
  BY <1>1, FS_Subset

\* Adding a pair that is not in the set counts once for its own task and not
\* at all for another.
LEMMA CountAfterAdd ==
    ASSUME NEW R, IsFiniteSet(R), NEW t \in Task, NEW e \in Entity,
           <<t, e>> \notin R, NEW u \in Task
    PROVE  CountIn(R \cup {<<t, e>>}, u) = CountIn(R, u) + (IF u = t THEN 1 ELSE 0)
<1> DEFINE S == NamingIn(R, u)
           T == NamingIn(R \cup {<<t, e>>}, u)
<1>1. IsFiniteSet(S) /\ Cardinality(S) \in Nat
  BY ReserversFinite, FS_CardinalityType DEF NamingIn
<1>2. u = t => T = S \cup {<<t, e>>} /\ <<t, e>> \notin S
  BY DEF NamingIn
<1>3. u # t => T = S
  BY DEF NamingIn
<1>4. CountIn(R, u) = Cardinality(S) /\ CountIn(R \cup {<<t, e>>}, u) = Cardinality(T)
  BY DEF CountIn
<1> HIDE DEF S, T
<1>5. u = t => Cardinality(T) = Cardinality(S) + 1
  BY <1>1, <1>2, FS_AddElement
<1> QED
  BY <1>1, <1>3, <1>4, <1>5

\* Removing a pair that is in the set is the reverse.
LEMMA CountAfterRemove ==
    ASSUME NEW R, IsFiniteSet(R), NEW p \in R, NEW u \in Task
    PROVE  /\ CountIn(R \ {p}, u) = CountIn(R, u) - (IF u = p[1] THEN 1 ELSE 0)
           /\ u = p[1] => CountIn(R, u) # 0
<1> DEFINE S == NamingIn(R, u)
           T == NamingIn(R \ {p}, u)
<1>1. IsFiniteSet(S) /\ Cardinality(S) \in Nat
  BY ReserversFinite, FS_CardinalityType DEF NamingIn
<1>2. u = p[1] => T = S \ {p} /\ p \in S
  BY DEF NamingIn
<1>3. u # p[1] => T = S
  BY DEF NamingIn
<1>4. CountIn(R, u) = Cardinality(S) /\ CountIn(R \ {p}, u) = Cardinality(T)
  BY DEF CountIn
<1> HIDE DEF S, T
<1>5. u = p[1] => Cardinality(T) = Cardinality(S) - 1 /\ Cardinality(S) # 0
  BY <1>1, <1>2, FS_RemoveElement, FS_EmptySet
<1> QED
  BY <1>1, <1>3, <1>4, <1>5

LEMMA ResInitInv == ResInit => ResInv
<1> SUFFICES ASSUME ResInit PROVE ResInv
  OBVIOUS
<1>1. IsFiniteSet(reservations)
  BY FS_EmptySet DEF ResInit
<1>2. \A t \in Task : ReserversOf(t) = {}
  BY DEF ResInit, ReserversOf
<1> QED
  BY <1>1, <1>2, FS_EmptySet
  DEF ResInit, ResInv, ResTypeOK, OneTaskPerEntity, CountsAgree

\* reserve() preserves the invariant, whoever calls it and for whatever task.
LEMMA ReserveInv ==
    ASSUME ResInv, NEW t \in Task, NEW e \in Entity, Reserve(t, e)
    PROVE  ResInv'
<1> USE DEF ResInv
<1>1. CASE ReserveNew(t, e)
  <2>1. <<t, e>> \notin reservations
    BY <1>1 DEF ReserveNew, ReservationsOf
  <2>2. IsFiniteSet(reservations')
    BY <1>1, FS_AddElement DEF ReserveNew
  <2>3. ResTypeOK'
    BY <1>1 DEF ReserveNew, ResTypeOK, AddRef
  <2>4. OneTaskPerEntity'
    BY <1>1 DEF ReserveNew, OneTaskPerEntity, ReservationsOf
  <2>5. CountsAgree'
    <3> SUFFICES ASSUME NEW u \in Task
                 PROVE  task_membership'[u]
                          = CountIn(reservations', u)
      BY DEF CountsAgree, ReserversOf, CountIn, NamingIn
    <3>1. CountIn(reservations', u)
            = CountIn(reservations, u)
              + (IF u = t THEN 1 ELSE 0)
      BY <1>1, <2>1, CountAfterAdd DEF ReserveNew
    <3> QED
      BY <1>1, <3>1 DEF ReserveNew, AddRef, CountsAgree, ReserversOf, ResTypeOK, CountIn, NamingIn
  <2> QED
    BY <2>2, <2>3, <2>4, <2>5
<1>2. CASE ReserveAgain(t, e)
  BY <1>2 DEF ReserveAgain, rvars, ResTypeOK, OneTaskPerEntity, CountsAgree, ReserversOf
<1>3. CASE ReserveReplace(t, e)
  <2>1. PICK prev \in ReservationsOf(e) :
          /\ prev[1] # t
          /\ reservations' = (reservations \ {prev}) \cup {<<t, e>>}
          /\ task_membership' = ReleaseRef(AddRef(task_membership, t), prev[1])
    BY <1>3 DEF ReserveReplace
  <2>2. prev \in reservations /\ prev[2] = e /\ prev[1] \in Task /\ prev = <<prev[1], e>>
    BY <2>1 DEF ReservationsOf, ResTypeOK
  <2> DEFINE R == reservations \ {prev}
  <2>3. IsFiniteSet(R) /\ IsFiniteSet(reservations')
    BY <2>1, FS_RemoveElement, FS_AddElement
  <2>4. <<t, e>> \notin R
    BY <2>1, <2>2 DEF OneTaskPerEntity
  <2>5. ResTypeOK'
    BY <2>1, <2>2 DEF ResTypeOK, AddRef, ReleaseRef
  <2>6. OneTaskPerEntity'
    BY <2>1, <2>2 DEF OneTaskPerEntity
  <2>7. CountsAgree'
    <3> SUFFICES ASSUME NEW u \in Task
                 PROVE  task_membership'[u]
                          = CountIn(reservations', u)
      BY DEF CountsAgree, ReserversOf, CountIn, NamingIn
    <3>1. CountIn(reservations', u)
            = CountIn(R, u) + (IF u = t THEN 1 ELSE 0)
      BY <2>1, <2>3, <2>4, CountAfterAdd
    <3>2. CountIn(R, u)
            = CountIn(reservations, u)
              - (IF u = prev[1] THEN 1 ELSE 0)
      BY <2>2, CountAfterRemove
    <3>3. task_membership[u] = CountIn(reservations, u)
      BY DEF CountsAgree, ReserversOf, CountIn, NamingIn
    <3>4. u = prev[1] => task_membership[u] # 0
      BY <2>2, <3>3, CountAfterRemove
    <3> QED
      BY <2>1, <2>2, <3>1, <3>2, <3>3, <3>4 DEF AddRef, ReleaseRef, ResTypeOK
  <2> QED
    BY <2>3, <2>5, <2>6, <2>7
<1> QED
  BY <1>1, <1>2, <1>3 DEF Reserve

\* cancel() preserves it too.
LEMMA CancelInv ==
    ASSUME ResInv, NEW e \in Entity, Cancel(e)
    PROVE  ResInv'
<1> USE DEF ResInv
<1>1. CASE CancelNone(e)
  BY <1>1 DEF CancelNone, rvars, ResTypeOK, OneTaskPerEntity, CountsAgree, ReserversOf
<1>2. CASE CancelHeld(e)
  <2>1. PICK prev \in ReservationsOf(e) :
          /\ reservations' = reservations \ {prev}
          /\ task_membership' = ReleaseRef(task_membership, prev[1])
    BY <1>2 DEF CancelHeld
  <2>2. prev \in reservations /\ prev[1] \in Task
    BY <2>1 DEF ReservationsOf, ResTypeOK
  <2>3. IsFiniteSet(reservations')
    BY <2>1, FS_RemoveElement
  <2>4. ResTypeOK'
    BY <2>1, <2>2 DEF ResTypeOK, ReleaseRef
  <2>5. OneTaskPerEntity'
    BY <2>1 DEF OneTaskPerEntity
  <2>6. CountsAgree'
    <3> SUFFICES ASSUME NEW u \in Task
                 PROVE  task_membership'[u]
                          = CountIn(reservations', u)
      BY DEF CountsAgree, ReserversOf, CountIn, NamingIn
    <3>1. CountIn(reservations', u)
            = CountIn(reservations, u)
              - (IF u = prev[1] THEN 1 ELSE 0)
      BY <2>1, <2>2, CountAfterRemove
    <3>2. task_membership[u] = CountIn(reservations, u)
      BY DEF CountsAgree, ReserversOf, CountIn, NamingIn
    <3>3. u = prev[1] => task_membership[u] # 0
      BY <2>2, <3>2, CountAfterRemove
    <3> QED
      BY <2>1, <2>2, <3>1, <3>2, <3>3 DEF ReleaseRef, ResTypeOK
  <2> QED
    BY <2>3, <2>4, <2>5, <2>6
<1> QED
  BY <1>1, <1>2 DEF Cancel

\* Whatever calls are made, the table stays well formed: at most one task per
\* entity, and every count equal to the number of pairs behind it.
THEOREM ReservationsSound == ResSpec => [](ResTypeOK /\ OneTaskPerEntity /\ CountsAgree)
<1>1. ResInit => ResInv
  BY ResInitInv
<1>2. ResInv /\ [ResNext]_rvars => ResInv'
  <2>1. ASSUME ResInv, ResNext PROVE ResInv'
    BY <2>1, ReserveInv, CancelInv DEF ResNext
  <2>2. ASSUME ResInv, UNCHANGED rvars PROVE ResInv'
    BY <2>2 DEF ResInv, rvars, ResTypeOK, OneTaskPerEntity, CountsAgree, ReserversOf
  <2> QED
    BY <2>1, <2>2
<1>3. ResInv => ResTypeOK /\ OneTaskPerEntity /\ CountsAgree
  BY DEF ResInv
<1> QED
  BY <1>1, <1>2, <1>3, PTL DEF ResSpec

-----------------------------------------------------------------------------
(* The society's invariant *)

\* An entity is visited only by the systems that visit entities, and alive.
Visiting ==
    /\ todo \subseteq alive
    /\ phase \notin {"consume", "activity"} => todo = {}

\* A new activity waits only between the AI's visit and the activity system's.
SwitchPending ==
    \A e \in alive : new_activity[e] # NoActivity =>
        \/ phase = "consume" /\ e \notin todo
        \/ phase = "activity" /\ e \in todo

\* Everybody whom the AI has still to visit has a decision.
Decided == phase = "consume" => \A e \in todo : choice[e] \in Choice

\* An entity with no activity yet works for nobody.
NotStarted ==
    \A e \in alive : running[e] = NoActivity => current_society_task[e] = NoWork

Unshareable(t) == max_reservers[t] = 1

\* Nobody but e has a claim on t, whether reserved, being worked on (by the
\* living), or chosen and not yet reserved.
Reserved(e, t) == <<t, e>> \in reservations
WorksOn(e, t) == e \in alive /\ current_society_task[e] \in Job \X {t}
Chose(e, t) == phase = "consume" /\ e \in todo /\ choice[e].source \in Job \X {t}

UnshareableReserved ==
    \A t \in Task : Unshareable(t) => \A e, f \in Entity :
        Reserved(e, t) /\ Reserved(f, t) => e = f

UnshareableWorked ==
    \A t \in Task : Unshareable(t) => \A e, f \in Entity :
        WorksOn(e, t) /\ (WorksOn(f, t) \/ Reserved(f, t)) => e = f

UnshareableChosen ==
    \A t \in Task : Unshareable(t) => \A e, f \in Entity :
        Chose(e, t) /\ (Chose(f, t) \/ WorksOn(f, t) \/ Reserved(f, t)) => e = f

SocietyInv ==
    /\ SocietyTypeOK
    /\ ResInv
    /\ Visiting
    /\ SwitchPending
    /\ Decided
    /\ NotStarted
    /\ ReservationMatchesAi
    /\ ActivityMatchesAi
    /\ UnshareableReserved
    /\ UnshareableWorked
    /\ UnshareableChosen

-----------------------------------------------------------------------------
(* What the operations on the table do to the pairs. *)

LEMMA ReserveEffect ==
    ASSUME ResInv, NEW t \in Task, NEW e \in Entity, Reserve(t, e)
    PROVE  \A u \in Task, f \in Entity :
              <<u, f>> \in reservations'
                 <=> IF f = e THEN u = t ELSE <<u, f>> \in reservations
<1> USE DEF ReservationsOf
<1>1. CASE ReserveNew(t, e)
  BY <1>1 DEF ReserveNew
<1>2. CASE ReserveAgain(t, e)
  BY <1>2 DEF ReserveAgain, rvars, ResInv, OneTaskPerEntity
<1>3. CASE ReserveReplace(t, e)
  <2>1. PICK prev \in reservations : prev[2] = e
                /\ reservations' = (reservations \ {prev}) \cup {<<t, e>>}
    BY <1>3 DEF ReserveReplace
  <2>2. \A u \in Task : <<u, e>> \in reservations => <<u, e>> = prev
    BY <2>1 DEF ResInv, OneTaskPerEntity
  <2> QED
    BY <2>1, <2>2
<1> QED
  BY <1>1, <1>2, <1>3 DEF Reserve

LEMMA CancelEffect ==
    ASSUME ResInv, NEW e \in Entity, Cancel(e)
    PROVE  \A u \in Task, f \in Entity :
              <<u, f>> \in reservations' <=> f # e /\ <<u, f>> \in reservations
<1> USE DEF ReservationsOf
<1>1. CASE CancelHeld(e)
  <2>1. PICK prev \in reservations : prev[2] = e /\ reservations' = reservations \ {prev}
    BY <1>1 DEF CancelHeld
  <2>2. \A u \in Task : <<u, e>> \in reservations => <<u, e>> = prev
    BY <2>1 DEF ResInv, OneTaskPerEntity
  <2> QED
    BY <2>1, <2>2
<1>2. CASE CancelNone(e)
  BY <1>2 DEF CancelNone, rvars
<1> QED
  BY <1>1, <1>2 DEF Cancel

\* An interrupted entity ends up with the reservation its new source calls
\* for, nobody else's reservation changes, and the table stays well formed.
LEMMA InterruptEffect ==
    ASSUME ResInv, ReservationMatchesAi, SocietyTypeOK,
           NEW e \in alive, NEW source \in Source, InterruptTo(e, source)
    PROVE  /\ ResInv'
           /\ \A t \in Task, f \in Entity :
                 <<t, f>> \in reservations'
                    <=> IF f = e THEN source \in Job \X {t} ELSE <<t, f>> \in reservations
<1>0. e \in Entity
  BY DEF SocietyTypeOK
<1>1. CASE source \in Work
  <2>1. source[2] \in Task /\ Reserve(source[2], e)
    BY <1>1 DEF InterruptTo, Work
  <2>2. ResInv'
    BY <1>0, <2>1, ReserveInv
  <2>3. \A t \in Task : t = source[2] <=> source \in Job \X {t}
    BY <1>1 DEF Work
  <2>4. \A t \in Task, f \in Entity :
           <<t, f>> \in reservations'
              <=> IF f = e THEN t = source[2] ELSE <<t, f>> \in reservations
    BY <1>0, <2>1, ReserveEffect
  <2> QED
    BY <2>2, <2>3, <2>4
<1>2. CASE source \notin Work
  <2>1. \A t \in Task : source \notin Job \X {t}
    BY <1>2 DEF Work
  <2>2. CASE current[e] \in Work
    <3>1. Cancel(e)
      BY <1>2, <2>2 DEF InterruptTo
    <3> QED
      BY <1>0, <2>1, <3>1, CancelInv, CancelEffect
  <2>3. CASE current[e] \notin Work
    <3>1. UNCHANGED rvars
      BY <1>2, <2>3 DEF InterruptTo
    <3>2. ResInv'
      BY <3>1 DEF rvars, ResInv, ResTypeOK, OneTaskPerEntity, CountsAgree, ReserversOf
    <3>3. \A t \in Task : <<t, e>> \notin reservations
      BY <2>3 DEF ReservationMatchesAi, Work
    <3> QED
      BY <2>1, <3>1, <3>2, <3>3 DEF rvars
  <2> QED
    BY <2>2, <2>3
<1> QED
  BY <1>1, <1>2

\* An entity is offered an unshareable task only if nobody else holds it.
LEMMA OfferedIsFree ==
    ASSUME ResInv, UnshareableReserved, NEW t \in Task, Unshareable(t), NEW e \in Entity,
           CheckFor(t, e) # {Unavailable}, NEW f \in Entity, <<t, f>> \in reservations
    PROVE  f = e
<1> SUFFICES ASSUME f # e PROVE FALSE
  OBVIOUS
<1> DEFINE Others == {r \in ReserversOf(t) : r[2] # e}
           Holders == ReserversOf(t)
<1>1. <<t, f>> \in Others /\ <<t, f>> \in Holders
  BY DEF ReserversOf
<1>2. IsFiniteSet(Others) /\ IsFiniteSet(Holders)
  <2>1. Others \subseteq reservations /\ Holders \subseteq reservations
    BY DEF ReserversOf
  <2> QED
    BY <2>1, FS_Subset DEF ResInv
<1>3. task_membership[t] = Cardinality(Holders)
  BY DEF ResInv, CountsAgree
<1>4. CheckFor(t, e) = IF task_membership[t] = 0 THEN {Unreserved}
        ELSE (IF <<t, e>> \in reservations THEN {ReservedBySelf} ELSE {})
             \cup (IF Cardinality(Others) >= max_reservers[t] THEN {Unavailable} ELSE {})
             \cup (IF <<t, e>> \notin reservations /\ Cardinality(Others) < max_reservers[t]
                   THEN {Shareable(Cardinality(Others))} ELSE {})
  BY DEF CheckFor
<1> HIDE DEF Others, Holders
<1>5. Cardinality(Others) \in Nat /\ Cardinality(Others) # 0 /\ Cardinality(Holders) # 0
  BY <1>1, <1>2, FS_CardinalityType, FS_EmptySet
<1>6. <<t, e>> \notin reservations
  BY DEF UnshareableReserved, Reserved
<1> QED
  BY <1>3, <1>4, <1>5, <1>6 DEF Unshareable

-----------------------------------------------------------------------------
(* The steps *)

LEMMA SocietyInitInv == SocietyInit => SocietyInv
<1> SUFFICES ASSUME SocietyInit PROVE SocietyInv
  OBVIOUS
<1> USE DEF SocietyInit
<1>1. ResInv /\ ResTypeOK /\ reservations = {}
  BY ResInitInv DEF ResInv, ResInit
<1>2. SocietyTypeOK
  BY <1>1, AiPeriodAssumption DEF SocietyTypeOK, Phase, Source, Result
<1>3. ReservationMatchesAi /\ ActivityMatchesAi
  BY <1>1, NoneAssumption DEF ReservationMatchesAi, ActivityMatchesAi, WorkOf, Work
<1>4. UnshareableReserved /\ UnshareableWorked /\ UnshareableChosen
  BY <1>1, NoneAssumption
  DEF UnshareableReserved, UnshareableWorked, UnshareableChosen, Reserved, WorksOn, Chose, Work
<1> QED
  BY <1>1, <1>2, <1>3, <1>4 DEF SocietyInv, Visiting, SwitchPending, Decided, NotStarted

\* The part of the invariant that speaks of who claims which task does not
\* change when none of the variables it reads does.
Claims ==
    /\ ResInv
    /\ ReservationMatchesAi
    /\ ActivityMatchesAi
    /\ UnshareableReserved
    /\ UnshareableWorked

LEMMA ClaimsStable ==
    ASSUME Claims,
           UNCHANGED <<alive, current, new_activity, current_society_task, rvars>>
    PROVE  Claims'
BY DEF Claims, ResInv, ResTypeOK, OneTaskPerEntity, CountsAgree, ReserversOf,
       ReservationMatchesAi, ActivityMatchesAi, WorkOf, UnshareableReserved, UnshareableWorked,
       Reserved, WorksOn, rvars

\* Entering and leaving the systems, and the player's orders.
LEMMA ScheduleInv ==
    ASSUME SocietyInv, Schedule
    PROVE  SocietyInv'
<1> USE DEF SocietyInv
<1>1. /\ UNCHANGED <<alive, current, new_activity, current_society_task, rvars>>
      /\ UNCHANGED <<jobvars, choice, aivars, actvars>>
  BY DEF Schedule, EnterSystems, LeaveSystem, EndTick, aivars, actvars
<1>2. Claims'
  BY <1>1, ClaimsStable DEF Claims
<1>3. phase' \in Phase /\ phase' # "consume" /\ todo' = Visits(phase')
  BY DEF Schedule, EnterSystems, LeaveSystem, EndTick, GoTo, Phase
<1>4. todo' \subseteq alive /\ (phase' # "activity" => todo' = {})
         /\ (phase' = "activity" => todo' = alive)
  BY <1>3 DEF Visits
<1>5. tick' \in 0 .. AiPeriod - 1
  BY AiPeriodAssumption DEF Schedule, EnterSystems, LeaveSystem, EndTick, SocietyTypeOK
<1>6. SocietyTypeOK'
  BY <1>1, <1>3, <1>4, <1>5
  DEF SocietyTypeOK, jobvars, aivars, actvars, rvars, ResTypeOK
<1>7. SwitchPending'
  <2> SUFFICES ASSUME NEW e \in alive', new_activity'[e] # NoActivity
               PROVE  phase' = "activity" /\ e \in todo'
    BY DEF SwitchPending
  <2>1. (phase = "consume" /\ e \notin todo) \/ (phase = "activity" /\ e \in todo)
    BY <1>1 DEF SwitchPending
  <2>2. LeaveSystem
    BY <2>1 DEF Schedule, EnterSystems, EndTick
  <2>3. phase' = "activity"
    BY <2>1, <2>2 DEF LeaveSystem, GoTo
  <2> QED
    BY <1>1, <1>4, <2>3
<1>8. Visiting' /\ Decided' /\ NotStarted' /\ UnshareableChosen'
  BY <1>1, <1>3, <1>4 DEF Visiting, Decided, NotStarted, UnshareableChosen, Chose, actvars
<1> QED
  BY <1>2, <1>6, <1>7, <1>8 DEF Claims

LEMMA PlayerInv ==
    ASSUME SocietyInv, Player
    PROVE  SocietyInv'
<1> USE DEF SocietyInv
<1>1. UNCHANGED <<phase, todo, tick, alive, choice, current, last_action, new_activity,
                  current_society_task, running, result, rvars>>
  BY DEF Player, SubmitJob, CancelJob, CommandEntity, clock, aivars, actvars
<1>2. Claims'
  BY <1>1, ClaimsStable DEF Claims
<1>3. SocietyTypeOK'
  BY <1>1, JobTasksAssumption
  DEF Player, SubmitJob, CancelJob, CommandEntity, SocietyTypeOK, jobvars, aivars, rvars, ResTypeOK
<1>4. Visiting' /\ SwitchPending' /\ Decided' /\ NotStarted' /\ UnshareableChosen'
  BY <1>1 DEF Player, SubmitJob, CancelJob, CommandEntity, Visiting, SwitchPending, Decided,
              NotStarted, UnshareableChosen, Chose, WorksOn, Reserved, rvars
<1> QED
  BY <1>2, <1>3, <1>4 DEF Claims

LEMMA RefreshJobsInv ==
    ASSUME SocietyInv, NEW refreshed \in [jobs -> SUBSET Task], NEW done \in SUBSET jobs,
           RefreshJobs(refreshed, done)
    PROVE  SocietyInv'
<1> USE DEF SocietyInv
<1>1. /\ UNCHANGED <<tick, alive, submitted, choice, aivars, actvars, rvars>>
      /\ phase' = "choose" /\ todo' = {} /\ phase = "jobs"
  BY DEF RefreshJobs, GoTo, Visits
<1>2. Claims'
  BY <1>1, ClaimsStable DEF Claims, aivars, actvars
<1>3. SocietyTypeOK'
  <2>1. /\ tasks' \in [Job -> SUBSET Task]
        /\ pending_complete' \in [Job -> SUBSET (Task \X Result)]
        /\ jobs' \subseteq jobs /\ to_cancel' = {}
    BY DEF RefreshJobs, SocietyTypeOK
  <2> QED
    BY <1>1, <2>1 DEF SocietyTypeOK, aivars, actvars, rvars, ResTypeOK, Phase
<1>4. Visiting' /\ SwitchPending' /\ Decided' /\ NotStarted' /\ UnshareableChosen'
  BY <1>1 DEF Visiting, SwitchPending, Decided, NotStarted, UnshareableChosen, Chose, actvars
<1> QED
  BY <1>2, <1>3, <1>4 DEF Claims

\* What is decided is well formed, and an unshareable task that is decided on
\* is free and decided on by nobody else.
LEMMA ChoicesType ==
    ASSUME SocietyTypeOK, NEW e \in alive
    PROVE  Choices(e) \subseteq Choice
BY ActionAssumption, NoneAssumption DEF Choices, Offers, Choice, Source, Work, SocietyTypeOK

LEMMA OfferOfTask ==
    ASSUME SocietyTypeOK, NEW e \in Entity, NEW t \in Task,
           NEW c \in Choices(e), c.source \in Job \X {t}
    PROVE  CheckFor(t, e) # {Unavailable} /\ c.action \in ActionsOf[t]
<1>1. c.source \in Work
  BY DEF Work
<1>2. c.source # Divine /\ c.source # Base
  BY <1>1, NoneAssumption
<1>3. c \in Offers(e)
  BY <1>2 DEF Choices
<1> QED
  BY <1>3 DEF Offers

LEMMA DecideInv ==
    ASSUME SocietyInv, NEW decision, Decide(decision)
    PROVE  SocietyInv'
<1> USE DEF SocietyInv
<1>1. /\ UNCHANGED <<tick, alive, jobvars, aivars, actvars, rvars>>
      /\ phase' = "consume" /\ todo' = alive /\ phase = "choose"
  BY DEF Decide, GoTo, Visits
<1>2. Claims'
  BY <1>1, ClaimsStable DEF Claims, aivars, actvars
<1>3. /\ \A e \in alive : choice'[e] = decision[e] /\ decision[e] \in Choices(e)
      /\ choice' \in [Entity -> Choice \cup {NoChoice}]
  BY ChoicesType DEF Decide, SocietyTypeOK
<1>4. SocietyTypeOK'
  BY <1>1, <1>3 DEF SocietyTypeOK, jobvars, aivars, actvars, rvars, ResTypeOK, Phase
<1>5. \A e \in alive : new_activity[e] = NoActivity
  BY <1>1 DEF SwitchPending
<1>6. Visiting' /\ SwitchPending' /\ Decided' /\ NotStarted'
  BY <1>1, <1>3, <1>5, ChoicesType DEF Visiting, SwitchPending, Decided, NotStarted, actvars
<1>7. UnshareableChosen'
  <2> SUFFICES ASSUME NEW t \in Task, Unshareable(t), NEW e \in Entity, NEW f \in Entity,
                      Chose(e, t)', Chose(f, t)' \/ WorksOn(f, t)' \/ Reserved(f, t)'
               PROVE  e = f
    BY DEF UnshareableChosen, Unshareable
  <2>1. e \in alive /\ decision[e] \in Choices(e) /\ decision[e].source \in Job \X {t}
    BY <1>1, <1>3 DEF Chose
  <2>2. CheckFor(t, e) # {Unavailable} /\ decision[e].action \in ActionsOf[t]
    BY <2>1, OfferOfTask
  <2>3. CASE Reserved(f, t)'
    BY <1>1, <2>2, <2>3, OfferedIsFree DEF Reserved, rvars
  <2>4. CASE WorksOn(f, t)'
    <3>1. f \in alive /\ current_society_task[f] \in Job \X {t}
      BY <1>1, <2>4 DEF WorksOn, actvars
    <3>2. WorkOf(current[f]) = current_society_task[f]
      BY <1>5, <3>1 DEF ActivityMatchesAi
    <3>3. current[f] \in Job \X {t}
      BY <3>1, <3>2, NoneAssumption DEF WorkOf, Work
    <3>4. <<t, f>> \in reservations
      BY <3>1, <3>3 DEF ReservationMatchesAi
    <3> QED
      BY <2>2, <3>4, OfferedIsFree
  <2>5. CASE Chose(f, t)'
    <3>1. f \in alive /\ decision[f] \in Choices(f) /\ decision[f].source \in Job \X {t}
      BY <1>1, <1>3, <2>5 DEF Chose
    <3>2. decision[f].action \in ActionsOf[t]
      BY <3>1, OfferOfTask
    <3> DEFINE a == decision[e].action
               S == {g \in alive : decision[g].source \in Job \X {t} /\ decision[g].action = a}
    <3>3. decision[f].action = a
      BY <2>2, <3>2, UnshareableAssumption DEF Unshareable
    <3>4. e \in S /\ f \in S
      BY <2>1, <3>1, <3>3
    <3>5. IsFiniteSet(S)
      BY EntityAssumption, FS_Subset DEF SocietyTypeOK
    <3>6. Cardinality(S) <= 1
      BY <2>2 DEF Decide, Unshareable
    <3> HIDE DEF S
    <3>7. IsFiniteSet(S \ {e}) /\ Cardinality(S \ {e}) = Cardinality(S) - 1
      BY <3>4, <3>5, FS_RemoveElement
    <3>8. Cardinality(S \ {e}) = 0
      BY <3>5, <3>6, <3>7, FS_CardinalityType
    <3>9. S \ {e} = {}
      BY <3>7, <3>8, FS_EmptySet
    <3> QED
      BY <3>4, <3>9
  <2> QED
    BY <2>3, <2>4, <2>5
<1> QED
  BY <1>2, <1>4, <1>6, <1>7 DEF Claims

LEMMA ConsumeUnchangedInv ==
    ASSUME SocietyInv, NEW e \in todo, ConsumeUnchanged(e)
    PROVE  SocietyInv'
<1> USE DEF SocietyInv
<1>1. /\ UNCHANGED <<phase, tick, alive, jobvars, aivars, actvars, rvars>>
      /\ phase = "consume" /\ todo' = todo \ {e}
  BY DEF ConsumeUnchanged, Visit
<1>2. e \in alive /\ e \in Entity
  BY DEF Visiting, SocietyTypeOK
<1>3. Claims'
  BY <1>1, ClaimsStable DEF Claims, aivars, actvars
<1>4. /\ choice' \in [Entity -> Choice \cup {NoChoice}]
      /\ \A f \in todo' : choice'[f] = choice[f]
  BY <1>1, <1>2 DEF ConsumeUnchanged, SocietyTypeOK, Visiting
<1>5. SocietyTypeOK'
  BY <1>1, <1>4 DEF SocietyTypeOK, jobvars, aivars, actvars, rvars, ResTypeOK
<1>6. Visiting' /\ Decided' /\ NotStarted'
  BY <1>1, <1>4 DEF Visiting, Decided, NotStarted, actvars
<1>7. SwitchPending'
  <2>1. new_activity[e] # NoActivity => e \notin todo
    BY <1>1, <1>2 DEF SwitchPending
  <2> QED
    BY <1>1, <2>1 DEF SwitchPending, actvars
<1>8. UnshareableChosen'
  BY <1>1, <1>4 DEF UnshareableChosen, Chose, WorksOn, Reserved, actvars, rvars
<1> QED
  BY <1>3, <1>5, <1>6, <1>7, <1>8 DEF Claims

LEMMA ConsumeNewInv ==
    ASSUME SocietyInv, NEW e \in todo, ConsumeNew(e)
    PROVE  SocietyInv'
<1> USE DEF SocietyInv
<1> DEFINE src == choice[e].source
<1>1. /\ UNCHANGED <<phase, tick, alive, jobvars, current_society_task, running, result>>
      /\ phase = "consume" /\ todo' = todo \ {e}
  BY DEF ConsumeNew, Visit
<1>2. e \in alive /\ e \in Entity
  BY DEF Visiting, SocietyTypeOK
<1>3. src \in Source /\ choice[e].action \in Action
  BY <1>1 DEF Decided, Choice
<1>4. /\ ResInv'
      /\ \A t \in Task, f \in Entity :
            <<t, f>> \in reservations'
               <=> IF f = e THEN src \in Job \X {t} ELSE <<t, f>> \in reservations
  BY <1>2, <1>3, InterruptEffect DEF ConsumeNew
<1>5. /\ current' = [current EXCEPT ![e] = src]
      /\ new_activity' = [new_activity EXCEPT ![e] =
                             [action |-> choice[e].action, work |-> WorkOf(src)]]
      /\ choice' = [choice EXCEPT ![e] = NoChoice]
  BY DEF ConsumeNew, InterruptTo
<1>6. SocietyTypeOK'
  <2>1. WorkOf(src) \in Work \cup {NoWork}
    BY DEF WorkOf
  <2>2. divine' \in [Entity -> DivineAction \cup {NoCommand}]
    BY DEF SocietyTypeOK, ConsumeNew, InterruptTo, InterruptDivine
  <2>3. last_action' \in [Entity -> Action \cup {Nop}]
    BY <1>3 DEF SocietyTypeOK, ConsumeNew
  <2> QED
    BY <1>1, <1>3, <1>4, <1>5, <2>1, <2>2, <2>3 DEF SocietyTypeOK, jobvars, ResInv
<1>7. /\ new_activity'[e] # NoActivity
      /\ new_activity'[e].work = WorkOf(src)
      /\ current'[e] = src
      /\ \A f \in alive : f # e => /\ new_activity'[f] = new_activity[f]
                                   /\ current'[f] = current[f]
      /\ \A f \in todo' : choice'[f] = choice[f]
  BY <1>1, <1>2, <1>3, <1>5, NoneAssumption DEF SocietyTypeOK, Visiting, WorkOf
<1>8. Visiting' /\ Decided' /\ SwitchPending' /\ NotStarted'
  BY <1>1, <1>7 DEF Visiting, Decided, SwitchPending, NotStarted
<1>9. ReservationMatchesAi'
  <2> SUFFICES ASSUME NEW f \in alive, NEW t \in Task
               PROVE  <<t, f>> \in reservations' <=> current'[f] \in Job \X {t}
    BY <1>1 DEF ReservationMatchesAi
  <2>1. f \in Entity
    BY DEF SocietyTypeOK
  <2> QED
    BY <1>4, <1>7, <2>1 DEF ReservationMatchesAi
<1>10. ActivityMatchesAi'
  BY <1>1, <1>7 DEF ActivityMatchesAi
<1>11. \A t \in Task : src \in Job \X {t} => Chose(e, t)
  BY <1>1 DEF Chose
<1>12. \A t \in Task, f \in Entity :
          /\ Reserved(f, t)' => Reserved(f, t) \/ (f = e /\ Chose(e, t))
          /\ WorksOn(f, t)' => WorksOn(f, t)
          /\ Chose(f, t)' => Chose(f, t) /\ f # e
  BY <1>1, <1>4, <1>7, <1>11 DEF Reserved, WorksOn, Chose
<1>13. UnshareableReserved' /\ UnshareableWorked'
  BY <1>2, <1>12
  DEF UnshareableReserved, UnshareableWorked, UnshareableChosen, Unshareable
<1>14. UnshareableChosen'
  BY <1>2, <1>12 DEF UnshareableChosen, Unshareable
<1> QED
  BY <1>4, <1>6, <1>8, <1>9, <1>10, <1>13, <1>14

LEMMA StartActivityInv ==
    ASSUME SocietyInv, NEW e \in todo, StartActivity(e)
    PROVE  SocietyInv'
<1> USE DEF SocietyInv
<1>1. /\ UNCHANGED <<phase, tick, alive, jobvars, choice, aivars, rvars>>
      /\ phase = "activity" /\ todo' = todo \ {e}
      /\ new_activity[e] # NoActivity
  BY DEF StartActivity, Visit
<1>2. e \in alive /\ e \in Entity
  BY DEF Visiting, SocietyTypeOK
<1>3. /\ new_activity[e].action \in Action
      /\ new_activity[e].work \in Work \cup {NoWork}
      /\ new_activity[e].work = WorkOf(current[e])
  BY <1>1, <1>2 DEF SocietyTypeOK, ActivityMatchesAi
<1>4. /\ new_activity'[e] = NoActivity
      /\ current_society_task'[e] = WorkOf(current[e])
      /\ \A f \in alive : f # e => /\ new_activity'[f] = new_activity[f]
                                   /\ current_society_task'[f] = current_society_task[f]
  BY <1>2, <1>3 DEF StartActivity, SocietyTypeOK
<1>5. SocietyTypeOK'
  <2>1. /\ running' \in [Entity -> Action \cup {Nop, NoActivity}]
        /\ result' \in [Entity -> Result \cup {"Running"}]
        /\ current_society_task' \in [Entity -> Work \cup {NoWork}]
        /\ new_activity' \in [Entity -> [action : Action, work : Work \cup {NoWork}]
                                           \cup {NoActivity}]
    BY <1>3 DEF StartActivity, SocietyTypeOK
  <2> QED
    BY <1>1, <2>1 DEF SocietyTypeOK, jobvars, aivars, rvars, ResTypeOK
<1>6. Visiting' /\ Decided' /\ SwitchPending' /\ NotStarted'
  <2>1. running'[e] # NoActivity /\ \A f \in alive : f # e => running'[f] = running[f]
    BY <1>2, <1>3, NoneAssumption DEF StartActivity, SocietyTypeOK
  <2> QED
    BY <1>1, <1>4, <2>1 DEF Visiting, Decided, SwitchPending, NotStarted
<1>7. ResInv' /\ ReservationMatchesAi' /\ UnshareableReserved'
  BY <1>1 DEF ResInv, ResTypeOK, OneTaskPerEntity, CountsAgree, ReserversOf, rvars, aivars,
              ReservationMatchesAi, UnshareableReserved, Reserved
<1>8. ActivityMatchesAi'
  BY <1>1, <1>4 DEF ActivityMatchesAi, aivars
<1>9. \A t \in Task, f \in Entity :
         /\ WorksOn(f, t)' => WorksOn(f, t) \/ (f = e /\ Reserved(e, t))
         /\ Reserved(f, t)' => Reserved(f, t)
         /\ ~Chose(f, t)'
  <2> SUFFICES ASSUME NEW t \in Task, NEW f \in Entity, WorksOn(f, t)'
               PROVE  WorksOn(f, t) \/ (f = e /\ Reserved(e, t))
    BY <1>1 DEF Reserved, Chose, rvars
  <2>1. CASE f # e
    BY <1>1, <1>4, <2>1 DEF WorksOn
  <2>2. CASE f = e
    <3>1. WorkOf(current[e]) \in Job \X {t}
      BY <1>4, <2>2 DEF WorksOn
    <3>2. current[e] \in Job \X {t}
      BY <3>1, NoneAssumption DEF WorkOf, Work
    <3> QED
      BY <1>2, <2>2, <3>2 DEF ReservationMatchesAi, Reserved
  <2> QED
    BY <2>1, <2>2
<1>10. UnshareableWorked' /\ UnshareableChosen'
  BY <1>2, <1>9 DEF UnshareableWorked, UnshareableChosen, UnshareableReserved, Unshareable
<1> QED
  BY <1>5, <1>6, <1>7, <1>8, <1>10

LEMMA CollectResultInv ==
    ASSUME SocietyInv, NEW e \in todo, CollectResult(e)
    PROVE  SocietyInv'
<1> USE DEF SocietyInv
<1>1. /\ UNCHANGED <<phase, tick, alive, submitted, jobs, to_cancel, tasks, choice, new_activity>>
      /\ phase = "activity" /\ todo' = todo \ {e}
      /\ new_activity[e] = NoActivity
  BY DEF CollectResult, Visit
<1>2. e \in alive /\ e \in Entity
  BY DEF Visiting, SocietyTypeOK
<1>3. NoSource \in Source /\ \A t \in Task : NoSource \notin Job \X {t}
  BY NoneAssumption DEF Source, Work
<1>4. /\ ResInv'
      /\ \A t \in Task, f \in Entity :
            <<t, f>> \in reservations' <=> f # e /\ <<t, f>> \in reservations
  BY <1>2, <1>3, InterruptEffect DEF CollectResult
<1>5. /\ current'[e] = NoSource /\ current_society_task'[e] = NoWork
      /\ \A f \in alive : f # e => /\ current'[f] = current[f]
                                   /\ current_society_task'[f] = current_society_task[f]
  BY <1>2 DEF CollectResult, InterruptTo, SocietyTypeOK
<1>6. SocietyTypeOK'
  <2>1. /\ current' \in [Entity -> Source]
        /\ divine' \in [Entity -> DivineAction \cup {NoCommand}]
    BY <1>3 DEF CollectResult, InterruptTo, InterruptDivine, SocietyTypeOK
  <2>2. /\ last_action' \in [Entity -> Action \cup {Nop}]
        /\ running' \in [Entity -> Action \cup {Nop, NoActivity}]
        /\ result' \in [Entity -> Result \cup {"Running"}]
        /\ current_society_task' \in [Entity -> Work \cup {NoWork}]
    BY DEF CollectResult, SocietyTypeOK
  <2>3. pending_complete' \in [Job -> SUBSET (Task \X Result)]
    <3>1. current_society_task[e] = NoWork \/ result[e] \in Result
      BY <1>2 DEF CollectResult, SocietyTypeOK, NotStarted
    <3> SUFFICES ASSUME NEW j \in Job,
                        NEW w \in {current_society_task[e]} \cap ({j} \X Task)
                 PROVE  <<w[2], result[e]>> \in Task \X Result
      BY DEF CollectResult, Notify, SocietyTypeOK
    <3> QED
      BY <3>1, NoneAssumption DEF Work
  <2> QED
    BY <1>1, <1>4, <2>1, <2>2, <2>3 DEF SocietyTypeOK, ResInv
<1>7. Visiting' /\ Decided' /\ SwitchPending' /\ NotStarted'
  <2>1. \A f \in alive : f # e => running'[f] = running[f]
    BY <1>2 DEF CollectResult, SocietyTypeOK
  <2> QED
    BY <1>1, <1>5, <2>1 DEF Visiting, Decided, SwitchPending, NotStarted
<1>8. ReservationMatchesAi'
  <2> SUFFICES ASSUME NEW f \in alive, NEW t \in Task
               PROVE  <<t, f>> \in reservations' <=> current'[f] \in Job \X {t}
    BY <1>1 DEF ReservationMatchesAi
  <2>1. f \in Entity
    BY DEF SocietyTypeOK
  <2> QED
    BY <1>3, <1>4, <1>5, <2>1 DEF ReservationMatchesAi
<1>9. ActivityMatchesAi'
  BY <1>1, <1>5, NoneAssumption DEF ActivityMatchesAi, WorkOf
<1>10. \A t \in Task, f \in Entity :
          /\ Reserved(f, t)' => Reserved(f, t)
          /\ WorksOn(f, t)' => WorksOn(f, t)
          /\ ~Chose(f, t)'
  <2>1. \A t \in Task : NoWork \notin Job \X {t}
    BY NoneAssumption DEF Work
  <2> QED
    BY <1>1, <1>4, <1>5, <2>1 DEF Reserved, WorksOn, Chose
<1>11. UnshareableReserved' /\ UnshareableWorked' /\ UnshareableChosen'
  BY <1>10 DEF UnshareableReserved, UnshareableWorked, UnshareableChosen, Unshareable
<1> QED
  BY <1>4, <1>6, <1>7, <1>8, <1>9, <1>11

\* Steps that touch neither the claims nor the decisions.
LEMMA ContinueActivityInv ==
    ASSUME SocietyInv, NEW e \in todo, ContinueActivity(e)
    PROVE  SocietyInv'
<1> USE DEF SocietyInv
<1>1. /\ UNCHANGED <<phase, tick, alive, jobvars, choice, aivars, actvars, rvars>>
      /\ phase = "activity" /\ todo' = todo \ {e} /\ new_activity[e] = NoActivity
  BY DEF ContinueActivity, Visit
<1>2. Claims'
  BY <1>1, ClaimsStable DEF Claims, aivars, actvars
<1>3. SocietyTypeOK'
  BY <1>1 DEF SocietyTypeOK, jobvars, aivars, actvars, rvars, ResTypeOK
<1>4. Visiting' /\ Decided' /\ SwitchPending' /\ NotStarted' /\ UnshareableChosen'
  BY <1>1 DEF Visiting, Decided, SwitchPending, NotStarted, UnshareableChosen, Chose, actvars
<1> QED
  BY <1>2, <1>3, <1>4 DEF Claims

LEMMA FinishInv ==
    ASSUME SocietyInv, NEW e \in Entity, NEW res \in Result, Finish(e, res)
    PROVE  SocietyInv'
<1> USE DEF SocietyInv
<1>1. UNCHANGED <<phase, todo, tick, alive, jobvars, choice, aivars, new_activity,
                  current_society_task, running, rvars>>
  BY DEF Finish, clock
<1>2. Claims'
  BY <1>1, ClaimsStable DEF Claims, aivars
<1>3. SocietyTypeOK'
  BY <1>1 DEF Finish, SocietyTypeOK, jobvars, aivars, rvars, ResTypeOK
<1>4. Visiting' /\ Decided' /\ SwitchPending' /\ NotStarted' /\ UnshareableChosen'
  BY <1>1 DEF Visiting, Decided, SwitchPending, NotStarted, UnshareableChosen, Chose, WorksOn,
              Reserved, rvars
<1> QED
  BY <1>2, <1>3, <1>4 DEF Claims

\* A death takes its components away and its claim on the activity with it;
\* its reservation stays, and nothing here says it should not.
LEMMA DieInv ==
    ASSUME SocietyInv, NEW e \in Entity, Die(e)
    PROVE  SocietyInv'
<1> USE DEF SocietyInv
<1>1. /\ UNCHANGED <<phase, todo, tick, jobvars, choice, new_activity, rvars>>
      /\ phase = "end" /\ todo = {} /\ alive' = alive \ {e}
  BY DEF Die, clock, Visiting
<1>2. /\ \A f \in alive' : /\ current'[f] = current[f]
                           /\ current_society_task'[f] = current_society_task[f]
                           /\ running'[f] = running[f]
  BY <1>1 DEF Die, SocietyTypeOK
<1>3. SocietyTypeOK'
  <2>1. /\ current' \in [Entity -> Source]
        /\ last_action' \in [Entity -> Action \cup {Nop}]
        /\ divine' \in [Entity -> DivineAction \cup {NoCommand}]
        /\ current_society_task' \in [Entity -> Work \cup {NoWork}]
        /\ running' \in [Entity -> Action \cup {Nop, NoActivity}]
        /\ result' \in [Entity -> Result \cup {"Running"}]
    BY DEF Die, SocietyTypeOK, Source
  <2> QED
    BY <1>1, <2>1 DEF SocietyTypeOK, jobvars, rvars, ResTypeOK
<1>4. Visiting' /\ Decided' /\ SwitchPending' /\ NotStarted'
  BY <1>1, <1>2 DEF Visiting, Decided, SwitchPending, NotStarted
<1>5. ResInv' /\ ReservationMatchesAi' /\ ActivityMatchesAi'
  BY <1>1, <1>2 DEF ResInv, ResTypeOK, OneTaskPerEntity, CountsAgree, ReserversOf, rvars,
                    ReservationMatchesAi, ActivityMatchesAi, WorkOf
<1>6. \A t \in Task, f \in Entity :
         /\ Reserved(f, t)' => Reserved(f, t)
         /\ WorksOn(f, t)' => WorksOn(f, t)
         /\ ~Chose(f, t)'
  BY <1>1, <1>2 DEF Reserved, WorksOn, Chose, rvars
<1>7. UnshareableReserved' /\ UnshareableWorked' /\ UnshareableChosen'
  BY <1>6 DEF UnshareableReserved, UnshareableWorked, UnshareableChosen, Unshareable
<1> QED
  BY <1>3, <1>4, <1>5, <1>7

-----------------------------------------------------------------------------
LEMMA SocietyStep == SocietyInv /\ [SocietyNext]_svars => SocietyInv'
<1>1. ASSUME SocietyInv, Ai PROVE SocietyInv'
  BY <1>1, RefreshJobsInv, DecideInv, ConsumeUnchangedInv, ConsumeNewInv DEF Ai
<1>2. ASSUME SocietyInv, ActivitySystem PROVE SocietyInv'
  BY <1>2, StartActivityInv, CollectResultInv, ContinueActivityInv DEF ActivitySystem
<1>3. ASSUME SocietyInv, SocietyNext PROVE SocietyInv'
  BY <1>1, <1>2, <1>3, ScheduleInv, PlayerInv, DieInv, FinishInv DEF SocietyNext
<1>4. ASSUME SocietyInv, UNCHANGED svars PROVE SocietyInv'
  <2>1. Claims'
    BY <1>4, ClaimsStable DEF SocietyInv, Claims, svars, aivars, actvars
  <2>2. /\ SocietyTypeOK' /\ Visiting' /\ SwitchPending' /\ Decided' /\ NotStarted'
        /\ UnshareableChosen'
    BY <1>4 DEF SocietyInv, SocietyTypeOK, Visiting, SwitchPending, Decided, NotStarted,
                UnshareableChosen, Chose, WorksOn, Reserved, svars, clock, jobvars, aivars, actvars, rvars, ResTypeOK
  <2> QED
    BY <2>1, <2>2 DEF SocietyInv, Claims
<1> QED
  BY <1>3, <1>4

\* Every run of the pipeline satisfies its invariant.
THEOREM SocietyInvariant == SocietySpec => []SocietyInv
BY SocietyInitInv, SocietyStep, PTL DEF SocietySpec

\* The state of the pipeline is always well formed.
THEOREM SocietyTypes == SocietySpec => []SocietyTypeOK
<1>1. SocietyInv => SocietyTypeOK
  BY DEF SocietyInv
<1> QED
  BY <1>1, SocietyInvariant, PTL

\* Reservations and the AI's current decision agree for every living entity, in every
\* phase of every tick.
THEOREM SocietyAgreement == SocietySpec => []ReservationMatchesAi
<1>1. SocietyInv => ReservationMatchesAi
  BY DEF SocietyInv
<1> QED
  BY <1>1, SocietyInvariant, PTL

\* So do the AI's current decision and the activity system's society task.
THEOREM SocietyActivities == SocietySpec => []ActivityMatchesAi
<1>1. SocietyInv => ActivityMatchesAi
  BY DEF SocietyInv
<1> QED
  BY <1>1, SocietyInvariant, PTL

\* Two living entities never work on the same unshareable task.
THEOREM UnshareableExclusive == SocietySpec => []OneWorkerPerUnshareable
<1>1. SocietyInv => OneWorkerPerUnshareable
  BY DEF SocietyInv, SocietyTypeOK, UnshareableWorked, Unshareable, WorksOn, OneWorkerPerUnshareable
<1> QED
  BY <1>1, SocietyInvariant, PTL

-----------------------------------------------------------------------------
(* The pipeline as a user of the reservation table *)

\* Only the AI's consumption of a decision and the collection of a result touch
\* the table.
LEMMA TableUntouched ==
    ASSUME SocietyInv, [SocietyNext]_svars,
           ~ \E e \in todo : ConsumeNew(e) \/ CollectResult(e)
    PROVE  UNCHANGED rvars
<1>1. CASE Ai
  BY <1>1 DEF Ai, RefreshJobs, Decide, ConsumeUnchanged
<1>2. CASE ActivitySystem
  BY <1>2 DEF ActivitySystem, StartActivity, ContinueActivity
<1>3. CASE Schedule \/ Player
  BY <1>3 DEF Schedule, EnterSystems, LeaveSystem, EndTick, Player, SubmitJob, CancelJob, CommandEntity
<1>4. CASE \E e \in Entity : Die(e) \/ \E res \in Result : Finish(e, res)
  BY <1>4 DEF Die, Finish
<1>5. CASE UNCHANGED svars
  BY <1>5 DEF svars
<1> QED
  BY <1>1, <1>2, <1>3, <1>4, <1>5 DEF SocietyNext

\* Every step of the pipeline is, for the table, one of its operations or
\* nothing: what is proved of the table holds of the pipeline.
THEOREM SocietyUsesTable == SocietySpec => ResSpec
<1>1. SocietyInit => ResInit
  BY DEF SocietyInit
<1>2. SocietyInv /\ [SocietyNext]_svars => [ResNext]_rvars
  <2> SUFFICES ASSUME SocietyInv, [SocietyNext]_svars, ~ UNCHANGED rvars
               PROVE  ResNext
    OBVIOUS
  <2>1. PICK e \in todo : ConsumeNew(e) \/ CollectResult(e)
    BY TableUntouched
  <2>2. e \in Entity
    BY DEF SocietyInv, Visiting, SocietyTypeOK
  <2>3. PICK source : InterruptTo(e, source)
    BY <2>1 DEF ConsumeNew, CollectResult
  <2>4. CASE source \in Work
    BY <2>2, <2>3, <2>4 DEF InterruptTo, ResNext, Work
  <2>5. CASE source \notin Work
    BY <2>2, <2>3, <2>5 DEF InterruptTo, ResNext
  <2> QED
    BY <2>4, <2>5
<1> QED
  BY <1>1, <1>2, SocietyInvariant, PTL DEF SocietySpec, ResSpec

\* The reference counts agree with the pairs in every state of the pipeline.
THEOREM SocietyCountsAgree == SocietySpec => [](OneTaskPerEntity /\ CountsAgree)
BY SocietyUsesTable, ReservationsSound, PTL

\* Whoever tells a job of a completion held the reservation until that step.
THEOREM ReportsAreHolders == SocietySpec => ReportReleases
<1> DEFINE Reports ==
      \A j \in Job : \A c \in pending_complete'[j] \ pending_complete[j] :
          \E r \in ReserversOf(c[1]) : result[r[2]] = c[2] /\ r \notin reservations'
<1>1. SocietyInv /\ [SocietyNext]_svars => [Reports]_svars
  <2> SUFFICES ASSUME SocietyInv, [SocietyNext]_svars,
                      NEW j \in Job, NEW c \in pending_complete'[j] \ pending_complete[j]
               PROVE  \E r \in ReserversOf(c[1]) : result[r[2]] = c[2] /\ r \notin reservations'
    OBVIOUS
  <2> USE DEF SocietyInv
  <2>1. PICK e \in todo : CollectResult(e)
    <3>1. pending_complete'[j] \subseteq pending_complete[j] \/ \E e \in todo : CollectResult(e)
      <4>1. CASE Ai
        BY <4>1 DEF Ai, RefreshJobs, Decide, ConsumeUnchanged, ConsumeNew, jobvars
      <4>2. CASE ActivitySystem
        BY <4>2 DEF ActivitySystem, StartActivity, ContinueActivity, jobvars
      <4>3. CASE Schedule \/ Player
        BY <4>3 DEF Schedule, EnterSystems, LeaveSystem, EndTick, Player, SubmitJob, CancelJob,
                    CommandEntity, jobvars
      <4>4. CASE \E e \in Entity : Die(e) \/ \E res \in Result : Finish(e, res)
        BY <4>4 DEF Die, Finish, jobvars
      <4>5. CASE UNCHANGED svars
        BY <4>5 DEF svars, jobvars
      <4> QED
        BY <4>1, <4>2, <4>3, <4>4, <4>5 DEF SocietyNext
    <3> QED
      BY <3>1
  <2>2. e \in alive /\ e \in Entity /\ new_activity[e] = NoActivity
    BY <2>1 DEF Visiting, SocietyTypeOK, CollectResult
  <2>3. PICK w \in {current_society_task[e]} \cap ({j} \X Task) : c = <<w[2], result[e]>>
    BY <2>1 DEF CollectResult, Notify
  <2>4. w \in Work /\ w[2] \in Task /\ c[1] = w[2] /\ c[2] = result[e] /\ w \in Job \X {w[2]}
    BY <2>3 DEF Work
  <2>5. current[e] = w
    BY <2>2, <2>3, <2>4, NoneAssumption DEF ActivityMatchesAi, WorkOf
  <2>6. <<w[2], e>> \in reservations
    BY <2>2, <2>4, <2>5 DEF ReservationMatchesAi
  <2>7. <<w[2], e>> \notin reservations'
    <3>1. NoSource \in Source /\ NoSource \notin Job \X {w[2]}
      BY <2>4, NoneAssumption DEF Source, Work
    <3>2. InterruptTo(e, NoSource)
      BY <2>1 DEF CollectResult
    <3> QED
      BY <2>2, <2>4, <3>1, <3>2, InterruptEffect
  <2> QED
    BY <2>4, <2>6, <2>7 DEF ReserversOf
<1> QED
  BY <1>1, SocietyInvariant, PTL DEF SocietySpec, ReportReleases

-----------------------------------------------------------------------------
(* Nobody goes on for a job that has left the list *)

ListedActions == UNION {ActionsOf[t] : t \in UNION {tasks[j] : j \in jobs}}

Wanted(e) == BaseAction \cup {divine[e]} \cup ListedActions

\* The AI runs in the first tick of its period only.
AiRunsFirst == phase \in {"jobs", "choose", "consume"} => tick = 0

\* What is still to be consumed is wanted, and what comes from the society is
\* listed.
DecidedWanted ==
    phase = "consume" => \A e \in todo :
        /\ choice[e].action \in Wanted(e)
        /\ choice[e].source \in Work => choice[e].action \in ListedActions

\* The AI has been through with e, and the player not yet.
Settled(e) ==
    \/ phase = "consume" /\ e \notin todo
    \/ tick = 0 /\ phase \in {"activity", "runtime", "end"}

SettledWanted ==
    \A e \in alive : Settled(e) /\ current[e] \in Work => last_action[e] \in Wanted(e)

\* The society task that is being done, or about to be, is done by the action
\* that was last decided on.
DoesAsDecided ==
    \A e \in alive :
        IF new_activity[e] # NoActivity
        THEN new_activity[e].action = last_action[e]
        ELSE current[e] \in Work => running[e] = last_action[e]

WantedInv == AiRunsFirst /\ DecidedWanted /\ SettledWanted /\ DoesAsDecided

\* What an entity may choose is wanted.
LEMMA ChoicesWanted ==
    ASSUME SocietyInv, NEW e \in alive, NEW c \in Choices(e)
    PROVE  /\ c.action \in Wanted(e)
           /\ c.source \in Work => c.action \in ListedActions
<1>1. CASE divine[e] # NoCommand
  BY <1>1, NoneAssumption DEF Choices, Wanted
<1>2. CASE divine[e] = NoCommand /\ c \in [source : {Base}, action : BaseAction]
  BY <1>2, NoneAssumption DEF Wanted
<1>3. CASE divine[e] = NoCommand /\ c \in Offers(e)
  <2>1. PICK w \in jobs \X Task : w[2] \in tasks[w[1]]
                                  /\ c \in [source : {w}, action : ActionsOf[w[2]]]
    BY <1>3 DEF Offers
  <2> QED
    BY <2>1 DEF Wanted, ListedActions
<1> QED
  BY <1>1, <1>2, <1>3 DEF Choices

LEMMA WantedStep == SocietyInv /\ WantedInv /\ [SocietyNext]_svars => WantedInv'
<1> SUFFICES ASSUME SocietyInv, WantedInv, [SocietyNext]_svars PROVE WantedInv'
  OBVIOUS
<1> USE DEF WantedInv, AiRunsFirst
<1>0. todo \subseteq alive /\ alive \subseteq Entity
  BY DEF SocietyInv, Visiting, SocietyTypeOK
<1>1. CASE Schedule \/ Player \/ UNCHANGED svars
  <2>1. AiRunsFirst'
    BY <1>1 DEF Schedule, EnterSystems, LeaveSystem, EndTick, GoTo, Player, SubmitJob, CancelJob,
                CommandEntity, svars, clock
  <2>2. DoesAsDecided'
    BY <1>1 DEF DoesAsDecided, Schedule, EnterSystems, LeaveSystem, EndTick, Player, SubmitJob,
                CancelJob, CommandEntity, svars, aivars, actvars
  <2>3. CASE Player
    BY <2>1, <2>2, <2>3 DEF Player, SubmitJob, CancelJob, CommandEntity, clock, DecidedWanted,
                            SettledWanted, Settled
  <2>4. CASE Schedule
    <3>1. phase' # "consume" /\ UNCHANGED <<alive, jobs, tasks, current, last_action, divine>>
      BY <2>4 DEF Schedule, EnterSystems, LeaveSystem, EndTick, GoTo, jobvars, aivars
    <3>2. \A e \in alive : Settled(e)' => Settled(e)
      BY <2>4 DEF Schedule, EnterSystems, LeaveSystem, EndTick, GoTo, Settled
    <3> QED
      BY <2>1, <2>2, <3>1, <3>2 DEF DecidedWanted, SettledWanted, Wanted, ListedActions
  <2>5. CASE UNCHANGED svars
    BY <2>1, <2>2, <2>5 DEF svars, clock, jobvars, aivars, DecidedWanted, SettledWanted, Settled,
                            Wanted, ListedActions
  <2> QED
    BY <1>1, <2>3, <2>4, <2>5
<1>2. ASSUME NEW refreshed, NEW done, RefreshJobs(refreshed, done) PROVE WantedInv'
  BY <1>2 DEF RefreshJobs, GoTo, DecidedWanted, SettledWanted, Settled, DoesAsDecided, aivars, actvars
<1>3. ASSUME NEW decision, Decide(decision) PROVE WantedInv'
  <2>1. /\ phase' = "consume" /\ tick' = 0 /\ todo' = alive
        /\ UNCHANGED <<alive, jobvars, aivars, actvars>>
    BY <1>3 DEF Decide, GoTo, Visits
  <2>2. \A e \in alive : choice'[e] = decision[e] /\ decision[e] \in Choices(e)
    BY <1>0, <1>3 DEF Decide
  <2>3. DecidedWanted'
    BY <2>1, <2>2, ChoicesWanted DEF DecidedWanted, Wanted, ListedActions, jobvars, aivars
  <2>4. SettledWanted'
    BY <2>1 DEF SettledWanted, Settled
  <2> QED
    BY <2>1, <2>3, <2>4 DEF DoesAsDecided, aivars, actvars
<1>4. ASSUME NEW e \in todo, ConsumeUnchanged(e) PROVE WantedInv'
  <2>1. /\ phase = "consume" /\ todo' = todo \ {e} /\ choice[e].action = last_action[e]
        /\ UNCHANGED <<phase, tick, alive, jobvars, aivars, actvars>>
        /\ \A f \in todo' : choice'[f] = choice[f]
    BY <1>0, <1>4 DEF ConsumeUnchanged, Visit, SocietyInv, SocietyTypeOK
  <2>2. DecidedWanted'
    BY <2>1 DEF DecidedWanted, Wanted, ListedActions, jobvars, aivars
  <2>3. SettledWanted'
    BY <2>1 DEF SettledWanted, Settled, DecidedWanted, Wanted, ListedActions, jobvars, aivars
  <2> QED
    BY <2>1, <2>2, <2>3 DEF DoesAsDecided, aivars, actvars
<1>5. ASSUME NEW e \in todo, ConsumeNew(e) PROVE WantedInv'
  <2>1. /\ phase = "consume" /\ todo' = todo \ {e}
        /\ UNCHANGED <<phase, tick, alive, jobvars, running>>
        /\ \A f \in todo' : choice'[f] = choice[f]
    BY <1>0, <1>5 DEF ConsumeNew, Visit, SocietyInv, SocietyTypeOK
  <2>2. /\ \A f \in Entity \ {e} : /\ current'[f] = current[f] /\ divine'[f] = divine[f]
                                   /\ last_action'[f] = last_action[f]
                                   /\ new_activity'[f] = new_activity[f]
        /\ current'[e] = choice[e].source /\ last_action'[e] = choice[e].action
        /\ new_activity'[e] = [action |-> choice[e].action, work |-> WorkOf(choice[e].source)]
    BY <1>0, <1>5 DEF ConsumeNew, InterruptTo, InterruptDivine, SocietyInv, SocietyTypeOK
  <2>3. DecidedWanted'
    BY <1>0, <2>1, <2>2 DEF DecidedWanted, Wanted, ListedActions, jobvars
  <2>4. SettledWanted'
    BY <1>0, <2>1, <2>2 DEF SettledWanted, Settled, DecidedWanted, Wanted, ListedActions, jobvars
  <2>5. new_activity'[e] # NoActivity
    <3>1. choice[e].action \in Action /\ WorkOf(choice[e].source) \in Work \cup {NoWork}
      BY <2>1 DEF SocietyInv, Decided, Choice, WorkOf
    <3> QED
      BY <2>2, <3>1, NoneAssumption
  <2>6. DoesAsDecided'
    BY <1>0, <2>1, <2>2, <2>5 DEF DoesAsDecided
  <2> QED
    BY <2>1, <2>3, <2>4, <2>6
<1>6. ASSUME NEW e \in todo, StartActivity(e) \/ ContinueActivity(e) PROVE WantedInv'
  <2>1. /\ phase = "activity"
        /\ UNCHANGED <<phase, tick, alive, jobs, tasks, aivars>>
    BY <1>6 DEF StartActivity, ContinueActivity, Visit, jobvars
  <2>2. DecidedWanted' /\ SettledWanted'
    BY <2>1 DEF DecidedWanted, SettledWanted, Settled, Wanted, ListedActions, aivars
  <2>3. DoesAsDecided'
    BY <1>0, <1>6, <2>1 DEF DoesAsDecided, StartActivity, ContinueActivity, aivars, actvars,
                            SocietyInv, SocietyTypeOK
  <2> QED
    BY <2>1, <2>2, <2>3
<1>7. ASSUME NEW e \in todo, CollectResult(e) PROVE WantedInv'
  <2>1. /\ phase = "activity"
        /\ UNCHANGED <<phase, tick, alive, jobs, tasks, new_activity>>
        /\ new_activity[e] = NoActivity
    BY <1>7 DEF CollectResult, Visit
  <2>2. /\ \A f \in Entity \ {e} : /\ current'[f] = current[f] /\ divine'[f] = divine[f]
                                   /\ last_action'[f] = last_action[f] /\ running'[f] = running[f]
        /\ current'[e] \notin Work
    BY <1>0, <1>7, NoneAssumption DEF CollectResult, InterruptTo, InterruptDivine, SocietyInv, SocietyTypeOK
  <2>3. DecidedWanted' /\ SettledWanted'
    BY <1>0, <2>1, <2>2 DEF DecidedWanted, SettledWanted, Settled, Wanted, ListedActions
  <2>4. DoesAsDecided'
    BY <1>0, <2>1, <2>2 DEF DoesAsDecided
  <2> QED
    BY <2>1, <2>3, <2>4
<1>8. ASSUME NEW e \in Entity, NEW res \in Result, Finish(e, res) PROVE WantedInv'
  BY <1>8 DEF Finish, clock, jobvars, aivars, DecidedWanted, SettledWanted, Settled, Wanted,
              ListedActions, DoesAsDecided
<1>9. ASSUME NEW e \in Entity, Die(e) PROVE WantedInv'
  <2>1. /\ phase = "end" /\ alive' = alive \ {e}
        /\ UNCHANGED <<phase, tick, todo, jobs, tasks, new_activity>>
    BY <1>9 DEF Die, clock, jobvars
  <2>2. \A f \in alive' : /\ current'[f] = current[f] /\ divine'[f] = divine[f]
                          /\ last_action'[f] = last_action[f] /\ running'[f] = running[f]
    BY <1>0, <1>9, <2>1 DEF Die, SocietyInv, SocietyTypeOK
  <2> QED
    BY <2>1, <2>2 DEF DecidedWanted, SettledWanted, Settled, Wanted, ListedActions, DoesAsDecided
<1>10. CASE Ai
  BY <1>2, <1>3, <1>4, <1>5, <1>10 DEF Ai
<1>11. CASE ActivitySystem
  BY <1>6, <1>7, <1>11 DEF ActivitySystem
<1> QED
  BY <1>1, <1>8, <1>9, <1>10, <1>11 DEF SocietyNext

\* When the AI and the activity system have run, nobody goes on with a task of
\* a job that has left the list, unless the very same is wanted otherwise.
THEOREM RemovedJobsEnd == SocietySpec => []RemovedJobsAbandoned
<1>1. SocietyInit => WantedInv
  BY NoneAssumption DEF SocietyInit, WantedInv, AiRunsFirst, DecidedWanted, SettledWanted, Settled, DoesAsDecided, Work
<1>2. SocietyInv /\ WantedInv => RemovedJobsAbandoned
  <2> SUFFICES ASSUME SocietyInv, WantedInv, tick = 0, phase \in {"runtime", "end"},
                      NEW e \in alive, current_society_task[e] # NoWork
               PROVE  running[e] \in Wanted(e)
    BY DEF RemovedJobsAbandoned, Wanted, ListedActions
  <2>1. new_activity[e] = NoActivity
    BY DEF SocietyInv, SwitchPending
  <2>2. current[e] \in Work
    BY <2>1 DEF SocietyInv, ActivityMatchesAi, WorkOf
  <2> QED
    BY <2>1, <2>2 DEF WantedInv, SettledWanted, Settled, DoesAsDecided
<1> QED
  BY <1>1, <1>2, SocietyInvariant, WantedStep, PTL DEF SocietySpec

=============================================================================
