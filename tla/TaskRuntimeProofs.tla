------------------------- MODULE TaskRuntimeProofs --------------------------
(***************************************************************************)
(* What drives the runtime's tasks, for any number of entities, tasks,     *)
(* subjects and events: the timers are those that activities wait for, no  *)
(* wakeup is lost and an entity has one task; then, in the second part,    *)
(* that nothing is polled or heard that should not be.                     *)
(*                                                                         *)
(* The order of the ready list does not matter for the first part: a task  *)
(* that is marked keeps its flag until the poll that clears it, and then   *)
(* it is the one being polled.                                             *)
(***************************************************************************)
EXTENDS TaskRuntime, QueueLemmas

TaskTypes ==
    /\ todo \subseteq alive /\ alive \subseteq Entity
    /\ current \in [Entity -> Handle \cup {NoTask}]
    /\ task \in [Handle -> {"Gone", "Running", "Polling", "Done"}]
    /\ owner \in [Handle -> Entity]

WaitTypes ==
    /\ waits \in [Handle -> Wait]
    /\ timers \subseteq Handle \X TicksLeft
    /\ sink \in [Handle -> Seq(Sub)] /\ events \in Seq(Sub)
    /\ flag \in [Handle -> BOOLEAN]

\* Systems run one after the other: tasks are replaced in the first, and polled in the next.
InTurn ==
    /\ phase # "activity" => todo = {}
    /\ phase # "poll" => poller = NoTask
    /\ poller \in Handle => task[poller] = "Running"

\* A task is its entity's current one, as long as that lives; and an entity has one, also
\* when it is dead and its future lives on.
OneTaskEach ==
    /\ \A e \in Entity : current[e] # NoTask =>
          e \in alive /\ task[current[e]] # "Gone" /\ owner[current[e]] = e
    /\ \A h \in Handle : task[h] # "Gone" /\ owner[h] \in alive => current[owner[h]] = h
    /\ \A h, k \in Handle : task[h] # "Gone" /\ task[k] # "Gone" /\ owner[h] = owner[k] => h = k

\* Only a wait for a timer, or for an event, has one, which is listed until it fires.
TimersListed ==
    /\ \A h \in Handle : waits[h].kind \notin {"event", "timer"} => waits[h].timer = NoTimer
    /\ \A h \in Handle : task[h] = "Running" /\ waits[h].timer > 0 => <<h, waits[h].timer>> \in timers
    /\ \A h \in Handle \ {poller} : task[h] = "Running" /\ waits[h].timer = 0 =>
          <<h, 0>> \in timers \/ flag[h]
    /\ \A t \in timers : t[2] > 0 => task[t[1]] = "Running" /\ waits[t[1]].timer = t[2]

RuntimeInv ==
    /\ TaskTypes /\ WaitTypes
    /\ InTurn
    /\ OneTaskEach
    /\ TimersListed
    /\ WakeupNotLost

-----------------------------------------------------------------------------
(* The operators *)

\* The ticks that are left: none, or as many as some wait has, or one less.
LEMMA Ticks ==
    /\ TicksLeft \subseteq Nat
    /\ WaitTicks \subseteq TicksLeft
    /\ \A n \in TicksLeft : Sooner(n) \in TicksLeft /\ Sooner(n) \in Nat
    /\ Sooner(NoTimer) = NoTimer /\ NoTimer \notin TicksLeft
<1> USE WaitAssumption DEF TicksLeft
<1>1. TicksLeft \subseteq Nat /\ WaitTicks \subseteq TicksLeft
  OBVIOUS
<1>2. ASSUME NEW n \in TicksLeft PROVE Sooner(n) \in TicksLeft /\ Sooner(n) \in Nat
  <2>1. PICK m \in WaitTicks : n \in 0 .. m
    OBVIOUS
  <2>2. Sooner(n) \in 0 .. m
    BY <2>1 DEF Sooner
  <2> QED
    BY <2>1, <2>2
<1>3. Sooner(NoTimer) = NoTimer /\ NoTimer \notin TicksLeft
  BY <1>1 DEF Sooner, NoTimer
<1> QED
  BY <1>1, <1>2, <1>3

LEMMA Waits ==
    /\ \A kind \in {"start", "run", "yield", "park"} :
          Await(kind) \in Wait /\ Await(kind).kind = kind /\ Await(kind).timer = NoTimer
    /\ \A w \in Wait : w.timer \in TicksLeft \cup {NoTimer}
BY DEF Await, Wait

\* Marking tasks flags them, and takes no flag away.
LEMMA Marked ==
    ASSUME WaitTypes, NEW hs, MarkReady(hs)
    PROVE  /\ flag' \in [Handle -> BOOLEAN]
           /\ \A h \in Handle : flag[h] => flag'[h]
           /\ \A h \in Handle : h \in Elements(hs) => flag'[h]
BY DEF WaitTypes, MarkReady, ToSet, Elements

\* A set in some order holds what the set does, once.
LEMMA SetInOrder ==
    ASSUME NEW S \in SUBSET Handle
    PROVE  SetToSeq(S) \in Seq(Handle) /\ IsInjective(SetToSeq(S)) /\ Elements(SetToSeq(S)) = S
<1>1. IsFiniteSet(S) /\ Cardinality(S) \in Nat
  BY HandleAssumption, FS_Subset, FS_CardinalityType
<1>2. SetToSeq(S) \in [1 .. Cardinality(S) -> S] /\ IsInjective(SetToSeq(S))
  <2>1. ExistsBijection(1 .. Cardinality(S), S)
    BY <1>1, FS_CardinalityType
  <2>2. PICK f \in Bijection(1 .. Cardinality(S), S) : TRUE
    BY <2>1 DEF ExistsBijection
  <2>3. f \in [1 .. Cardinality(S) -> S] /\ IsInjective(f)
    BY <2>2 DEF Bijection, Injection, IsInjective
  <2> QED
    BY <2>3 DEF SetToSeq
<1>3. SetToSeq(S) \in Injection(1 .. Cardinality(S), S)
  BY <1>2 DEF Injection, IsInjective
<1>4. Cardinality(1 .. Cardinality(S)) = Cardinality(S)
  BY <1>1, FS_CardinalityType, FS_Interval
<1>5. SetToSeq(S) \in Surjection(1 .. Cardinality(S), S)
  BY <1>1, <1>3, <1>4, FS_Injection
<1>6. DOMAIN SetToSeq(S) = 1 .. Cardinality(S) /\ Elements(SetToSeq(S)) = S
  BY <1>2, <1>5 DEF Surjection, Elements
<1>7. SetToSeq(S) \in Seq(Handle)
  BY <1>1, <1>2
<1> QED
  BY <1>2, <1>6, <1>7

LEMMA MarkedSet ==
    ASSUME WaitTypes, NEW S \in SUBSET Handle, MarkReady(SetToSeq(S))
    PROVE  \A h \in S : flag'[h]
BY SetInOrder, Marked

\* There is always a handle that is not in use.
LEMMA HandleLeft ==
    ASSUME TaskTypes, OneTaskEach
    PROVE  NextHandle \in Handle /\ task[NextHandle] = "Gone"
<1> DEFINE used == {h \in Handle : task[h] # "Gone"}
           f == [h \in used |-> owner[h]]
<1>1. f \in Injection(used, Entity)
  BY DEF Injection, IsInjective, TaskTypes, OneTaskEach
<1>2. Cardinality(used) <= Cardinality(Entity) /\ IsFiniteSet(used)
  BY <1>1, HandleAssumption, FS_Injection, FS_Subset
<1>3. used # Handle
  <2>1. Cardinality(Handle) \in Nat /\ Cardinality(Entity) \in Nat
    BY HandleAssumption, FS_CardinalityType
  <2> HIDE DEF used
  <2> QED
    BY <1>2, <2>1, HandleAssumption
<1>4. \E h \in Handle : task[h] = "Gone"
  BY <1>3
<1> QED
  BY <1>4 DEF NextHandle

-----------------------------------------------------------------------------
(* The steps *)

\* A new task takes a handle that is free, and the one before it is gone, with its timer.
LEMMA SpawnKeeps ==
    ASSUME RuntimeInv, NEW e \in Entity, NEW wait \in {"start", "park"}, Visit(e),
           Spawn(e, NextHandle, wait), timers' = WithoutTimersOf(current[e]), UNCHANGED events
    PROVE  RuntimeInv'
<1> USE DEF RuntimeInv
<1> DEFINE h == NextHandle
           old == current[e]
<1>1. /\ h \in Handle /\ task[h] = "Gone" /\ old # h /\ h # NoTask
      /\ old = NoTask \/ (old \in Handle /\ task[old] # "Gone" /\ owner[old] = e)
  <2>1. h \in Handle /\ task[h] = "Gone"
    BY HandleLeft
  <2> QED
    BY <2>1, NoneAssumption DEF TaskTypes, OneTaskEach
<1>2. /\ phase = "activity" /\ e \in todo /\ todo' = todo \ {e} /\ UNCHANGED <<phase, alive, poller>>
      /\ poller = NoTask
  BY DEF Visit, InTurn, pollvars
<1>3. /\ current' = [current EXCEPT ![e] = h] /\ owner' = [owner EXCEPT ![h] = e]
      /\ task' = [Forget(task, old, "Gone") EXCEPT ![h] = "Running"]
      /\ waits' = [Forget(waits, old, Await("run")) EXCEPT ![h] = Await(wait)]
      /\ sink' = [Forget(sink, old, <<>>) EXCEPT ![h] = <<>>]
      /\ flag' = [Forget(flag, old, FALSE) EXCEPT ![h] = TRUE]
  BY DEF Spawn
<1>4. /\ timers' \subseteq timers
      /\ \A t \in timers : t[1] # old => t \in timers'
      /\ \A t \in timers' : t[1] = old /\ t[2] > 0 => t[2] # waits[old].timer
  BY DEF WithoutTimersOf, WithoutTimerOf
<1> HIDE DEF h, old
<1>5. /\ task' \in [Handle -> {"Gone", "Running", "Polling", "Done"}]
      /\ \A k \in Handle : task'[k] = IF k = h THEN "Running" ELSE IF k = old THEN "Gone" ELSE task[k]
  <2>1. CASE old = NoTask
    BY <1>1, <1>3, <2>1, NoneAssumption DEF Forget, TaskTypes
  <2>2. CASE old \in Handle /\ old # NoTask
    BY <1>1, <1>3, <2>2 DEF Forget, TaskTypes
  <2> QED
    BY <1>1, <2>1, <2>2, NoneAssumption
<1>6. /\ waits' \in [Handle -> Wait] /\ waits'[h] = Await(wait)
      /\ \A k \in Handle : k # h => waits'[k] = IF k = old THEN Await("run") ELSE waits[k]
  <2>1. Await(wait) \in Wait /\ Await("run") \in Wait
    BY Waits
  <2>2. CASE old = NoTask
    BY <1>1, <1>3, <2>1, <2>2, NoneAssumption DEF Forget, WaitTypes
  <2>3. CASE old \in Handle /\ old # NoTask
    BY <1>1, <1>3, <2>1, <2>3 DEF Forget, WaitTypes
  <2> QED
    BY <1>1, <2>2, <2>3, NoneAssumption
<1>7. /\ sink' \in [Handle -> Seq(Sub)] /\ flag' \in [Handle -> BOOLEAN] /\ flag'[h]
      /\ \A k \in Handle : k # h /\ k # old => sink'[k] = sink[k] /\ flag'[k] = flag[k]
  <2>1. CASE old = NoTask
    BY <1>1, <1>3, <2>1, NoneAssumption DEF Forget, WaitTypes
  <2>2. CASE old \in Handle /\ old # NoTask
    <3>1. /\ sink' = [[sink EXCEPT ![old] = <<>>] EXCEPT ![h] = <<>>]
          /\ flag' = [[flag EXCEPT ![old] = FALSE] EXCEPT ![h] = TRUE]
      BY <1>3, <2>2 DEF Forget
    <3>2. /\ flag' \in [Handle -> BOOLEAN] /\ flag'[h]
          /\ \A k \in Handle : k # h /\ k # old => flag'[k] = flag[k]
      BY <1>1, <3>1 DEF WaitTypes
    <3>3. /\ sink' \in [Handle -> Seq(Sub)]
          /\ \A k \in Handle : k # h /\ k # old => sink'[k] = sink[k]
      <4> DEFINE S == Seq(Sub)
      <4>1. sink \in [Handle -> S] /\ <<>> \in S
        BY DEF WaitTypes
      <4> HIDE DEF S
      <4>2. sink' \in [Handle -> S] /\ \A k \in Handle : k # h /\ k # old => sink'[k] = sink[k]
        BY <1>1, <3>1, <4>1
      <4> QED
        BY <4>2 DEF S
    <3> QED
      BY <3>2, <3>3
  <2> QED
    BY <1>1, <2>1, <2>2, NoneAssumption
<1>8. TaskTypes' /\ WaitTypes'
  BY <1>1, <1>2, <1>3, <1>4, <1>5, <1>6, <1>7 DEF TaskTypes, WaitTypes
<1>9. InTurn'
  BY <1>2, NoneAssumption DEF InTurn
<1>10. OneTaskEach'
  <2>1. \A k \in Handle : owner'[k] = IF k = h THEN e ELSE owner[k]
    BY <1>1, <1>3 DEF TaskTypes
  <2>2. \A f \in Entity : current'[f] = IF f = e THEN h ELSE current[f]
    BY <1>3 DEF TaskTypes
  <2>3. e \in alive
    BY <1>2 DEF TaskTypes
  <2>4. \A f \in Entity : f # e /\ current[f] # NoTask => current[f] \in Handle /\ current[f] # old /\ current[f] # h
    BY <1>1 DEF TaskTypes, OneTaskEach
  <2>5. \A k \in Handle : task'[k] # "Gone" /\ k # h => task[k] # "Gone" /\ owner[k] # e
    BY <1>1, <1>5, <2>3 DEF OneTaskEach, old
  <2>6. \A f \in Entity : current'[f] # NoTask =>
          f \in alive' /\ task'[current'[f]] # "Gone" /\ owner'[current'[f]] = f
    BY <1>1, <1>2, <1>5, <2>1, <2>2, <2>3, <2>4 DEF OneTaskEach, TaskTypes
  <2>7. \A k \in Handle : task'[k] # "Gone" /\ owner'[k] \in alive' => current'[owner'[k]] = k
    BY <1>1, <1>2, <1>5, <2>1, <2>2, <2>3, <2>5 DEF OneTaskEach, TaskTypes
  <2>8. \A k, m \in Handle : task'[k] # "Gone" /\ task'[m] # "Gone" /\ owner'[k] = owner'[m] => k = m
    BY <1>1, <1>5, <2>1, <2>5 DEF OneTaskEach
  <2> QED
    BY <2>6, <2>7, <2>8 DEF OneTaskEach
<1>11. TimersListed'
  <2>1. Await(wait).timer = NoTimer /\ Await("run").timer = NoTimer /\ ~ NoTimer > 0 /\ NoTimer # 0
    BY Waits DEF NoTimer
  <2>2. \A k \in Handle : task'[k] = "Running" /\ k # h => k # old /\ task[k] = "Running" /\ waits'[k] = waits[k]
    BY <1>1, <1>5, <1>6
  <2>3. \A k \in Handle : waits'[k].kind \notin {"event", "timer"} => waits'[k].timer = NoTimer
    BY <1>1, <1>6, <2>1 DEF TimersListed
  <2>4. \A k \in Handle : task'[k] = "Running" /\ waits'[k].timer > 0 => <<k, waits'[k].timer>> \in timers'
    BY <1>4, <1>6, <2>1, <2>2 DEF TimersListed
  <2>5. \A k \in Handle \ {poller'} : task'[k] = "Running" /\ waits'[k].timer = 0 => <<k, 0>> \in timers' \/ flag'[k]
    BY <1>2, <1>4, <1>6, <1>7, <2>1, <2>2 DEF TimersListed
  <2>6. ASSUME NEW t \in timers', t[2] > 0 PROVE task'[t[1]] = "Running" /\ waits'[t[1]].timer = t[2]
    <3>1. t \in timers /\ t[1] \in Handle /\ task[t[1]] = "Running" /\ waits[t[1]].timer = t[2]
      BY <1>4, <2>6 DEF TimersListed, WaitTypes
    <3>2. t[1] # old /\ t[1] # h
      BY <1>1, <1>4, <2>6, <3>1
    <3> QED
      BY <1>5, <1>6, <3>1, <3>2
  <2> QED
    BY <2>3, <2>4, <2>5, <2>6 DEF TimersListed
<1>12. WakeupNotLost'
  <2>1. \A k \in Handle : task'[k] = "Running" /\ k # h => k # old /\ task[k] = "Running" /\ waits'[k] = waits[k]
    BY <1>1, <1>5, <1>6
  <2> QED
    BY <1>2, <1>7, <2>1 DEF WakeupNotLost
<1> QED
  BY <1>8, <1>9, <1>10, <1>11, <1>12

\* A poll changes what its own task waits for, and its timers.
PollEffect(h) ==
    /\ Polled(h) /\ poller' \in {h, NoTask} /\ UNCHANGED task
    /\ waits' \in [Handle -> Wait] /\ sink' \in [Handle -> Seq(Sub)]
    /\ timers' \subseteq Handle \X TicksLeft /\ flag' \in [Handle -> BOOLEAN]
    /\ \A k \in Handle : flag[k] => flag'[k]
    /\ \A k \in Handle : k # h => waits'[k] = waits[k] /\ sink'[k] = sink[k]
    /\ \A t \in timers : t[1] # h => t \in timers'
    /\ \A t \in timers' : t[1] # h => t \in timers
    /\ waits'[h].kind \notin {"event", "timer"} => waits'[h].timer = NoTimer
    /\ waits'[h].timer > 0 => <<h, waits'[h].timer>> \in timers'
    /\ poller' = NoTask => waits'[h].timer # 0 /\ (waits'[h].kind = "event" => sink'[h] = <<>>)
    /\ \A t \in timers' : t[1] = h /\ t[2] > 0 => waits'[h].timer = t[2]

LEMMA PollKeeps ==
    ASSUME RuntimeInv, NEW h \in Handle, PollEffect(h)
    PROVE  RuntimeInv'
<1> USE DEF RuntimeInv, PollEffect
<1>1. poller = h /\ UNCHANGED <<phase, todo, alive, current, owner, events>> /\ task[h] = "Running"
      /\ h # NoTask /\ phase = "poll"
  BY NoneAssumption DEF Polled, clock, InTurn
<1>2. TaskTypes' /\ WaitTypes'
  BY <1>1 DEF TaskTypes, WaitTypes
<1>3. InTurn' /\ OneTaskEach'
  BY <1>1, NoneAssumption DEF InTurn, OneTaskEach
<1>4. TimersListed'
  <2>1. \A k \in Handle : waits'[k].kind \notin {"event", "timer"} => waits'[k].timer = NoTimer
    BY DEF TimersListed
  <2>2. \A k \in Handle : task'[k] = "Running" /\ waits'[k].timer > 0 => <<k, waits'[k].timer>> \in timers'
    BY <1>1 DEF TimersListed
  <2>3. \A k \in Handle \ {poller'} : task'[k] = "Running" /\ waits'[k].timer = 0 => <<k, 0>> \in timers' \/ flag'[k]
    <3> SUFFICES ASSUME NEW k \in Handle, k # poller', task[k] = "Running", waits'[k].timer = 0
                 PROVE  <<k, 0>> \in timers' \/ flag'[k]
      OBVIOUS
    <3>1. k # h
      OBVIOUS
    <3> QED
      BY <1>1, <3>1 DEF TimersListed
  <2>4. ASSUME NEW t \in timers', t[2] > 0 PROVE task'[t[1]] = "Running" /\ waits'[t[1]].timer = t[2]
    <3>1. CASE t[1] = h
      BY <1>1, <2>4, <3>1
    <3>2. CASE t[1] # h
      <4>1. t \in timers /\ t[1] \in Handle
        BY <3>2
      <4> QED
        BY <2>4, <3>2, <4>1 DEF TimersListed
    <3> QED
      BY <3>1, <3>2
  <2> QED
    BY <2>1, <2>2, <2>3, <2>4 DEF TimersListed
<1>5. WakeupNotLost'
  BY <1>1 DEF WakeupNotLost
<1> QED
  BY <1>2, <1>3, <1>4, <1>5

\* What an activity does from one await to the next.
LEMMA ActivityKeeps ==
    ASSUME RuntimeInv, NEW h \in Handle,
           \/ Resume(h) \/ TimerElapsed(h) \/ HandleEvent(h) \/ Suspend(h) \/ YieldNow(h)
           \/ \E n \in WaitTicks : AwaitTimer(h, n)
           \/ \E sub \in Sub, n \in WaitTicks \cup {NoTimer} : AwaitEvent(h, sub, n)
           \/ \E s \in Subject : SubscribeTo(h, s)
    PROVE  RuntimeInv'
<1> USE DEF RuntimeInv
<1>1. /\ waits \in [Handle -> Wait] /\ timers \subseteq Handle \X TicksLeft
      /\ sink \in [Handle -> Seq(Sub)] /\ flag \in [Handle -> BOOLEAN]
  BY DEF WaitTypes
<1>2. /\ waits[h].kind \notin {"event", "timer"} => waits[h].timer = NoTimer
      /\ \A t \in timers : t[1] = h /\ t[2] > 0 => waits[h].timer = t[2]
      /\ waits[h].timer \in TicksLeft \cup {NoTimer}
  BY Waits, <1>1 DEF TimersListed
<1>3. Polled(h) => poller = h /\ task[h] = "Running" /\ (waits[h].timer > 0 => <<h, waits[h].timer>> \in timers)
  BY DEF Polled, InTurn, TimersListed
<1>4. Await("run") \in Wait /\ Await("run").kind = "run" /\ Await("run").timer = NoTimer /\ ~ NoTimer > 0
      /\ Await("yield") \in Wait /\ Await("yield").kind = "yield" /\ Await("yield").timer = NoTimer /\ NoTimer # 0
  BY Waits DEF NoTimer
<1>5. h # NoTask
  BY NoneAssumption
<1> SUFFICES PollEffect(h)
  BY PollKeeps
<1> USE <1>1, <1>2, <1>3, <1>4, <1>5 DEF PollEffect, readyvars
<1>6. CASE Resume(h)
  <2>1. \A t \in timers : t[1] = h => ~ t[2] > 0
    BY <1>6 DEF Resume
  <2> QED
    BY <1>6, <2>1 DEF Resume
<1>7. CASE TimerElapsed(h)
  <2>1. \A t \in timers : t[1] = h => ~ t[2] > 0
    BY <1>7 DEF TimerElapsed
  <2>2. flag' \in [Handle -> BOOLEAN] /\ \A k \in Handle : flag[k] => flag'[k]
    BY <1>7, Marked DEF TimerElapsed, RuntimeInv
  <2> QED
    BY <1>7, <2>1, <2>2 DEF TimerElapsed
<1>8. CASE HandleEvent(h)
  <2>1. sink' \in [Handle -> Seq(Sub)] /\ \A k \in Handle : k # h => sink'[k] = sink[k]
    BY <1>8 DEF HandleEvent
  <2>2. CASE UNCHANGED <<waits, timers, subscriptions>>
    BY <1>8, <2>1, <2>2 DEF HandleEvent
  <2>3. CASE waits' = [waits EXCEPT ![h] = Await("run")] /\ timers' = WithoutTimerOf(h)
    <3>1. /\ timers' \subseteq timers
          /\ \A t \in timers : t[1] # h => t \in timers'
          /\ \A t \in timers' : t[1] = h /\ t[2] > 0 => t[2] # waits[h].timer
      BY <2>3 DEF WithoutTimerOf
    <3>2. \A t \in timers' : t[1] = h => ~ t[2] > 0
      BY <3>1
    <3> QED
      BY <1>8, <2>1, <2>3, <3>1, <3>2 DEF HandleEvent
  <2> QED
    BY <1>8, <2>2, <2>3 DEF HandleEvent
<1>9. CASE Suspend(h)
  BY <1>9 DEF Suspend
<1>10. CASE YieldNow(h)
  <2>1. \A t \in timers : t[1] = h => ~ t[2] > 0
    BY <1>10 DEF YieldNow
  <2>2. flag' \in [Handle -> BOOLEAN] /\ \A k \in Handle : flag[k] => flag'[k]
    BY <1>10, Marked DEF YieldNow, RuntimeInv
  <2> QED
    BY <1>10, <2>1, <2>2 DEF YieldNow
<1>11. ASSUME NEW n \in WaitTicks, AwaitTimer(h, n) PROVE PollEffect(h)
  <2> DEFINE w == [Await("timer") EXCEPT !.timer = n]
  <2>1. w \in Wait /\ w.kind = "timer" /\ w.timer = n /\ n > 0 /\ n \in TicksLeft
    BY Ticks, WaitAssumption DEF Await, Wait
  <2>2. waits' = [waits EXCEPT ![h] = w] /\ timers' = timers \cup {<<h, n>>}
        /\ UNCHANGED <<task, sink, flag, poller>> /\ Polled(h)
    BY <1>11 DEF AwaitTimer
  <2>3. \A t \in timers : t[1] = h => ~ t[2] > 0
    BY <1>11 DEF AwaitTimer
  <2> HIDE DEF w
  <2> QED
    BY <2>1, <2>2, <2>3
<1>12. ASSUME NEW sub \in Sub, NEW n \in WaitTicks \cup {NoTimer}, AwaitEvent(h, sub, n) PROVE PollEffect(h)
  <2> DEFINE w == [kind |-> "event", sub |-> sub, timer |-> n]
             new == {<<h, n>>} \cap ({h} \X TicksLeft)
  <2>1. w \in Wait /\ w.kind = "event" /\ w.timer = n
    BY Ticks DEF Wait
  <2>2. /\ new \subseteq Handle \X TicksLeft
        /\ \A t \in new : t[1] = h /\ t[2] = n
        /\ n > 0 => <<h, n>> \in new
    BY Ticks
  <2>3. n # 0
    BY WaitAssumption
  <2>4. waits' = [waits EXCEPT ![h] = w] /\ timers' = timers \cup new
        /\ UNCHANGED <<task, sink, flag, poller>> /\ Polled(h)
    BY <1>12 DEF AwaitEvent
  <2>5. \A t \in timers : t[1] = h => ~ t[2] > 0
    BY <1>12 DEF AwaitEvent
  <2> HIDE DEF w, new
  <2> QED
    BY <2>1, <2>2, <2>3, <2>4, <2>5
<1>13. ASSUME NEW s \in Subject, SubscribeTo(h, s) PROVE PollEffect(h)
  BY <1>13 DEF SubscribeTo
<1> QED
  BY <1>6, <1>7, <1>8, <1>9, <1>10, <1>11, <1>12, <1>13

\* A finished task waits for nothing, and has no timer.
LEMMA FinishKeeps ==
    ASSUME RuntimeInv, NEW h \in Handle, FinishTask(h)
    PROVE  RuntimeInv'
<1> USE DEF RuntimeInv
<1> DEFINE wanted == current[owner[h]] = h
<1>1. /\ poller = h /\ poller' = NoTask /\ waits[h].kind = "run" /\ h # NoTask /\ phase = "poll"
      /\ UNCHANGED <<phase, todo, alive, current, owner, waits, events>> /\ task[h] = "Running"
  BY NoneAssumption DEF FinishTask, Polled, clock, InTurn
<1>2. /\ task' \in [Handle -> {"Gone", "Running", "Polling", "Done"}]
      /\ \A k \in Handle : k # h => task'[k] = task[k]
      /\ task'[h] = IF wanted THEN "Done" ELSE "Gone"
  BY DEF FinishTask, TaskTypes
<1>3. /\ sink' \in [Handle -> Seq(Sub)] /\ \A k \in Handle : k # h => sink'[k] = sink[k]
      /\ flag' \in [Handle -> BOOLEAN] /\ \A k \in Handle : k # h => flag'[k] = flag[k]
  <2>1. /\ sink' = [sink EXCEPT ![h] = IF wanted THEN sink[h] ELSE <<>>]
        /\ flag' = [flag EXCEPT ![h] = flag[h] /\ wanted]
    BY DEF FinishTask
  <2>2. sink \in [Handle -> Seq(Sub)] /\ flag \in [Handle -> BOOLEAN]
    BY DEF WaitTypes
  <2>3. (IF wanted THEN sink[h] ELSE <<>>) \in Seq(Sub)
    BY <2>2
  <2>4. (flag[h] /\ wanted) \in BOOLEAN
    OBVIOUS
  <2> HIDE DEF wanted
  <2>5. sink' \in [Handle -> Seq(Sub)] /\ \A k \in Handle : k # h => sink'[k] = sink[k]
    BY <2>1, <2>2, <2>3
  <2>6. flag' \in [Handle -> BOOLEAN] /\ \A k \in Handle : k # h => flag'[k] = flag[k]
    BY <2>1, <2>2, <2>4
  <2> QED
    BY <2>5, <2>6
<1>4. /\ timers' \subseteq timers /\ \A t \in timers : t[1] # h => t \in timers'
      /\ \A t \in timers : t[1] = h => ~ t[2] > 0
  <2>1. \A t \in timers : t[1] = h => ~ t[2] > 0
    BY <1>1 DEF TimersListed, NoTimer
  <2> QED
    BY <2>1 DEF FinishTask, WithoutTimersOf, WithoutTimerOf
<1>5. TaskTypes' /\ WaitTypes'
  BY <1>1, <1>2, <1>3, <1>4 DEF TaskTypes, WaitTypes
<1>6. InTurn'
  BY <1>1, NoneAssumption DEF InTurn
<1>7. OneTaskEach'
  <2>1. \A k \in Handle : task'[k] # "Gone" => task[k] # "Gone"
    BY <1>1, <1>2
  <2>2. \A e \in Entity : current[e] = h => wanted
    BY <1>1 DEF OneTaskEach
  <2>3. \A e \in Entity : current[e] # NoTask => task'[current[e]] # "Gone"
    BY <1>2, <2>2 DEF OneTaskEach, TaskTypes
  <2> QED
    BY <1>1, <2>1, <2>3 DEF OneTaskEach
<1>8. TimersListed'
  <2>1. \A k \in Handle : task'[k] = "Running" => k # h /\ task[k] = "Running"
    BY <1>2
  <2>2. \A t \in timers' : t[2] > 0 => task'[t[1]] = "Running" /\ waits'[t[1]].timer = t[2]
    <3> SUFFICES ASSUME NEW t \in timers', t[2] > 0 PROVE task'[t[1]] = "Running" /\ waits[t[1]].timer = t[2]
      BY <1>1
    <3>1. t \in timers /\ t[1] # h /\ t[1] \in Handle
      BY <1>4 DEF WaitTypes
    <3> QED
      BY <1>2, <3>1 DEF TimersListed
  <2> QED
    BY <1>1, <1>3, <1>4, <2>1, <2>2 DEF TimersListed
<1>9. WakeupNotLost'
  <2>1. \A k \in Handle : task'[k] = "Running" => k # h /\ task[k] = "Running"
    BY <1>2
  <2> QED
    BY <1>1, <1>3, <2>1 DEF WakeupNotLost
<1> QED
  BY <1>5, <1>6, <1>7, <1>8, <1>9

\* A dead entity has no task that anybody can ask for; if it runs still, it goes on.
LEMMA DieKeeps ==
    ASSUME RuntimeInv, NEW e \in Entity, Die(e)
    PROVE  RuntimeInv'
<1> USE DEF RuntimeInv
<1> DEFINE done == {h \in {current[e]} \cap Handle : task[h] = "Done"}
<1>1. /\ phase = "end" /\ poller = NoTask /\ todo = {}
      /\ UNCHANGED <<phase, todo, owner, waits, timers, events, poller>>
      /\ alive' = alive \ {e} /\ current' = [current EXCEPT ![e] = NoTask]
  <2>1. /\ phase = "end" /\ alive' = alive \ {e} /\ current' = [current EXCEPT ![e] = NoTask]
        /\ UNCHANGED <<phase, todo, owner, waits, timers, events, poller>>
    BY DEF Die, clock, pollvars, eventvars
  <2>2. poller = NoTask /\ todo = {}
    BY <2>1 DEF InTurn
  <2> QED
    BY <2>1, <2>2
<1>2. /\ task' = [h \in Handle |-> IF h \in done THEN "Gone" ELSE task[h]]
      /\ sink' = [h \in Handle |-> IF h \in done THEN <<>> ELSE sink[h]]
      /\ flag' = [h \in Handle |-> flag[h] /\ h \notin done]
      /\ \A h \in Handle : h \in done <=> h = current[e] /\ task[h] = "Done"
  BY DEF Die
<1> HIDE DEF done
<1>3. \A h \in Handle : task[h] = "Running" => task'[h] = "Running" /\ sink'[h] = sink[h] /\ (flag[h] => flag'[h])
  BY <1>1, <1>2
<1>4. \A h \in Handle : task'[h] = "Running" => task[h] = "Running"
  BY <1>1, <1>2
<1>5. TaskTypes' /\ WaitTypes'
  <2>1. \A h \in Handle : sink'[h] \in Seq(Sub)
    BY <1>1, <1>2 DEF WaitTypes
  <2>2. sink' \in [Handle -> Seq(Sub)]
    BY <1>1, <1>2, <2>1
  <2> QED
    BY <1>1, <1>2, <2>2 DEF TaskTypes, WaitTypes
<1>6. InTurn'
  BY <1>1, <1>2, NoneAssumption DEF InTurn
<1>7. OneTaskEach'
  <2>1. \A f \in Entity : current'[f] = IF f = e THEN NoTask ELSE current[f]
    BY <1>1, <1>2 DEF TaskTypes
  <2>2. \A f \in Entity : f # e /\ current[f] # NoTask => current[f] \in Handle /\ current[f] # current[e]
    BY DEF OneTaskEach, TaskTypes
  <2>3. \A f \in Entity : current'[f] # NoTask =>
           f \in alive' /\ task'[current'[f]] # "Gone" /\ owner'[current'[f]] = f
    BY <1>1, <1>2, <2>1, <2>2 DEF OneTaskEach
  <2>4. \A h \in Handle : task'[h] # "Gone" => task[h] # "Gone"
    BY <1>1, <1>2
  <2>5. \A h \in Handle : task'[h] # "Gone" /\ owner'[h] \in alive' => current'[owner'[h]] = h
    BY <1>1, <1>2, <2>1, <2>4 DEF OneTaskEach, TaskTypes
  <2>6. \A h, k \in Handle : task'[h] # "Gone" /\ task'[k] # "Gone" /\ owner'[h] = owner'[k] => h = k
    BY <1>1, <1>2, <2>4 DEF OneTaskEach
  <2> QED
    BY <2>3, <2>5, <2>6 DEF OneTaskEach
<1>8. TimersListed'
  <2>1. \A t \in timers : t[1] \in Handle
    BY DEF WaitTypes
  <2> QED
    BY <1>1, <1>2, <1>3, <1>4, <2>1 DEF TimersListed
<1>9. WakeupNotLost'
  BY <1>1, <1>2, <1>3, <1>4 DEF WakeupNotLost
<1> QED
  BY <1>5, <1>6, <1>7, <1>8, <1>9

\* The tasks and what they wait for stay as they are.
LEMMA RestKeeps ==
    ASSUME RuntimeInv,
           \/ TakeReady \/ EndPoll \/ EndPost \/ EndDeliver \/ FireTimers \/ DeliverEvent
           \/ (\E event \in Sub : Post(event)) \/ (\E e \in Entity : KeepGoing(e))
    PROVE  RuntimeInv'
<1> USE DEF RuntimeInv
<1>1. /\ UNCHANGED <<alive, current, task, owner, waits, poller>>
      /\ todo' \subseteq todo
      /\ phase' # "activity" => todo' = {}
      /\ phase' # "poll" => poller = NoTask
      /\ phase # "poll" => poller = NoTask
  BY DEF TakeReady, EndPoll, EndPost, EndDeliver, FireTimers, DeliverEvent, Post, KeepGoing, Visit,
         GoTo, clock, taskvars, pollvars, InTurn
<1>2. events' \in Seq(Sub)
  <2>1. CASE \E event \in Sub : Post(event)
    BY <2>1 DEF Post, WaitTypes
  <2>2. CASE DeliverEvent
    BY <2>2 DEF DeliverEvent, WaitTypes
  <2>3. CASE UNCHANGED events
    BY <2>3 DEF WaitTypes
  <2> QED
    BY <2>1, <2>2, <2>3 DEF TakeReady, EndPoll, EndPost, EndDeliver, FireTimers, KeepGoing, eventvars
<1>3. /\ timers' \subseteq timers /\ flag' \in [Handle -> BOOLEAN]
      /\ \A t \in timers : t[2] > 0 => t \in timers'
      /\ \A h \in Handle : (flag[h] => flag'[h]) /\ (<<h, 0>> \in timers \ timers' => flag'[h])
  <2>1. CASE FireTimers
    <3> DEFINE elapsed == {t[1] : t \in timers \ timers'}
    <3>1. elapsed \in SUBSET Handle /\ \A h \in Handle : <<h, 0>> \in timers \ timers' => h \in elapsed
      BY DEF WaitTypes
    <3>2. timers' = {t \in timers : t[2] > 0} /\ MarkReady(SetToSeq(elapsed))
      BY <2>1 DEF FireTimers
    <3>3. \A h \in elapsed : flag'[h]
      BY <3>1, <3>2, MarkedSet
    <3>4. flag' \in [Handle -> BOOLEAN] /\ \A h \in Handle : flag[h] => flag'[h]
      BY <3>2, Marked
    <3> HIDE DEF elapsed
    <3> QED
      BY <3>1, <3>2, <3>3, <3>4
  <2>2. CASE DeliverEvent
    <3>1. UNCHANGED timers /\ \E told : MarkReady(told)
      BY <2>2 DEF DeliverEvent, Tell
    <3> QED
      BY <3>1, Marked
  <2>3. CASE UNCHANGED <<flag, timers>>
    BY <2>3 DEF WaitTypes
  <2> QED
    BY <2>1, <2>2, <2>3 DEF TakeReady, EndPoll, EndPost, EndDeliver, Post, KeepGoing, readyvars
<1>4. /\ sink' \in [Handle -> Seq(Sub)]
      /\ \A h \in Handle : sink'[h] = sink[h] \/ flag'[h]
  <2>1. CASE DeliverEvent
    <3>1. PICK told : /\ sink' = [h \in Handle |-> IF h \in ToSet(told) THEN Append(sink[h], Head(events)) ELSE sink[h]]
                      /\ MarkReady(told)
      BY <2>1 DEF DeliverEvent, Tell
    <3>2. \A h \in Handle : h \in ToSet(told) => flag'[h]
      BY <3>1, Marked DEF ToSet, Elements
    <3>3. events \in Seq(Sub) /\ events # <<>> /\ \A h \in Handle : sink[h] \in Seq(Sub)
      BY <2>1 DEF DeliverEvent, WaitTypes
    <3>4. Head(events) \in Sub
      BY <3>3
    <3>5. \A h \in Handle : Append(sink[h], Head(events)) \in Seq(Sub)
      BY <3>3, <3>4
    <3> QED
      BY <3>1, <3>2, <3>3, <3>5
  <2>2. CASE UNCHANGED sink
    BY <2>2 DEF WaitTypes
  <2> QED
    BY <2>1, <2>2 DEF TakeReady, EndPoll, EndPost, EndDeliver, FireTimers, Post, KeepGoing, taskvars
<1>5. TaskTypes' /\ WaitTypes'
  BY <1>1, <1>2, <1>3, <1>4 DEF TaskTypes, WaitTypes
<1>6. InTurn' /\ OneTaskEach'
  BY <1>1 DEF InTurn, OneTaskEach
<1>7. TimersListed'
  <2>1. \A h \in Handle : waits[h].timer > 0 /\ <<h, waits[h].timer>> \in timers => <<h, waits[h].timer>> \in timers'
    BY <1>3
  <2> QED
    BY <1>1, <1>3, <2>1 DEF TimersListed
<1>8. WakeupNotLost'
  BY <1>1, <1>3, <1>4 DEF WakeupNotLost
<1> QED
  BY <1>5, <1>6, <1>7, <1>8

\* Whoever is polled is ready no more.
LEMMA BeginPollKeeps ==
    ASSUME RuntimeInv, BeginPoll
    PROVE  RuntimeInv'
<1> USE DEF RuntimeInv
<1> DEFINE h == Head(batch)
<1>1. /\ phase = "poll" /\ poller = NoTask
      /\ UNCHANGED <<phase, todo, alive, current, owner, waits, sink, timers, events>>
      /\ flag' = [flag EXCEPT ![h] = FALSE]
      /\ poller' = IF task[h] = "Running" THEN h ELSE NoTask
      /\ task' = [task EXCEPT ![h] = IF @ = "Done" THEN "Polling" ELSE @]
  BY DEF BeginPoll, clock, eventvars
<1> HIDE DEF h
<1>2. /\ task' \in [Handle -> {"Gone", "Running", "Polling", "Done"}]
      /\ \A k \in Handle : task'[k] = IF k = h /\ task[k] = "Done" THEN "Polling" ELSE task[k]
  BY <1>1 DEF TaskTypes
<1>3. flag' \in [Handle -> BOOLEAN] /\ \A k \in Handle : k # h => flag'[k] = flag[k]
  BY <1>1 DEF WaitTypes
<1>4. /\ \A k \in Handle : (task'[k] = "Running" <=> task[k] = "Running") /\ (task'[k] = "Gone" <=> task[k] = "Gone")
      /\ \A k \in Handle : task[k] = "Running" /\ k # poller' => k # h
  BY <1>1, <1>2
<1>5. TaskTypes' /\ WaitTypes'
  BY <1>1, <1>2, <1>3 DEF TaskTypes, WaitTypes
<1>6. InTurn'
  BY <1>1, <1>4, NoneAssumption DEF InTurn
<1>7. OneTaskEach'
  BY <1>1, <1>4 DEF OneTaskEach, TaskTypes
<1>8. TimersListed'
  <2>1. \A t \in timers : t[1] \in Handle
    BY DEF WaitTypes
  <2> QED
    BY <1>1, <1>3, <1>4, <2>1, NoneAssumption DEF TimersListed
<1>9. WakeupNotLost'
  BY <1>1, <1>3, <1>4, NoneAssumption DEF WakeupNotLost
<1> QED
  BY <1>5, <1>6, <1>7, <1>8, <1>9

\* Timers, and who waits for them, count down together.
LEMMA EndTickKeeps ==
    ASSUME RuntimeInv, EndTick
    PROVE  RuntimeInv'
<1> USE DEF RuntimeInv
<1>1. /\ phase = "end" /\ phase' = "activity" /\ todo' = alive /\ poller = NoTask
      /\ UNCHANGED <<alive, current, task, owner, sink, flag, poller, events>>
      /\ waits' = [h \in Handle |-> [waits[h] EXCEPT !.timer = Sooner(@)]]
      /\ timers' = {<<t[1], Sooner(t[2])>> : t \in timers}
  <2>1. /\ phase = "end" /\ phase' = "activity" /\ todo' = alive
        /\ UNCHANGED <<alive, current, task, owner, sink, flag, poller, events>>
        /\ waits' = [h \in Handle |-> [waits[h] EXCEPT !.timer = Sooner(@)]]
        /\ timers' = {<<t[1], Sooner(t[2])>> : t \in timers}
    BY DEF EndTick, readyvars, pollvars, eventvars
  <2>2. poller = NoTask
    BY <2>1 DEF InTurn
  <2> QED
    BY <2>1, <2>2
<1>2. \A h \in Handle : /\ waits[h] \in Wait /\ waits'[h] \in Wait /\ waits'[h].kind = waits[h].kind
                        /\ waits'[h].timer = Sooner(waits[h].timer)
  <2> SUFFICES ASSUME NEW h \in Handle
               PROVE  /\ waits[h] \in Wait /\ waits'[h] \in Wait /\ waits'[h].kind = waits[h].kind
                      /\ waits'[h].timer = Sooner(waits[h].timer)
    OBVIOUS
  <2>1. waits[h] \in Wait /\ waits'[h] = [waits[h] EXCEPT !.timer = Sooner(waits[h].timer)]
    BY <1>1 DEF WaitTypes
  <2>2. Sooner(waits[h].timer) \in TicksLeft \cup {NoTimer}
    BY <2>1, Ticks, Waits
  <2> QED
    BY <2>1, <2>2 DEF Wait
<1>3. \A n \in TicksLeft \cup {NoTimer} : /\ Sooner(n) > 0 => n > 0
                                          /\ Sooner(n) = 0 => n \in {0, 1}
                                          /\ n \in Int
  BY Ticks DEF Sooner, NoTimer
<1>4. /\ timers' \subseteq Handle \X TicksLeft
      /\ \A h, n : <<h, n>> \in timers => <<h, Sooner(n)>> \in timers'
  BY <1>1, Ticks DEF WaitTypes
<1>5. TaskTypes' /\ WaitTypes'
  BY <1>1, <1>2, <1>4 DEF TaskTypes, WaitTypes
<1>6. InTurn' /\ OneTaskEach'
  BY <1>1, NoneAssumption DEF InTurn, OneTaskEach
<1>7. TimersListed'
  <2>1. \A h \in Handle : waits[h].timer \in TicksLeft \cup {NoTimer}
    BY <1>2, Waits
  <2>2. \A h \in Handle : waits'[h].kind \notin {"event", "timer"} => waits'[h].timer = NoTimer
    BY <1>2, Ticks DEF TimersListed
  <2>3. \A h \in Handle : task'[h] = "Running" /\ waits'[h].timer > 0 => <<h, waits'[h].timer>> \in timers'
    <3> SUFFICES ASSUME NEW h \in Handle, task[h] = "Running", Sooner(waits[h].timer) > 0
                 PROVE  <<h, Sooner(waits[h].timer)>> \in timers'
      BY <1>1, <1>2
    <3>1. waits[h].timer > 0
      BY <2>1, Ticks DEF Sooner, NoTimer
    <3>2. <<h, waits[h].timer>> \in timers
      BY <3>1 DEF TimersListed
    <3> QED
      BY <1>4, <3>2
  <2>4. \A h \in Handle \ {poller'} : task'[h] = "Running" /\ waits'[h].timer = 0 => <<h, 0>> \in timers' \/ flag'[h]
    <3> SUFFICES ASSUME NEW h \in Handle, h # poller, task[h] = "Running", Sooner(waits[h].timer) = 0
                 PROVE  <<h, 0>> \in timers' \/ flag[h]
      BY <1>1, <1>2
    <3>1. waits[h].timer \in {0, 1}
      BY <1>3, <2>1
    <3>2. <<h, waits[h].timer>> \in timers \/ flag[h]
      BY <3>1 DEF TimersListed
    <3> QED
      BY <1>4, <3>2
  <2>5. \A t \in timers' : t[2] > 0 => task'[t[1]] = "Running" /\ waits'[t[1]].timer = t[2]
    <3> SUFFICES ASSUME NEW u \in timers, Sooner(u[2]) > 0
                 PROVE  task'[u[1]] = "Running" /\ waits'[u[1]].timer = Sooner(u[2])
      BY <1>1
    <3>1. u[1] \in Handle /\ u[2] \in TicksLeft
      BY DEF WaitTypes
    <3>2. u[2] \in TicksLeft \cup {NoTimer}
      BY <3>1
    <3>3. u[2] > 0
      BY <3>2, Ticks DEF Sooner, NoTimer
    <3> QED
      BY <1>1, <1>2, <3>1, <3>3 DEF TimersListed
  <2> QED
    BY <2>2, <2>3, <2>4, <2>5 DEF TimersListed
<1>8. WakeupNotLost'
  BY <1>1, <1>2 DEF WakeupNotLost
<1> QED
  BY <1>5, <1>6, <1>7, <1>8

-----------------------------------------------------------------------------
(* The runtime *)

LEMMA RuntimeInitInv == RuntimeInit => RuntimeInv
<1> SUFFICES ASSUME RuntimeInit PROVE RuntimeInv
  OBVIOUS
<1> USE DEF RuntimeInit
<1>1. TaskTypes
  BY HandleAssumption DEF TaskTypes
<1>2. \A h \in Handle : waits[h] = Await("run") /\ waits[h] \in Wait /\ waits[h].kind = "run" /\ waits[h].timer = NoTimer
  BY Waits
<1>3. WaitTypes
  BY <1>2 DEF WaitTypes
<1>4. InTurn
  BY NoneAssumption DEF InTurn
<1>5. OneTaskEach /\ TimersListed /\ WakeupNotLost
  BY <1>2 DEF OneTaskEach, TimersListed, WakeupNotLost
<1> QED
  BY <1>1, <1>3, <1>4, <1>5 DEF RuntimeInv

LEMMA RuntimeStep ==
    ASSUME RuntimeInv, [RuntimeNext]_rtvars
    PROVE  RuntimeInv'
<1>1. CASE Schedule \/ DeliverEvent \/ EndDeliver
  BY <1>1, RestKeeps, BeginPollKeeps, EndTickKeeps DEF Schedule
<1>2. CASE ActivitySystem
  <2>1. PICK e \in todo : StartNew(e) \/ Collect(e) \/ KeepGoing(e)
    BY <1>2 DEF ActivitySystem
  <2>2. e \in Entity
    BY DEF RuntimeInv, TaskTypes
  <2>3. CASE StartNew(e)
    BY <2>2, <2>3, SpawnKeeps DEF StartNew
  <2>4. CASE Collect(e)
    BY <2>2, <2>4, SpawnKeeps DEF Collect, eventvars
  <2>5. CASE KeepGoing(e)
    BY <2>2, <2>5, RestKeeps
  <2> QED
    BY <2>1, <2>3, <2>4, <2>5
<1>3. CASE Activity
  BY <1>3, ActivityKeeps, FinishKeeps DEF Activity
<1>4. CASE \E event \in Sub : Post(event)
  BY <1>4, RestKeeps
<1>5. CASE \E e \in Entity : Die(e)
  BY <1>5, DieKeeps
<1>6. CASE UNCHANGED rtvars
  BY <1>6 DEF rtvars, clock, taskvars, readyvars, pollvars, eventvars, RuntimeInv, TaskTypes, WaitTypes,
              InTurn, OneTaskEach, TimersListed, WakeupNotLost
<1> QED
  BY <1>1, <1>2, <1>3, <1>4, <1>5, <1>6 DEF RuntimeNext

\* The invariant holds in every reachable state, which the theorems below rest on.
THEOREM RuntimeInvariant == RuntimeSpec => []RuntimeInv
BY RuntimeInitInv, RuntimeStep, PTL DEF RuntimeSpec

\* An activity that waits for a timer has one, or is ready already, and every timer still to
\* elapse is waited for: through replacements, deaths, selects that ended by their event, and
\* timers that elapse while their activity is being polled.
THEOREM TimersAgree == RuntimeSpec => []TimersMatchWaits
<1>1. RuntimeInv => TimersMatchWaits
  <2> SUFFICES ASSUME RuntimeInv PROVE TimersMatchWaits
    OBVIOUS
  <2>1. \A h \in Handle : waits[h].timer \in TicksLeft \cup {NoTimer}
    BY Waits DEF RuntimeInv, WaitTypes
  <2>2. \A h \in Handle : waits[h].timer # NoTimer => waits[h].timer > 0 \/ waits[h].timer = 0
    <3> SUFFICES ASSUME NEW h \in Handle, waits[h].timer # NoTimer
                 PROVE  waits[h].timer > 0 \/ waits[h].timer = 0
      OBVIOUS
    <3>1. waits[h].timer \in Nat
      BY <2>1, Ticks
    <3> QED
      BY <3>1
  <2> QED
    BY <2>2 DEF RuntimeInv, TimersListed, TimersMatchWaits
<1> QED
  BY <1>1, RuntimeInvariant, PTL

\* An activity that waits for an event is flagged as ready whenever its sink holds one:
\* events that come before it waits, while it is polled, or with a timeout, are all heard.
THEOREM WakeupsKept == RuntimeSpec => []WakeupNotLost
<1>1. RuntimeInv => WakeupNotLost
  BY DEF RuntimeInv
<1> QED
  BY <1>1, RuntimeInvariant, PTL

\* An entity never has two tasks that run, or that the runtime could be asked for, and never one
\* of somebody else's, though handles are used again and futures outlive their entities.
THEOREM OneTask == RuntimeSpec => []OneTaskEach
<1>1. RuntimeInv => OneTaskEach
  BY DEF RuntimeInv
<1> QED
  BY <1>1, RuntimeInvariant, PTL

-----------------------------------------------------------------------------
(***************************************************************************)
(* That the ready list is what its flags say, that no finished task is     *)
(* polled, and that whoever waits for an event is subscribed and hears     *)
(* only what it asked for, for any number of entities, tasks, subjects and *)
(* types of events.                                                        *)
(*                                                                         *)
(* Two layers above RuntimeInv.  A task is marked once                     *)
(* for an event because its entity is listed once for its subject, so the  *)
(* ready list rests on the subscriptions; and a late wakeup finds no       *)
(* finished task because that is collected, or dies, before the next       *)
(* polls, which rests on whose turn it is.                                 *)
(***************************************************************************)

Entry == [who : Entity, bits : SUBSET Type]

DriveTypes ==
    /\ asked \in [Handle -> SUBSET (Subject \X (Type \cup {All}))]
    /\ erroneous \subseteq Entity
    /\ Len(events) <= MaxPosted
    /\ \A h \in Handle : Len(sink[h]) + Len(events) <= MaxSink

\* A subscriber is listed once for each subject.
WellListed(subs) ==
    /\ subs \in [Subject -> Seq(Entry)]
    /\ \A s \in Subject : \A i, j \in DOMAIN subs[s] : subs[s][i].who = subs[s][j].who => i = j

\* The task h has asked for this type of events about that subject.
Asks(h, s, t) == <<s, t>> \in asked[h] \/ <<s, All>> \in asked[h]

\* Who waits for an event is subscribed to it; and what has reached the task, or may reach it,
\* is what it asked for.
Awaited(h) ==
    waits[h].kind = "event" =>
        /\ waits[h].sub \in Sub
        /\ owner[h] \in alive => waits[h].sub[2] \in BitsOf(subscriptions[waits[h].sub[1]], owner[h])

Heard(h) ==
    waits[h].kind # "park" => \A event \in Elements(sink[h]) : Asks(h, event[1], event[2])

MayHear(h) ==
    waits[h].kind # "park" /\ owner[h] \in alive =>
        \A s \in Subject, t \in Type : t \in BitsOf(subscriptions[s], owner[h]) => Asks(h, s, t)

\* An entity that never had a task is subscribed to nothing, and only those without one, who
\* are dead, are unsubscribed after the delivery.
SubscribersTold ==
    /\ \A h \in Handle : task[h] = "Running" => Awaited(h) /\ Heard(h) /\ MayHear(h)
    /\ phase # "deliver" => erroneous = {}
    /\ \A e \in erroneous : current[e] = NoTask
    /\ \A e \in alive : current[e] = NoTask =>
          \A s \in Subject, t \in Type : t \notin BitsOf(subscriptions[s], e)

SubscriptionInv == DriveTypes /\ WellListed(subscriptions) /\ SubscribersTold

\* What is listed is listed once, and flagged; the batch is that of this tick's polls, from
\* which the task that is polled was taken.
ReadyTypes ==
    /\ phase \in {"activity", "poll", "post", "timers", "deliver", "end"}
    /\ poller \in Handle \cup {NoTask}
    /\ ready \in Seq(Handle) /\ batch \in Seq(Handle)

ListsAgree ==
    /\ IsInjective(ready) /\ IsInjective(batch)
    /\ Elements(ready) \cap Elements(batch) = {}
    /\ \A h \in Handle : flag[h] <=> h \in Elements(ready) \cup Elements(batch)
    /\ phase # "poll" => batch = <<>>
    /\ poller \notin Elements(batch)

\* A finished task is collected before the next polls, or dies before them; whatever is gone
\* is marked by nothing, nor will a timer that has elapsed do so.
DoneIsCollected ==
    /\ \A h \in Handle : task[h] = "Gone" => ~flag[h]
    /\ \A h \in Handle : task[h] = "Done" =>
          /\ owner[h] \in alive /\ h \notin Elements(batch)
          /\ phase = "activity" => owner[h] \in todo
    /\ \A h \in Handle : task[h] # "Polling"
    /\ \A t \in timers : task[t[1]] # "Gone"
    /\ phase \in {"deliver", "end"} => \A t \in timers : t[2] > 0

ReadyInv == ReadyTypes /\ ListsAgree /\ DoneIsCollected

-----------------------------------------------------------------------------
(* The operators on subscriptions *)

LEMMA HasBit ==
    ASSUME NEW subs, NEW e, NEW t
    PROVE  t \in BitsOf(subs, e) <=> \E i \in DOMAIN subs : subs[i].who = e /\ t \in subs[i].bits
BY DEF BitsOf

LEMMA EntryWithBits ==
    ASSUME NEW entry \in Entry, NEW types \in SUBSET Type
    PROVE  /\ [entry EXCEPT !.bits = types] \in Entry
           /\ [entry EXCEPT !.bits = types].who = entry.who
           /\ [entry EXCEPT !.bits = types].bits = types
BY DEF Entry

\* new has the entries of old at their places, some with other bits.
SameSubscribers(old, new) ==
    /\ new \in Seq(Entry) /\ DOMAIN new = DOMAIN old
    /\ \A i \in DOMAIN old : new[i].who = old[i].who

LEMMA SubscribeBits ==
    ASSUME WellListed(subscriptions), NEW e \in Entity, NEW s \in Subject, NEW types \in SUBSET Type
    PROVE  /\ WellListed(Subscribe(e, s, types))
           /\ \A u \in Subject, f \in Entity, t \in Type :
                t \in BitsOf(Subscribe(e, s, types)[u], f) <=>
                    t \in BitsOf(subscriptions[u], f) \/ (u = s /\ f = e /\ t \in types)
<1> DEFINE subs == subscriptions[s]
           new == Subscribe(e, s, types)
<1>1. /\ subscriptions \in [Subject -> Seq(Entry)] /\ subs \in Seq(Entry)
      /\ \A i \in DOMAIN subs : subs[i] \in Entry
      /\ \A i, j \in DOMAIN subs : subs[i].who = subs[j].who => i = j
  BY DEF WellListed
<1>2. /\ \A u \in Subject : u # s => new[u] = subscriptions[u]
      /\ new[s] \in Seq(Entry) => new \in [Subject -> Seq(Entry)]
  <2> DEFINE S == Seq(Entry)
             x == IF \E i \in DOMAIN subs : subs[i].who = e
                  THEN [i \in DOMAIN subs |->
                    IF subs[i].who = e THEN [subs[i] EXCEPT !.bits = @ \cup types] ELSE subs[i]]
                  ELSE Append(subs, [who |-> e, bits |-> types])
  <2>1. subscriptions \in [Subject -> S] /\ new = [subscriptions EXCEPT ![s] = x]
    BY <1>1 DEF Subscribe
  <2> HIDE DEF S, x, new
  <2>2. /\ \A u \in Subject : u # s => new[u] = subscriptions[u]
        /\ new[s] \in S => new \in [Subject -> S]
    BY <2>1
  <2> QED
    BY <2>2 DEF S
<1>3. CASE \E i \in DOMAIN subs : subs[i].who = e
  <2>1. new[s] = [i \in DOMAIN subs |->
                    IF subs[i].who = e THEN [subs[i] EXCEPT !.bits = @ \cup types] ELSE subs[i]]
    BY <1>1, <1>3 DEF Subscribe
  <2>2. \A i \in DOMAIN subs :
            /\ new[s][i] \in Entry /\ new[s][i].who = subs[i].who
            /\ new[s][i].bits = IF subs[i].who = e THEN subs[i].bits \cup types ELSE subs[i].bits
    <3> SUFFICES ASSUME NEW i \in DOMAIN subs
                 PROVE  /\ new[s][i] \in Entry /\ new[s][i].who = subs[i].who
                        /\ new[s][i].bits = IF subs[i].who = e THEN subs[i].bits \cup types ELSE subs[i].bits
      OBVIOUS
    <3>1. subs[i] \in Entry /\ subs[i].bits \in SUBSET Type
      BY <1>1 DEF Entry
    <3>2. CASE subs[i].who = e
      <4>1. new[s][i] = [subs[i] EXCEPT !.bits = subs[i].bits \cup types]
        BY <2>1, <3>2
      <4> QED
        BY <3>1, <3>2, <4>1, EntryWithBits
    <3>3. CASE subs[i].who # e
      BY <2>1, <3>1, <3>3
    <3> QED
      BY <3>2, <3>3
  <2>6. subscriptions[s] = subs
    OBVIOUS
  <2> HIDE DEF new, subs
  <2>3. new[s] \in Seq(Entry) /\ DOMAIN new[s] = DOMAIN subs
    <3> DEFINE n == Len(subs)
               g == new[s]
    <3>1. n \in Nat /\ DOMAIN subs = 1 .. n
      BY <1>1
    <3>2. g = [i \in 1 .. n |-> g[i]]
      BY <2>1, <3>1
    <3>3. \A i \in 1 .. n : g[i] \in Entry
      BY <2>2, <3>1
    <3> HIDE DEF g, n
    <3>4. g \in [1 .. n -> Entry]
      BY <3>2, <3>3
    <3>5. g \in Seq(Entry) /\ DOMAIN g = 1 .. n
      BY <3>1, <3>4
    <3> QED
      BY <3>1, <3>5 DEF g
  <2>4. ASSUME NEW f \in Entity, NEW t \in Type
        PROVE  t \in BitsOf(new[s], f) <=> t \in BitsOf(subs, f) \/ (f = e /\ t \in types)
    <3>1. t \in BitsOf(new[s], f) <=> \E i \in DOMAIN subs : subs[i].who = f /\ t \in new[s][i].bits
      <4>1. t \in BitsOf(new[s], f) <=> \E i \in DOMAIN new[s] : new[s][i].who = f /\ t \in new[s][i].bits
        BY HasBit
      <4> QED
        BY <2>2, <2>3, <4>1
    <3>2. t \in BitsOf(subs, f) <=> \E i \in DOMAIN subs : subs[i].who = f /\ t \in subs[i].bits
      BY HasBit
    <3> QED
      BY <1>3, <2>2, <3>1, <3>2
  <2>5. WellListed(new)
    <3>1. new \in [Subject -> Seq(Entry)]
      BY <1>2, <2>3
    <3>2. \A i, j \in DOMAIN new[s] : new[s][i].who = new[s][j].who => i = j
      BY <1>1, <2>2, <2>3
    <3> QED
      BY <1>1, <1>2, <3>1, <3>2 DEF WellListed
  <2>7. \A u \in Subject, f \in Entity, t \in Type :
            t \in BitsOf(new[u], f) <=>
                t \in BitsOf(subscriptions[u], f) \/ (u = s /\ f = e /\ t \in types)
    BY <1>2, <2>4, <2>6
  <2> QED
    BY <2>5, <2>7 DEF new
<1>4. CASE ~ \E i \in DOMAIN subs : subs[i].who = e
  <2> DEFINE entry == [who |-> e, bits |-> types]
  <2>1. new[s] = Append(subs, entry) /\ entry \in Entry
    BY <1>1, <1>4 DEF Subscribe, Entry
  <2>2. entry.who = e /\ entry.bits = types
    OBVIOUS
  <2> HIDE DEF new, entry
  <2>3. /\ new[s] \in Seq(Entry) /\ DOMAIN new[s] = DOMAIN subs \cup {Len(subs) + 1}
        /\ \A i \in DOMAIN subs : new[s][i] = subs[i]
        /\ new[s][Len(subs) + 1] = entry /\ Len(subs) + 1 \notin DOMAIN subs
    BY <1>1, <2>1
  <2>4. \A f \in Entity, t \in Type :
            t \in BitsOf(new[s], f) <=> t \in BitsOf(subs, f) \/ (f = e /\ t \in types)
    BY <2>2, <2>3, HasBit
  <2>5. WellListed(new)
    <3>1. \A i, j \in DOMAIN new[s] : new[s][i].who = new[s][j].who => i = j
      BY <1>1, <1>4, <2>2, <2>3
    <3> QED
      BY <1>1, <1>2, <2>3, <3>1 DEF WellListed
  <2> QED
    BY <1>2, <2>4, <2>5 DEF new
<1> QED
  BY <1>3, <1>4

\* Taking bits away leaves the subscribers where they are.
LEMMA SameSubscribersListed ==
    ASSUME WellListed(subscriptions), NEW new, DOMAIN new = Subject, new = [s \in Subject |-> new[s]],
           \A s \in Subject : SameSubscribers(subscriptions[s], new[s])
    PROVE  WellListed(new)
<1>1. new \in [Subject -> Seq(Entry)]
  BY DEF SameSubscribers
<1> QED
  BY <1>1 DEF WellListed, SameSubscribers

LEMMA UnsubscribeBits ==
    ASSUME WellListed(subscriptions), NEW e \in Entity, NEW sub \in Sub
    PROVE  /\ WellListed(Unsubscribe(e, sub))
           /\ \A u \in Subject, f \in Entity, t \in Type :
                t \in BitsOf(Unsubscribe(e, sub)[u], f) <=>
                    t \in BitsOf(subscriptions[u], f) /\ ~(u = sub[1] /\ f = e /\ t = sub[2])
<1> DEFINE s == sub[1]
           subs == subscriptions[s]
           new == Unsubscribe(e, sub)
<1>1. /\ s \in Subject /\ subscriptions \in [Subject -> Seq(Entry)] /\ subs \in Seq(Entry)
      /\ \A i \in DOMAIN subs : subs[i] \in Entry
  BY DEF WellListed, Sub
<1>2. /\ \A u \in Subject : u # s => new[u] = subscriptions[u]
      /\ new[s] = [i \in DOMAIN subs |->
                    IF subs[i].who = e THEN [subs[i] EXCEPT !.bits = @ \ {sub[2]}] ELSE subs[i]]
      /\ DOMAIN new = Subject /\ new = [u \in Subject |-> new[u]]
  <2> DEFINE S == Seq(Entry)
             x == [i \in DOMAIN subs |->
                    IF subs[i].who = e THEN [subs[i] EXCEPT !.bits = @ \ {sub[2]}] ELSE subs[i]]
  <2>1. subscriptions \in [Subject -> S] /\ new = [subscriptions EXCEPT ![s] = x]
    <3>1. subscriptions \in [Subject -> S]
      BY <1>1
    <3>2. new = [subscriptions EXCEPT ![s] = x]
      BY DEF Unsubscribe
    <3> QED
      BY <3>1, <3>2
  <2> HIDE DEF S, x, new
  <2>2. /\ \A u \in Subject : u # s => new[u] = subscriptions[u]
        /\ new[s] = x /\ DOMAIN new = Subject /\ new = [u \in Subject |-> new[u]]
    BY <1>1, <2>1
  <2> QED
    BY <2>2 DEF x
<1>3. \A i \in DOMAIN subs :
          /\ new[s][i] \in Entry /\ new[s][i].who = subs[i].who
          /\ new[s][i].bits = IF subs[i].who = e THEN subs[i].bits \ {sub[2]} ELSE subs[i].bits
  <2> SUFFICES ASSUME NEW i \in DOMAIN subs
               PROVE  /\ new[s][i] \in Entry /\ new[s][i].who = subs[i].who
                      /\ new[s][i].bits = IF subs[i].who = e THEN subs[i].bits \ {sub[2]} ELSE subs[i].bits
    OBVIOUS
  <2>1. subs[i] \in Entry /\ subs[i].bits \ {sub[2]} \in SUBSET Type
    BY <1>1 DEF Entry
  <2>2. CASE subs[i].who = e
    <3>1. new[s][i] = [subs[i] EXCEPT !.bits = subs[i].bits \ {sub[2]}]
      <4>1. subs[i] = subs[i] /\ new[s][i] = IF subs[i].who = e THEN [subs[i] EXCEPT !.bits = @ \ {sub[2]}] ELSE subs[i]
        <5> HIDE DEF new, subs
        <5> QED
          BY <1>2
      <4> HIDE DEF new, subs
      <4> QED
        BY <2>2, <4>1
    <3> HIDE DEF new, subs
    <3> QED
      BY <2>1, <2>2, <3>1, EntryWithBits
  <2>3. CASE subs[i].who # e
    BY <1>2, <2>1, <2>3
  <2> QED
    BY <2>2, <2>3
<1>8. subscriptions[s] = subs
  OBVIOUS
<1> HIDE DEF new, subs
<1>4. new[s] \in Seq(Entry) /\ DOMAIN new[s] = DOMAIN subs
  <2>1. DOMAIN new[s] = DOMAIN subs /\ DOMAIN subs = 1 .. Len(subs) /\ Len(subs) \in Nat
    BY <1>1, <1>2
  <2>2. new[s] = [i \in 1 .. Len(subs) |-> new[s][i]] /\ \A i \in 1 .. Len(subs) : new[s][i] \in Entry
    BY <1>2, <1>3, <2>1
  <2> QED
    BY <2>1, <2>2
<1>5. ASSUME NEW f \in Entity, NEW t \in Type
      PROVE  t \in BitsOf(new[s], f) <=> t \in BitsOf(subs, f) /\ ~(f = e /\ t = sub[2])
  <2>1. t \in BitsOf(new[s], f) <=> \E i \in DOMAIN subs : subs[i].who = f /\ t \in new[s][i].bits
    <3>1. t \in BitsOf(new[s], f) <=> \E i \in DOMAIN new[s] : new[s][i].who = f /\ t \in new[s][i].bits
      BY HasBit
    <3> QED
      BY <1>3, <1>4, <3>1
  <2>2. t \in BitsOf(subs, f) <=> \E i \in DOMAIN subs : subs[i].who = f /\ t \in subs[i].bits
    BY HasBit
  <2> QED
    BY <1>3, <2>1, <2>2
<1>6. \A u \in Subject : SameSubscribers(subscriptions[u], new[u])
  <2>1. SameSubscribers(subscriptions[s], new[s])
    BY <1>3, <1>4, <1>8 DEF SameSubscribers
  <2>2. \A u \in Subject : SameSubscribers(subscriptions[u], subscriptions[u])
    BY <1>1 DEF SameSubscribers
  <2> QED
    BY <1>2, <2>1, <2>2
<1>7. WellListed(new)
  BY <1>2, <1>6, SameSubscribersListed
<1> QED
  BY <1>2, <1>5, <1>7, <1>8 DEF new

LEMMA UnsubscribeAllBits ==
    ASSUME WellListed(subscriptions), NEW es \in SUBSET Entity
    PROVE  /\ WellListed(UnsubscribeAll(es))
           /\ \A u \in Subject, f \in Entity, t \in Type :
                t \in BitsOf(UnsubscribeAll(es)[u], f) <=> t \in BitsOf(subscriptions[u], f) /\ f \notin es
<1> DEFINE new == UnsubscribeAll(es)
<1>1. \A u \in Subject : subscriptions[u] \in Seq(Entry) /\ \A i \in DOMAIN subscriptions[u] : subscriptions[u][i] \in Entry
  BY DEF WellListed
<1>2. /\ DOMAIN new = Subject /\ new = [u \in Subject |-> new[u]]
      /\ \A u \in Subject : new[u] = [i \in DOMAIN subscriptions[u] |->
              IF subscriptions[u][i].who \in es
              THEN [subscriptions[u][i] EXCEPT !.bits = {}] ELSE subscriptions[u][i]]
  BY DEF UnsubscribeAll
<1>3. ASSUME NEW u \in Subject, NEW i \in DOMAIN subscriptions[u]
      PROVE  /\ new[u][i] \in Entry /\ new[u][i].who = subscriptions[u][i].who
             /\ new[u][i].bits = IF subscriptions[u][i].who \in es THEN {} ELSE subscriptions[u][i].bits
  <2>1. subscriptions[u][i] \in Entry
    BY <1>1
  <2>2. CASE subscriptions[u][i].who \in es
    <3>1. new[u][i] = [subscriptions[u][i] EXCEPT !.bits = {}]
      BY <1>2, <2>2
    <3> QED
      BY <2>1, <2>2, <3>1, EntryWithBits
  <2>3. CASE subscriptions[u][i].who \notin es
    BY <1>2, <2>1, <2>3
  <2> QED
    BY <2>2, <2>3
<1> HIDE DEF new
<1>4. \A u \in Subject : new[u] \in Seq(Entry) /\ DOMAIN new[u] = DOMAIN subscriptions[u]
  BY <1>1, <1>2, <1>3
<1>5. \A u \in Subject, f \in Entity, t \in Type :
          t \in BitsOf(new[u], f) <=> t \in BitsOf(subscriptions[u], f) /\ f \notin es
  BY <1>3, <1>4, HasBit
<1>6. WellListed(new)
  <2>1. \A u \in Subject : SameSubscribers(subscriptions[u], new[u])
    BY <1>3, <1>4 DEF SameSubscribers
  <2> QED
    BY <1>2, <2>1, SameSubscribersListed
<1> QED
  BY <1>5, <1>6 DEF new

\* What is dropped has no bits.
LEMMA MaintainedBits ==
    ASSUME NEW subs, WellListed(subs)
    PROVE  /\ WellListed(Maintained(subs))
           /\ \A u \in Subject, f \in Entity, t \in Type :
                t \in BitsOf(Maintained(subs)[u], f) <=> t \in BitsOf(subs[u], f)
<1> DEFINE some(u) == {entry \in ToSet(subs[u]) : entry.bits # {}}
<1>1. \A u \in Subject : subs[u] \in Seq(Entry) /\ Maintained(subs)[u] = Kept(subs[u], some(u))
  BY DEF WellListed, Maintained
<1>2. ASSUME NEW u \in Subject
      PROVE  /\ Maintained(subs)[u] \in Seq(Entry)
             /\ \A f \in Entity, t \in Type :
                  t \in BitsOf(Maintained(subs)[u], f) <=> t \in BitsOf(subs[u], f)
             /\ \A i, j \in DOMAIN Maintained(subs)[u] :
                  Maintained(subs)[u][i].who = Maintained(subs)[u][j].who => i = j
  <2> DEFINE old == subs[u]
             new == Maintained(subs)[u]
  <2>1. old \in Seq(Entry) /\ \A i, j \in DOMAIN old : old[i].who = old[j].who => i = j
    BY DEF WellListed
  <2>2. PICK n \in Nat : \E g : Positions(g, n, old, some(u))
    BY <2>1, KeptPositions
  <2>3. PICK g : Positions(g, n, old, some(u))
    BY <2>2
  <2>4. /\ g \in [1 .. n -> DOMAIN old] /\ \A m, k \in 1 .. n : g[m] = g[k] => m = k
        /\ \A i \in DOMAIN old : old[i].bits # {} => \E m \in 1 .. n : g[m] = i
        /\ new = [m \in 1 .. n |-> old[g[m]]]
    <3>1. \A i \in DOMAIN old : old[i].bits # {} => old[i] \in some(u)
      BY DEF ToSet
    <3>2. new = Kept(old, some(u))
      BY <1>1
    <3> HIDE DEF some, old, new
    <3> QED
      BY <2>3, <3>1, <3>2 DEF Positions
  <2>5. new \in Seq(Entry)
    <3>1. new = Kept(old, some(u))
      BY <1>1
    <3> HIDE DEF some, old, new
    <3> QED
      BY <2>1, <3>1, KeptElements
  <2> HIDE DEF new, old
  <2>6. \A f \in Entity, t \in Type : t \in BitsOf(new, f) <=> t \in BitsOf(old, f)
    <3> SUFFICES ASSUME NEW f \in Entity, NEW t \in Type
                 PROVE  t \in BitsOf(new, f) <=> t \in BitsOf(old, f)
      OBVIOUS
    <3>1. ASSUME t \in BitsOf(new, f) PROVE t \in BitsOf(old, f)
      BY <2>4, <3>1, HasBit
    <3>2. ASSUME t \in BitsOf(old, f) PROVE t \in BitsOf(new, f)
      <4>1. PICK i \in DOMAIN old : old[i].who = f /\ t \in old[i].bits
        BY <3>2, HasBit
      <4>2. PICK m \in 1 .. n : g[m] = i
        BY <2>4, <4>1
      <4> QED
        BY <2>4, <4>1, <4>2, HasBit
    <3> QED
      BY <3>1, <3>2
  <2>7. \A i, j \in DOMAIN new : new[i].who = new[j].who => i = j
    BY <2>1, <2>4
  <2> QED
    BY <2>5, <2>6, <2>7 DEF new, old
<1>3. Maintained(subs) \in [Subject -> Seq(Entry)]
  BY <1>2 DEF Maintained
<1> QED
  BY <1>2, <1>3 DEF WellListed

-----------------------------------------------------------------------------
(* The steps, and subscriptions *)

\* What a task is told stays in order when nothing of it changes, and nobody takes bits away
\* that it waits for or adds some that it has not asked for.
LEMMA StillTold ==
    ASSUME NEW h \in Handle, Awaited(h), Heard(h), MayHear(h),
           waits'[h].kind = waits[h].kind, waits'[h].sub = waits[h].sub,
           owner'[h] = owner[h], asked'[h] = asked[h], Elements(sink'[h]) \subseteq Elements(sink[h]),
           alive' \subseteq alive,
           owner[h] \in alive' => \A s \in Subject, t \in Type :
               t \in BitsOf(subscriptions'[s], owner[h]) <=> t \in BitsOf(subscriptions[s], owner[h])
    PROVE  Awaited(h)' /\ Heard(h)' /\ MayHear(h)'
<1>1. \A s, t : Asks(h, s, t)' <=> Asks(h, s, t)
  BY DEF Asks
<1>2. Awaited(h)'
  BY DEF Awaited, Sub
<1>3. Heard(h)'
  BY <1>1 DEF Heard
<1>4. MayHear(h)'
  BY <1>1 DEF MayHear
<1> QED
  BY <1>2, <1>3, <1>4

\* A new task takes a handle that is free, and the one before it is gone.
SpawnEffect(e, h, old, wait) ==
    /\ h \in Handle /\ task[h] = "Gone" /\ old # h /\ h # NoTask /\ old = current[e]
    /\ old = NoTask \/ (old \in Handle /\ task[old] # "Gone" /\ owner[old] = e)
    /\ phase = "activity" /\ e \in todo /\ todo' = todo \ {e} /\ UNCHANGED <<phase, alive>>
    /\ current' = [current EXCEPT ![e] = h] /\ owner' = [owner EXCEPT ![h] = e]
    /\ \A k \in Handle : task'[k] = IF k = h THEN "Running" ELSE IF k = old THEN "Gone" ELSE task[k]
    /\ waits'[h] = Await(wait)
    /\ \A k \in Handle : k # h /\ k # old => waits'[k] = waits[k]
    /\ \A k \in Handle : sink'[k] = IF k = h \/ k = old THEN <<>> ELSE sink[k]
    /\ \A k \in Handle : asked'[k] = IF k = h \/ k = old THEN {} ELSE asked[k]
    /\ asked' \in [Handle -> SUBSET (Subject \X (Type \cup {All}))]

LEMMA SpawnTells ==
    ASSUME RuntimeInv, SubscriptionInv, NEW e \in Entity, NEW wait \in {"start", "park"},
           NEW h \in Handle, NEW old \in Handle \cup {NoTask}, SpawnEffect(e, h, old, wait), UNCHANGED <<events, erroneous>>,
           WellListed(subscriptions'),
           \A s \in Subject, f \in Entity \ {e}, t \in Type :
               t \in BitsOf(subscriptions'[s], f) <=> t \in BitsOf(subscriptions[s], f),
           wait = "start" => \A s \in Subject, t \in Type : t \notin BitsOf(subscriptions'[s], e)
    PROVE  SubscriptionInv'
<1> USE DEF SpawnEffect
<1>1. SpawnEffect(e, h, old, wait)
  OBVIOUS
<1>2. DriveTypes'
  <2>1. sink \in [Handle -> Seq(Sub)] /\ events \in Seq(Sub)
    BY DEF RuntimeInv, WaitTypes
  <2>2. Len(events) \in Nat /\ Len(<<>>) = 0 /\ Len(sink[h]) \in Nat
    BY <1>1, <2>1
  <2>3. \A k \in Handle : Len(sink'[k]) + Len(events') <= MaxSink
    BY <1>1, <2>2, BoundAssumption DEF SubscriptionInv, DriveTypes
  <2> QED
    BY <1>1, <2>3 DEF SubscriptionInv, DriveTypes
<1>3. \A f \in Entity : current'[f] = IF f = e THEN h ELSE current[f]
  BY <1>1 DEF RuntimeInv, TaskTypes
<1>4. \A k \in Handle : owner'[k] = IF k = h THEN e ELSE owner[k]
  BY <1>1 DEF RuntimeInv, TaskTypes
<1>5. ASSUME NEW k \in Handle, k # h, task'[k] = "Running"
      PROVE  Awaited(k)' /\ Heard(k)' /\ MayHear(k)'
  <2>1. k # old /\ task[k] = "Running" /\ waits'[k] = waits[k] /\ sink'[k] = sink[k] /\ asked'[k] = asked[k]
        /\ owner'[k] = owner[k]
    BY <1>1, <1>4, <1>5
  <2>2. owner[k] \in Entity \ {e}
    <3>1. e \in alive /\ owner[k] \in Entity
      BY <1>1 DEF RuntimeInv, TaskTypes
    <3> QED
      BY <2>1, <3>1 DEF RuntimeInv, OneTaskEach
  <2>3. Awaited(k) /\ Heard(k) /\ MayHear(k)
    BY <2>1 DEF SubscriptionInv, SubscribersTold
  <2>4. \A s \in Subject, t \in Type :
            t \in BitsOf(subscriptions'[s], owner[k]) <=> t \in BitsOf(subscriptions[s], owner[k])
    BY <2>2
  <2>5. alive' \subseteq alive
    BY <1>1
  <2>6. waits'[k].kind = waits[k].kind /\ waits'[k].sub = waits[k].sub
        /\ Elements(sink'[k]) \subseteq Elements(sink[k])
    BY <2>1
  <2> QED
    BY <2>1, <2>3, <2>4, <2>5, <2>6, StillTold
<1>6. Awaited(h)' /\ Heard(h)' /\ MayHear(h)'
  <2>1. waits'[h].kind = wait /\ sink'[h] = <<>> /\ owner'[h] = e
    BY <1>1, <1>4, Waits
  <2>2. Elements(<<>>) = {}
    BY DEF Elements
  <2> QED
    BY <2>1, <2>2 DEF Awaited, Heard, MayHear
<1>7. SubscribersTold'
  <2>1. erroneous = {}
    BY <1>1 DEF SubscriptionInv, SubscribersTold
  <2>2. ASSUME NEW f \in alive', current'[f] = NoTask, NEW s \in Subject, NEW t \in Type
        PROVE  t \notin BitsOf(subscriptions'[s], f)
    <3>1. f \in alive /\ f \in Entity /\ f # e /\ current[f] = NoTask
      BY <1>1, <1>3, <2>2 DEF RuntimeInv, TaskTypes
    <3> QED
      BY <3>1 DEF SubscriptionInv, SubscribersTold
  <2> QED
    BY <1>5, <1>6, <2>1, <2>2 DEF SubscribersTold
<1> QED
  BY <1>2, <1>7 DEF SubscriptionInv

\* What a poll does to subscriptions, and what its task has asked for and heard.
TellEffect(h) ==
    /\ poller = h /\ UNCHANGED <<phase, alive, current, owner, events, erroneous>>
    /\ \A k \in Handle : k # h => task'[k] = task[k]
    /\ \A k \in Handle : k # h => waits'[k] = waits[k] /\ sink'[k] = sink[k] /\ asked'[k] = asked[k]
    /\ asked' \in [Handle -> SUBSET (Subject \X (Type \cup {All}))]
    /\ Elements(sink'[h]) \subseteq Elements(sink[h]) /\ Len(sink'[h]) <= Len(sink[h])
    /\ WellListed(subscriptions')
    /\ \A s \in Subject, f \in Entity \ {owner[h]}, t \in Type :
           t \in BitsOf(subscriptions'[s], f) <=> t \in BitsOf(subscriptions[s], f)
    /\ task'[h] = "Running" =>
           /\ Awaited(h)'
           /\ waits'[h].kind # "park" => waits[h].kind # "park"
           /\ \A s \in Subject, t \in Type \cup {All} : <<s, t>> \in asked[h] => <<s, t>> \in asked'[h]
           /\ \A s \in Subject, t \in Type :
                 t \in BitsOf(subscriptions'[s], owner[h]) =>
                     t \in BitsOf(subscriptions[s], owner[h]) \/ Asks(h, s, t)'

LEMMA TellKeeps ==
    ASSUME RuntimeInv, SubscriptionInv, NEW h \in Handle, TellEffect(h)
    PROVE  SubscriptionInv'
<1> USE DEF TellEffect
<1>1. task[h] = "Running" /\ poller = h /\ owner[h] \in Entity /\ phase = "poll"
  BY NoneAssumption DEF RuntimeInv, InTurn, TaskTypes
<1>2. DriveTypes'
  <2>1. Len(events) \in Nat
    BY DEF RuntimeInv, WaitTypes
  <2>2. sink[h] \in Seq(Sub)
    BY DEF RuntimeInv, WaitTypes
  <2>3. DriveTypes
    BY DEF SubscriptionInv
  <2> QED
    BY <2>1, <2>2, <2>3, BoundAssumption DEF DriveTypes
<1>3. ASSUME NEW k \in Handle, k # h, task'[k] = "Running"
      PROVE  Awaited(k)' /\ Heard(k)' /\ MayHear(k)'
  <2>1. task[k] = "Running" /\ owner[k] \in Entity \ {owner[h]}
    BY <1>1, <1>3 DEF RuntimeInv, OneTaskEach, TaskTypes
  <2>2. Awaited(k) /\ Heard(k) /\ MayHear(k)
    BY <2>1 DEF SubscriptionInv, SubscribersTold
  <2>3. \A s \in Subject, t \in Type :
            t \in BitsOf(subscriptions'[s], owner[k]) <=> t \in BitsOf(subscriptions[s], owner[k])
    BY <2>1
  <2>4. /\ waits'[k].kind = waits[k].kind /\ waits'[k].sub = waits[k].sub
        /\ owner'[k] = owner[k] /\ asked'[k] = asked[k] /\ Elements(sink'[k]) \subseteq Elements(sink[k])
        /\ alive' \subseteq alive
    BY <1>3
  <2> QED
    BY <2>2, <2>3, <2>4, StillTold
<1>4. ASSUME task'[h] = "Running"
      PROVE  Awaited(h)' /\ Heard(h)' /\ MayHear(h)'
  <2>1. Awaited(h) /\ Heard(h) /\ MayHear(h)
    BY <1>1 DEF SubscriptionInv, SubscribersTold
  <2>2. \A s \in Subject, t \in Type : Asks(h, s, t) => Asks(h, s, t)'
    BY <1>4 DEF Asks
  <2>3. Heard(h)'
    <3>1. sink[h] \in Seq(Sub)
      BY DEF RuntimeInv, WaitTypes
    <3>2. \A event \in Elements(sink[h]) : event[1] \in Subject /\ event[2] \in Type
      BY <3>1, ElementsType DEF Sub
    <3> QED
      BY <1>4, <2>1, <2>2, <3>2 DEF Heard
  <2>4. MayHear(h)'
    BY <1>4, <2>1, <2>2 DEF MayHear
  <2> QED
    BY <1>4, <2>3, <2>4
<1>5. SubscribersTold'
  <2>1. ASSUME NEW e \in alive', current'[e] = NoTask, NEW s \in Subject, NEW t \in Type
        PROVE  t \notin BitsOf(subscriptions'[s], e)
    <3>1. e \in alive /\ e \in Entity /\ current[e] = NoTask
      BY <2>1 DEF RuntimeInv, TaskTypes
    <3>2. e # owner[h]
      BY <1>1, <3>1, NoneAssumption DEF RuntimeInv, OneTaskEach
    <3> QED
      BY <3>1, <3>2 DEF SubscriptionInv, SubscribersTold
  <2>2. erroneous' = {}
    BY <1>1 DEF SubscriptionInv, SubscribersTold
  <2> QED
    BY <1>3, <1>4, <2>1, <2>2 DEF SubscribersTold
<1> QED
  BY <1>2, <1>5 DEF SubscriptionInv

LEMMA SpawnHas ==
    ASSUME RuntimeInv, DriveTypes, NEW e \in Entity, NEW wait \in {"start", "park"}, Visit(e),
           Spawn(e, NextHandle, wait)
    PROVE  SpawnEffect(e, NextHandle, current[e], wait) /\ NextHandle \in Handle
           /\ current[e] \in Handle \cup {NoTask}
<1> DEFINE h == NextHandle
           old == current[e]
<1>1. /\ h \in Handle /\ task[h] = "Gone" /\ old # h /\ h # NoTask
      /\ old = NoTask \/ (old \in Handle /\ old # NoTask /\ task[old] # "Gone" /\ owner[old] = e)
  <2>1. h \in Handle /\ task[h] = "Gone"
    BY HandleLeft DEF RuntimeInv
  <2> QED
    BY <2>1, NoneAssumption DEF RuntimeInv, TaskTypes, OneTaskEach
<1>2. /\ current' = [current EXCEPT ![e] = h] /\ owner' = [owner EXCEPT ![h] = e]
      /\ task' = [Forget(task, old, "Gone") EXCEPT ![h] = "Running"]
      /\ waits' = [Forget(waits, old, Await("run")) EXCEPT ![h] = Await(wait)]
      /\ sink' = [Forget(sink, old, <<>>) EXCEPT ![h] = <<>>]
      /\ asked' = [Forget(asked, old, {}) EXCEPT ![h] = {}]
      /\ phase = "activity" /\ e \in todo /\ todo' = todo \ {e} /\ UNCHANGED <<phase, alive>>
  BY DEF Spawn, Visit
<1> DEFINE A == SUBSET (Subject \X (Type \cup {All}))
           S == Seq(Sub)
<1>3. /\ task \in [Handle -> {"Gone", "Running", "Polling", "Done"}] /\ waits \in [Handle -> Wait]
      /\ sink \in [Handle -> S] /\ asked \in [Handle -> A] /\ {} \in A
  BY DEF RuntimeInv, TaskTypes, WaitTypes, DriveTypes
<1> HIDE DEF h, old, A, S
<1>4. CASE old = NoTask
  BY <1>1, <1>2, <1>3, <1>4, NoneAssumption DEF Forget, SpawnEffect, h, old, A
<1>5. CASE old \in Handle /\ old # NoTask
  <2>1. /\ task' = [[task EXCEPT ![old] = "Gone"] EXCEPT ![h] = "Running"]
        /\ waits' = [[waits EXCEPT ![old] = Await("run")] EXCEPT ![h] = Await(wait)]
        /\ sink' = [[sink EXCEPT ![old] = <<>>] EXCEPT ![h] = <<>>]
        /\ asked' = [[asked EXCEPT ![old] = {}] EXCEPT ![h] = {}]
    BY <1>2, <1>5 DEF Forget
  <2>2. /\ \A k \in Handle : task'[k] = IF k = h THEN "Running" ELSE IF k = old THEN "Gone" ELSE task[k]
        /\ waits'[h] = Await(wait)
        /\ \A k \in Handle : k # h /\ k # old => waits'[k] = waits[k]
    BY <1>1, <1>3, <1>5, <2>1
  <2>3. \A k \in Handle : sink'[k] = IF k = h \/ k = old THEN <<>> ELSE sink[k]
    BY <1>1, <1>3, <1>5, <2>1
  <2>4. /\ \A k \in Handle : asked'[k] = IF k = h \/ k = old THEN {} ELSE asked[k]
        /\ asked' \in [Handle -> A]
    BY <1>1, <1>3, <1>5, <2>1
  <2> QED
    BY <1>1, <1>2, <1>5, <2>2, <2>3, <2>4 DEF SpawnEffect, h, old, A
<1> QED
  BY <1>1, <1>4, <1>5 DEF h, old

LEMMA ActivitySystemTells ==
    ASSUME RuntimeInv, SubscriptionInv, NEW e \in Entity, StartNew(e) \/ Collect(e)
    PROVE  SubscriptionInv'
<1> USE SpawnHas DEF SubscriptionInv
<1>1. CASE StartNew(e)
  <2>1. SpawnEffect(e, NextHandle, current[e], "start") /\ UNCHANGED <<events, erroneous>>
        /\ NextHandle \in Handle /\ current[e] \in Handle \cup {NoTask}
    BY <1>1 DEF StartNew
  <2>2. /\ WellListed(subscriptions')
        /\ \A s \in Subject, f \in Entity \ {e}, t \in Type :
               t \in BitsOf(subscriptions'[s], f) <=> t \in BitsOf(subscriptions[s], f)
        /\ \A s \in Subject, t \in Type : t \notin BitsOf(subscriptions'[s], e)
    <3>1. CASE current[e] = NoTask
      <4>1. e \in alive
        BY <1>1 DEF StartNew, Visit, RuntimeInv, TaskTypes
      <4>2. subscriptions' = subscriptions
        BY <1>1, <3>1 DEF StartNew
      <4> QED
        BY <3>1, <4>1, <4>2 DEF SubscribersTold
    <3>2. CASE current[e] # NoTask
      <4>1. subscriptions' = UnsubscribeAll({e})
        BY <1>1, <3>2 DEF StartNew
      <4> QED
        BY <4>1, UnsubscribeAllBits
    <3> QED
      BY <3>1, <3>2
  <2> QED
    BY <2>1, <2>2, SpawnTells
<1>2. CASE Collect(e)
  <2>1. SpawnEffect(e, NextHandle, current[e], "park") /\ UNCHANGED <<events, erroneous, subscriptions>>
        /\ NextHandle \in Handle /\ current[e] \in Handle \cup {NoTask}
    BY <1>2 DEF Collect, eventvars
  <2>2. WellListed(subscriptions')
    BY <2>1
  <2> QED
    BY <2>1, <2>2, SpawnTells
<1> QED
  BY <1>1, <1>2

LEMMA ActivityTells ==
    ASSUME RuntimeInv, SubscriptionInv, NEW h \in Handle,
           \/ Resume(h) \/ TimerElapsed(h) \/ HandleEvent(h) \/ Suspend(h) \/ YieldNow(h) \/ FinishTask(h)
           \/ \E n \in WaitTicks : AwaitTimer(h, n)
           \/ \E sub \in Sub, n \in WaitTicks \cup {NoTimer} : AwaitEvent(h, sub, n)
           \/ \E s \in Subject : SubscribeTo(h, s)
    PROVE  SubscriptionInv'
<1> SUFFICES TellEffect(h)
  BY TellKeeps
<1> DEFINE A == SUBSET (Subject \X (Type \cup {All}))
           S == Seq(Sub)
<1>1. /\ task \in [Handle -> {"Gone", "Running", "Polling", "Done"}] /\ waits \in [Handle -> Wait]
      /\ sink \in [Handle -> S] /\ asked \in [Handle -> A] /\ owner[h] \in Entity
      /\ WellListed(subscriptions)
  BY DEF RuntimeInv, TaskTypes, WaitTypes, SubscriptionInv, DriveTypes
<1>2. Polled(h)
  BY DEF Resume, TimerElapsed, HandleEvent, Suspend, YieldNow, FinishTask, AwaitTimer, AwaitEvent, SubscribeTo
<1>3. /\ poller = h /\ UNCHANGED <<phase, alive, current, owner, events, erroneous>>
      /\ task[h] = "Running"
  BY <1>2, NoneAssumption DEF Polled, clock, RuntimeInv, InTurn
<1>4. Awaited(h)
  BY <1>3 DEF SubscriptionInv, SubscribersTold
<1>5. sink[h] \in S /\ asked[h] \in A
  BY <1>1
<1>6. \A kind \in {"run", "yield"} : Await(kind).kind = kind
  BY Waits
<1>7. CASE \/ Resume(h) \/ TimerElapsed(h) \/ Suspend(h) \/ YieldNow(h)
           \/ \E n \in WaitTicks : AwaitTimer(h, n)
  <2>1. UNCHANGED <<task, sink, asked, subscriptions>>
    BY <1>7 DEF Resume, TimerElapsed, Suspend, YieldNow, AwaitTimer
  <2>2. /\ \A k \in Handle : k # h => waits'[k] = waits[k]
        /\ \/ waits'[h].kind \in {"run", "timer", "yield"} /\ waits[h].kind # "park"
           \/ waits'[h] = waits[h]
    <3>1. CASE Resume(h) \/ TimerElapsed(h)
      <4>1. waits[h].kind # "park"
        BY <3>1 DEF Resume, TimerElapsed, RuntimeInv, TimersListed, NoTimer
      <4> QED
        BY <1>1, <1>6, <3>1, <4>1 DEF Resume, TimerElapsed
    <3>2. CASE Suspend(h)
      BY <3>2 DEF Suspend
    <3>3. CASE YieldNow(h)
      BY <1>1, <1>6, <3>3 DEF YieldNow
    <3>4. ASSUME NEW n \in WaitTicks, AwaitTimer(h, n)
          PROVE  /\ \A k \in Handle : k # h => waits'[k] = waits[k]
                 /\ waits'[h].kind = "timer" /\ waits[h].kind # "park"
      <4> DEFINE w == [Await("timer") EXCEPT !.timer = n]
      <4>1. w.kind = "timer"
        BY DEF Await
      <4>2. waits' = [waits EXCEPT ![h] = w] /\ waits[h].kind = "run"
        BY <3>4 DEF AwaitTimer
      <4> HIDE DEF w
      <4> QED
        BY <1>1, <4>1, <4>2
    <3> QED
      BY <1>7, <3>1, <3>2, <3>3, <3>4
  <2>3. Awaited(h)'
    BY <1>3, <1>4, <2>1, <2>2 DEF Awaited
  <2>4. WellListed(subscriptions') /\ asked' \in [Handle -> A]
    BY <1>1, <2>1
  <2> QED
    BY <1>3, <1>5, <2>1, <2>2, <2>3, <2>4 DEF TellEffect
<1>8. CASE HandleEvent(h)
  <2>1. /\ UNCHANGED <<task, asked>> /\ sink' = [sink EXCEPT ![h] = Tail(sink[h])]
        /\ sink[h] # <<>> /\ waits[h].kind = "event"
    BY <1>8 DEF HandleEvent
  <2>2. /\ \A k \in Handle : k # h => sink'[k] = sink[k]
        /\ Elements(sink'[h]) \subseteq Elements(sink[h]) /\ Len(sink'[h]) <= Len(sink[h])
    <3>1. sink'[h] = Tail(sink[h]) /\ \A k \in Handle : k # h => sink'[k] = sink[k]
      BY <1>1, <2>1
    <3>2. Elements(Tail(sink[h])) \subseteq Elements(sink[h])
      BY <1>5, <2>1, ElementsOfTail
    <3>3. Len(Tail(sink[h])) <= Len(sink[h])
      BY <1>5, <2>1
    <3> QED
      BY <3>1, <3>2, <3>3
  <2>3. CASE UNCHANGED <<waits, timers, subscriptions>>
    <3>1. Awaited(h)'
      BY <1>3, <1>4, <2>3 DEF Awaited
    <3> QED
      BY <1>1, <1>3, <2>1, <2>2, <2>3, <3>1 DEF TellEffect
  <2>4. CASE waits' = [waits EXCEPT ![h] = Await("run")] /\ subscriptions' = Unsubscribe(owner[h], waits[h].sub)
    <3>1. waits'[h].kind = "run" /\ \A k \in Handle : k # h => waits'[k] = waits[k]
      BY <1>1, <1>6, <2>4
    <3>2. Awaited(h)'
      BY <3>1 DEF Awaited
    <3>3. waits[h].sub \in Sub
      BY <1>4, <2>1 DEF Awaited
    <3>4. /\ WellListed(subscriptions')
          /\ \A s \in Subject, f \in Entity, t \in Type :
                t \in BitsOf(subscriptions'[s], f) <=>
                    t \in BitsOf(subscriptions[s], f) /\ ~(s = waits[h].sub[1] /\ f = owner[h] /\ t = waits[h].sub[2])
      BY <1>1, <2>4, <3>3, UnsubscribeBits
    <3> QED
      BY <1>1, <1>3, <2>1, <2>2, <3>1, <3>2, <3>4 DEF TellEffect
  <2> QED
    BY <1>8, <2>3, <2>4 DEF HandleEvent
<1>9. ASSUME NEW sub \in Sub, NEW n \in WaitTicks \cup {NoTimer}, AwaitEvent(h, sub, n) PROVE TellEffect(h)
  <2> DEFINE w == [kind |-> "event", sub |-> sub, timer |-> n]
  <2>1. /\ waits' = [waits EXCEPT ![h] = w] /\ waits[h].kind = "run" /\ UNCHANGED <<task, sink>>
        /\ subscriptions' = Subscribe(owner[h], sub[1], {sub[2]})
        /\ asked' = [asked EXCEPT ![h] = asked[h] \cup {sub}]
    BY <1>9 DEF AwaitEvent
  <2>2. w.kind = "event" /\ w.sub = sub
    OBVIOUS
  <2>3. sub[1] \in Subject /\ sub[2] \in Type /\ sub = <<sub[1], sub[2]>>
    BY DEF Sub
  <2>4. waits'[h] = w /\ \A k \in Handle : k # h => waits'[k] = waits[k]
    <3> HIDE DEF w
    <3> QED
      BY <1>1, <2>1
  <2>5. /\ WellListed(subscriptions')
        /\ \A s \in Subject, f \in Entity, t \in Type :
              t \in BitsOf(subscriptions'[s], f) <=>
                  t \in BitsOf(subscriptions[s], f) \/ (s = sub[1] /\ f = owner[h] /\ t \in {sub[2]})
    BY <1>1, <2>1, <2>3, SubscribeBits
  <2>6. /\ asked' \in [Handle -> A] /\ \A k \in Handle : k # h => asked'[k] = asked[k]
        /\ asked'[h] = asked[h] \cup {sub}
    <3>1. asked[h] \cup {sub} \in A
      BY <1>5, <2>3
    <3> HIDE DEF A
    <3> QED
      BY <1>1, <2>1, <3>1
  <2> HIDE DEF w
  <2>7. Awaited(h)'
    BY <1>1, <1>3, <2>2, <2>3, <2>4, <2>5 DEF Awaited
  <2>8. \A s \in Subject, t \in Type : t \in BitsOf(subscriptions'[s], owner[h]) =>
            t \in BitsOf(subscriptions[s], owner[h]) \/ Asks(h, s, t)'
    BY <1>1, <2>3, <2>5, <2>6 DEF Asks
  <2> QED
    <3>1. /\ waits[h].kind # "park"
          /\ \A s \in Subject, t \in Type \cup {All} : <<s, t>> \in asked[h] => <<s, t>> \in asked'[h]
          /\ \A s \in Subject, f \in Entity \ {owner[h]}, t \in Type :
                t \in BitsOf(subscriptions'[s], f) <=> t \in BitsOf(subscriptions[s], f)
      BY <2>1, <2>5, <2>6
    <3>2. /\ \A k \in Handle : k # h => task'[k] = task[k] /\ sink'[k] = sink[k]
          /\ sink'[h] = sink[h] /\ Len(sink[h]) \in Nat
      BY <1>5, <2>1
    <3>3. WellListed(subscriptions') /\ asked' \in [Handle -> A]
      BY <2>5, <2>6
    <3> QED
      BY <1>3, <2>4, <2>6, <2>7, <2>8, <3>1, <3>2, <3>3 DEF TellEffect
<1>10. ASSUME NEW s \in Subject, SubscribeTo(h, s) PROVE TellEffect(h)
  <2>1. /\ waits[h].kind = "run" /\ UNCHANGED <<task, sink, waits>>
        /\ subscriptions' = Subscribe(owner[h], s, Type)
        /\ asked' = [asked EXCEPT ![h] = asked[h] \cup {<<s, All>>}]
    BY <1>10 DEF SubscribeTo
  <2>2. /\ WellListed(subscriptions')
        /\ \A u \in Subject, f \in Entity, t \in Type :
              t \in BitsOf(subscriptions'[u], f) <=>
                  t \in BitsOf(subscriptions[u], f) \/ (u = s /\ f = owner[h] /\ t \in Type)
    BY <1>1, <2>1, SubscribeBits
  <2>3. /\ asked' \in [Handle -> A] /\ \A k \in Handle : k # h => asked'[k] = asked[k]
        /\ asked'[h] = asked[h] \cup {<<s, All>>}
    <3>1. asked[h] \cup {<<s, All>>} \in A
      BY <1>5
    <3> HIDE DEF A
    <3> QED
      BY <1>1, <2>1, <3>1
  <2>4. Awaited(h)'
    BY <2>1 DEF Awaited
  <2>5. \A u \in Subject, t \in Type : t \in BitsOf(subscriptions'[u], owner[h]) =>
            t \in BitsOf(subscriptions[u], owner[h]) \/ Asks(h, u, t)'
    BY <1>1, <2>2, <2>3 DEF Asks
  <2> QED
    BY <1>1, <1>3, <1>5, <2>1, <2>2, <2>3, <2>4, <2>5 DEF TellEffect
<1>11. CASE FinishTask(h)
  <2> DEFINE wanted == current[owner[h]] = h
  <2>1. /\ task' = [task EXCEPT ![h] = IF wanted THEN "Done" ELSE "Gone"]
        /\ sink' = [sink EXCEPT ![h] = IF wanted THEN sink[h] ELSE <<>>]
        /\ asked' = [asked EXCEPT ![h] = {}] /\ UNCHANGED <<waits, subscriptions>>
    BY <1>11 DEF FinishTask
  <2> HIDE DEF wanted
  <2>2. task'[h] # "Running" /\ \A k \in Handle : k # h => task'[k] = task[k]
    BY <1>1, <2>1
  <2>3. /\ \A k \in Handle : k # h => sink'[k] = sink[k] /\ asked'[k] = asked[k]
        /\ sink'[h] = sink[h] \/ sink'[h] = <<>>
        /\ asked' \in [Handle -> A]
    BY <1>1, <2>1
  <2>4. Elements(sink'[h]) \subseteq Elements(sink[h]) /\ Len(sink'[h]) <= Len(sink[h])
    <3>1. Len(<<>>) = 0 /\ Elements(<<>>) = {} /\ Len(sink[h]) \in Nat
      BY <1>5 DEF Elements
    <3> QED
      BY <2>3, <3>1
  <2> QED
    BY <1>1, <1>3, <2>1, <2>2, <2>3, <2>4 DEF TellEffect
<1> QED
  BY <1>7, <1>8, <1>9, <1>10, <1>11

\* Whom an event finds: the tasks of the first subscribers that have one, each once.
LEMMA ToldAre ==
    ASSUME RuntimeInv, WellListed(subscriptions), NEW event \in Sub, NEW told,
           told = ToldBefore(Interested(event), Failing(Interested(event)))
    PROVE  /\ told \in Seq(Handle) /\ IsInjective(told)
           /\ \A h \in Elements(told) :
                /\ h \in Handle /\ owner[h] \in alive /\ task[h] # "Gone"
                /\ event[2] \in BitsOf(subscriptions[event[1]], owner[h])
<1> DEFINE all == subscriptions[event[1]]
           for == {entry \in ToSet(all) : event[2] \in entry.bits}
           subs == Interested(event)
           stop == Failing(subs)
           before == {k \in DOMAIN subs : \A j \in stop : k < j}
           m == Cardinality(before)
<1>1. /\ all \in Seq(Entry) /\ subs = Kept(all, for)
      /\ \A i, j \in DOMAIN all : all[i].who = all[j].who => i = j
  BY DEF WellListed, Interested, Sub
<1>2. PICK n \in Nat : \E f : Positions(f, n, all, for)
  BY <1>1, KeptPositions
<1>3. PICK f : Positions(f, n, all, for)
  BY <1>2
<1> HIDE DEF subs, all
<1>4. /\ DOMAIN subs = 1 .. n /\ f \in [1 .. n -> DOMAIN all]
      /\ \A i \in 1 .. n : subs[i] = all[f[i]] /\ event[2] \in subs[i].bits
      /\ \A i, k \in 1 .. n : f[i] = f[k] => i = k
  <2>1. /\ f \in [1 .. n -> DOMAIN all] /\ \A i \in 1 .. n : all[f[i]] \in for
        /\ subs = [i \in 1 .. n |-> all[f[i]]]
        /\ \A i, k \in 1 .. n : f[i] = f[k] => i = k
    <3> HIDE DEF for
    <3> QED
      BY <1>1, <1>3 DEF Positions
  <2>2. \A x \in for : event[2] \in x.bits
    OBVIOUS
  <2> HIDE DEF for
  <2> QED
    BY <2>1, <2>2
<1>5. /\ \A i \in 1 .. n : subs[i].who \in Entity
      /\ \A i \in 1 .. n : event[2] \in BitsOf(all, subs[i].who)
      /\ \A i, k \in 1 .. n : subs[i].who = subs[k].who => i = k
  <2>1. \A i \in DOMAIN all : all[i] \in Entry
    BY <1>1
  <2>2. \A i \in 1 .. n : f[i] \in DOMAIN all
    BY <1>4
  <2>3. \A i \in 1 .. n : subs[i].who \in Entity
    BY <1>4, <2>1, <2>2 DEF Entry
  <2>4. \A i \in 1 .. n : event[2] \in BitsOf(all, subs[i].who)
    BY <1>4, <2>2, HasBit
  <2>5. \A i, k \in 1 .. n : subs[i].who = subs[k].who => i = k
    BY <1>1, <1>4, <2>2
  <2> QED
    BY <2>3, <2>4, <2>5
<1>6. m \in Nat /\ before = 1 .. m
  <2>1. IsFiniteSet(before) /\ m \in Nat
    <3>1. IsFiniteSet(1 .. n)
      BY FS_Interval
    <3>2. before \in SUBSET (1 .. n)
      BY <1>4
    <3> HIDE DEF before
    <3> QED
      BY <3>1, <3>2, FS_Subset, FS_CardinalityType
  <2>2. stop \subseteq 1 .. n
    BY <1>4 DEF Failing
  <2>3. ASSUME NEW k \in before PROVE k \in 1 .. m
    <3>1. k \in 1 .. n /\ 1 .. k \in SUBSET before
      BY <1>4, <2>2, <2>3
    <3>2. Cardinality(1 .. k) = k
      BY <3>1, FS_Interval
    <3>3. k <= m
      <4> HIDE DEF before
      <4> QED
        BY <2>1, <3>1, <3>2, FS_Subset
    <3> QED
      BY <2>1, <3>1, <3>3
  <2>4. IsFiniteSet(1 .. m) /\ Cardinality(1 .. m) = m
    BY <2>1, FS_Interval
  <2> HIDE DEF before
  <2>5. before \in SUBSET (1 .. m)
    BY <2>3
  <2> QED
    BY <2>1, <2>4, <2>5, FS_Subset
<1>7. \A i \in before : i \in 1 .. n /\ current[subs[i].who] # NoTask
  <2>1. \A i \in before : i \in 1 .. n /\ i \notin stop /\ i \in Nat
    BY <1>4
  <2> QED
    BY <1>4, <2>1 DEF Failing
<1>8. told = [i \in 1 .. m |-> current[subs[i].who]]
  BY <1>6 DEF ToldBefore, subs
<1>9. \A i \in 1 .. m : /\ i \in 1 .. n /\ told[i] = current[subs[i].who] /\ told[i] \in Handle
                        /\ owner[told[i]] = subs[i].who /\ owner[told[i]] \in alive /\ task[told[i]] # "Gone"
  <2> HIDE DEF before, m
  <2> QED
    BY <1>5, <1>6, <1>7, <1>8 DEF RuntimeInv, TaskTypes, OneTaskEach
<1> HIDE DEF before, m
<1>10. told \in Seq(Handle) /\ DOMAIN told = 1 .. m
  <2>1. told \in [1 .. m -> Handle]
    BY <1>8, <1>9
  <2> QED
    BY <1>6, <2>1
<1>11. IsInjective(told)
  BY <1>5, <1>9, <1>10 DEF IsInjective
<1>12. \A h \in Elements(told) : \E i \in 1 .. m : h = told[i]
  BY <1>10 DEF Elements
<1> QED
  BY <1>5, <1>9, <1>10, <1>11, <1>12 DEF all

\* Steps that leave alone what tasks wait for, and what those that run have asked for and heard.
QuietEffect ==
    /\ UNCHANGED <<owner, asked>> /\ alive' \subseteq alive
    /\ \A k \in Handle : waits'[k].kind = waits[k].kind /\ waits'[k].sub = waits[k].sub
    /\ \A k \in Handle : task'[k] = "Running" => task[k] = "Running" /\ sink'[k] = sink[k]
    /\ Len(events') <= MaxPosted /\ \A k \in Handle : Len(sink'[k]) + Len(events') <= MaxSink
    /\ WellListed(subscriptions')
    /\ \A s \in Subject, e \in alive', t \in Type :
          t \in BitsOf(subscriptions'[s], e) <=> t \in BitsOf(subscriptions[s], e)
    /\ erroneous' \subseteq erroneous /\ (phase' # "deliver" => erroneous' = {})
    /\ \A e \in Entity : current[e] = NoTask => current'[e] = NoTask
    /\ \A e \in alive' : current'[e] = NoTask => current[e] = NoTask

LEMMA QuietTells ==
    ASSUME RuntimeInv, SubscriptionInv, QuietEffect
    PROVE  SubscriptionInv'
<1> USE DEF QuietEffect
<1>1. DriveTypes'
  BY DEF SubscriptionInv, DriveTypes
<1>2. ASSUME NEW k \in Handle, task'[k] = "Running"
      PROVE  Awaited(k)' /\ Heard(k)' /\ MayHear(k)'
  <2>1. Awaited(k) /\ Heard(k) /\ MayHear(k)
    BY <1>2 DEF SubscriptionInv, SubscribersTold
  <2>2. owner[k] \in alive' => \A s \in Subject, t \in Type :
            t \in BitsOf(subscriptions'[s], owner[k]) <=> t \in BitsOf(subscriptions[s], owner[k])
    OBVIOUS
  <2>3. /\ waits'[k].kind = waits[k].kind /\ waits'[k].sub = waits[k].sub
        /\ owner'[k] = owner[k] /\ asked'[k] = asked[k] /\ Elements(sink'[k]) \subseteq Elements(sink[k])
        /\ alive' \subseteq alive
    BY <1>2
  <2> QED
    BY <2>1, <2>2, <2>3, StillTold
<1>3. SubscribersTold'
  <2>1. \A e \in erroneous' : current'[e] = NoTask
    BY DEF SubscriptionInv, SubscribersTold, DriveTypes
  <2>2. ASSUME NEW e \in alive', current'[e] = NoTask, NEW s \in Subject, NEW t \in Type
        PROVE  t \notin BitsOf(subscriptions'[s], e)
    <3>1. e \in alive /\ current[e] = NoTask
      BY <2>2
    <3>2. t \notin BitsOf(subscriptions[s], e)
      BY <3>1 DEF SubscriptionInv, SubscribersTold
    <3> QED
      BY <3>2
  <2> QED
    BY <1>2, <2>1, <2>2 DEF SubscribersTold
<1> QED
  BY <1>1, <1>3 DEF SubscriptionInv

LEMMA RestTells ==
    ASSUME RuntimeInv, SubscriptionInv,
           \/ TakeReady \/ BeginPoll \/ EndPoll \/ EndPost \/ FireTimers \/ EndTick \/ EndDeliver
           \/ (\E event \in Sub : Post(event)) \/ (\E e \in Entity : KeepGoing(e) \/ Die(e))
           \/ UNCHANGED rtvars
    PROVE  SubscriptionInv'
<1> SUFFICES QuietEffect
  BY QuietTells
<1>1. /\ WellListed(subscriptions) /\ Len(events) \in Nat
      /\ Len(events) <= MaxPosted /\ \A k \in Handle : Len(sink[k]) + Len(events) <= MaxSink
      /\ phase # "deliver" => erroneous = {}
  BY DEF RuntimeInv, WaitTypes, SubscriptionInv, DriveTypes, SubscribersTold
<1>2. CASE \/ TakeReady \/ EndPoll \/ EndPost \/ FireTimers \/ (\E e \in Entity : KeepGoing(e))
           \/ UNCHANGED rtvars
  <2>1. /\ UNCHANGED <<alive, current, owner, asked, waits, task, sink, events, subscriptions, erroneous>>
        /\ phase' # "deliver" => phase # "deliver"
    BY <1>2 DEF TakeReady, EndPoll, EndPost, FireTimers, KeepGoing, Visit, GoTo, rtvars, clock, taskvars, eventvars
  <2> QED
    BY <1>1, <2>1 DEF QuietEffect
<1>3. CASE BeginPoll
  <2> DEFINE h == Head(batch)
  <2>1. /\ UNCHANGED <<phase, alive, current, owner, asked, waits, sink, events, subscriptions, erroneous>>
        /\ task' = [task EXCEPT ![h] = IF task[h] = "Done" THEN "Polling" ELSE task[h]]
    BY <1>3 DEF BeginPoll, clock, eventvars
  <2>2. task \in [Handle -> {"Gone", "Running", "Polling", "Done"}]
    BY DEF RuntimeInv, TaskTypes
  <2> HIDE DEF h
  <2>3. \A k \in Handle : task'[k] = "Running" => task[k] = "Running"
    BY <2>1, <2>2
  <2> QED
    BY <1>1, <2>1, <2>3 DEF QuietEffect
<1>4. CASE EndTick
  <2>1. /\ UNCHANGED <<alive, current, owner, asked, task, sink, events, subscriptions, erroneous>>
        /\ phase = "end" /\ phase' = "activity"
        /\ waits' = [h \in Handle |-> [waits[h] EXCEPT !.timer = Sooner(@)]]
    BY <1>4 DEF EndTick, eventvars
  <2>2. \A k \in Handle : waits'[k].kind = waits[k].kind /\ waits'[k].sub = waits[k].sub
    <3> SUFFICES ASSUME NEW k \in Handle
                 PROVE  waits'[k].kind = waits[k].kind /\ waits'[k].sub = waits[k].sub
      OBVIOUS
    <3>1. waits[k] \in Wait /\ waits'[k] = [waits[k] EXCEPT !.timer = Sooner(waits[k].timer)]
      BY <2>1 DEF RuntimeInv, WaitTypes
    <3> QED
      BY <3>1 DEF Wait
  <2> QED
    BY <1>1, <2>1, <2>2 DEF QuietEffect
<1>5. CASE EndDeliver
  <2>1. /\ UNCHANGED <<alive, current, owner, asked, waits, task, sink, events>>
        /\ phase = "deliver" /\ phase' = "end" /\ erroneous' = {}
        /\ subscriptions' \in {UnsubscribeAll(erroneous), Maintained(UnsubscribeAll(erroneous))}
    BY <1>5 DEF EndDeliver, GoTo, taskvars
  <2>2. erroneous \in SUBSET Entity /\ alive \subseteq Entity
    BY DEF RuntimeInv, TaskTypes, SubscriptionInv, DriveTypes
  <2>3. /\ WellListed(UnsubscribeAll(erroneous))
        /\ \A u \in Subject, f \in Entity, t \in Type :
              t \in BitsOf(UnsubscribeAll(erroneous)[u], f) <=> t \in BitsOf(subscriptions[u], f) /\ f \notin erroneous
    BY <1>1, <2>2, UnsubscribeAllBits
  <2>4. /\ WellListed(subscriptions')
        /\ \A u \in Subject, f \in Entity, t \in Type :
              t \in BitsOf(subscriptions'[u], f) <=> t \in BitsOf(subscriptions[u], f) /\ f \notin erroneous
    <3>1. CASE subscriptions' = UnsubscribeAll(erroneous)
      BY <2>3, <3>1
    <3>2. CASE subscriptions' = Maintained(UnsubscribeAll(erroneous))
      <4>1. /\ WellListed(subscriptions')
            /\ \A u \in Subject, f \in Entity, t \in Type :
                  t \in BitsOf(subscriptions'[u], f) <=> t \in BitsOf(UnsubscribeAll(erroneous)[u], f)
        BY <2>3, <3>2, MaintainedBits
      <4> QED
        BY <2>3, <4>1
    <3> QED
      BY <2>1, <3>1, <3>2
  <2>5. \A s \in Subject, e \in alive', t \in Type :
            t \in BitsOf(subscriptions'[s], e) <=> t \in BitsOf(subscriptions[s], e)
    BY <2>1, <2>2, <2>4 DEF SubscriptionInv, SubscribersTold
  <2> QED
    BY <1>1, <2>1, <2>4, <2>5 DEF QuietEffect
<1>6. ASSUME NEW event \in Sub, Post(event) PROVE QuietEffect
  <2>1. /\ UNCHANGED <<phase, alive, current, owner, asked, waits, task, sink, subscriptions, erroneous>>
        /\ Len(events) < MaxPosted /\ \A h \in Handle : Len(sink[h]) + Len(events) < MaxSink
        /\ events' = Append(events, event)
    BY <1>6 DEF Post, clock, taskvars
  <2>2. events \in Seq(Sub) /\ \A h \in Handle : sink[h] \in Seq(Sub)
    BY DEF RuntimeInv, WaitTypes
  <2>3. Len(events') = Len(events) + 1 /\ \A h \in Handle : Len(sink[h]) \in Nat
    BY <2>1, <2>2
  <2>4. Len(events') <= MaxPosted
    BY <1>1, <2>1, <2>3, BoundAssumption
  <2>5. ASSUME NEW h \in Handle PROVE Len(sink'[h]) + Len(events') <= MaxSink
    <3>1. Len(sink'[h]) = Len(sink[h]) /\ Len(sink[h]) \in Nat /\ Len(sink[h]) + Len(events) < MaxSink
      BY <2>1, <2>3
    <3>2. Len(events) \in Nat /\ Len(events') = Len(events) + 1
      BY <1>1, <2>3
    <3>3. \A i, j, m \in Nat : i + j < m => i + (j + 1) <= m
      OBVIOUS
    <3> QED
      BY <3>1, <3>2, <3>3, BoundAssumption
  <2> QED
    BY <1>1, <2>1, <2>4, <2>5 DEF QuietEffect
<1>7. ASSUME NEW e \in Entity, Die(e) PROVE QuietEffect
  <2> DEFINE done == {h \in {current[e]} \cap Handle : task[h] = "Done"}
  <2>1. /\ UNCHANGED <<phase, owner, asked, waits, events, subscriptions, erroneous>>
        /\ alive' = alive \ {e} /\ current' = [current EXCEPT ![e] = NoTask]
        /\ task' = [h \in Handle |-> IF h \in done THEN "Gone" ELSE task[h]]
        /\ sink' = [h \in Handle |-> IF h \in done THEN <<>> ELSE sink[h]]
    BY <1>7 DEF Die, clock, eventvars
  <2> HIDE DEF done
  <2>2. \A k \in Handle : /\ task'[k] = "Running" => task[k] = "Running" /\ sink'[k] = sink[k]
                          /\ Len(sink'[k]) <= Len(sink[k]) /\ Len(sink[k]) \in Nat /\ Len(sink'[k]) \in Nat
    <3>1. \A k \in Handle : Len(sink[k]) \in Nat
      BY DEF RuntimeInv, WaitTypes
    <3>2. Len(<<>>) = 0
      OBVIOUS
    <3> QED
      BY <2>1, <3>1, <3>2
  <2>3. \A f \in Entity : current'[f] = IF f = e THEN NoTask ELSE current[f]
    BY <2>1 DEF RuntimeInv, TaskTypes
  <2>4. alive \subseteq Entity
    BY DEF RuntimeInv, TaskTypes
  <2>5. \A k \in Handle : Len(sink'[k]) + Len(events') <= MaxSink
    BY <1>1, <2>1, <2>2, BoundAssumption
  <2> QED
    BY <1>1, <2>1, <2>2, <2>3, <2>4, <2>5 DEF QuietEffect
<1> QED
  BY <1>2, <1>3, <1>4, <1>5, <1>6, <1>7

\* An event reaches only tasks whose entity is subscribed to it, which they asked for.
LEMMA DeliverTells ==
    ASSUME RuntimeInv, SubscriptionInv, DeliverEvent
    PROVE  SubscriptionInv'
<1> DEFINE event == Head(events)
           subs == Interested(event)
           failing == Failing(subs)
           told == ToldBefore(subs, failing)
           first == {subs[i].who : i \in {k \in failing : \A j \in failing : k <= j}}
<1>1. /\ events \in Seq(Sub) /\ events # <<>> /\ event \in Sub /\ phase = "deliver"
      /\ sink \in [Handle -> Seq(Sub)] /\ WellListed(subscriptions)
  <2>1. events \in Seq(Sub) /\ events # <<>> /\ phase = "deliver"
    BY DEF DeliverEvent, RuntimeInv, WaitTypes
  <2> QED
    BY <2>1 DEF RuntimeInv, WaitTypes, SubscriptionInv
<1>2. /\ UNCHANGED <<phase, alive, current, task, owner, waits, asked, subscriptions>>
      /\ sink' = [h \in Handle |-> IF h \in ToSet(told) THEN Append(sink[h], event) ELSE sink[h]]
      /\ events' = Tail(events) /\ erroneous' = erroneous \cup first
  BY DEF DeliverEvent, Tell, clock
<1>3. \A h \in Elements(told) :
          /\ h \in Handle /\ owner[h] \in alive /\ task[h] # "Gone"
          /\ event[2] \in BitsOf(subscriptions[event[1]], owner[h])
  BY <1>1, ToldAre
<1>4. \A e \in first : e \in Entity /\ current[e] = NoTask
  <2>1. subs \in Seq(Entry)
    BY <1>1, KeptElements DEF Interested, WellListed, Sub
  <2>2. \A i \in DOMAIN subs : subs[i] \in Entry
    BY <2>1
  <2> HIDE DEF subs
  <2> QED
    BY <2>2 DEF Failing, Entry
<1> HIDE DEF told, first
<1>5. \A h \in Handle :
          sink'[h] = IF h \in Elements(told) THEN Append(sink[h], event) ELSE sink[h]
  BY <1>2 DEF ToSet, Elements
<1> HIDE DEF event
<1>6. DriveTypes'
  <2>1. Len(events') = Len(events) - 1 /\ Len(events) \in Nat
    BY <1>1, <1>2
  <2>2. \A h \in Handle : Len(sink'[h]) <= Len(sink[h]) + 1 /\ Len(sink[h]) \in Nat /\ Len(sink'[h]) \in Nat
    <3> SUFFICES ASSUME NEW h \in Handle
                 PROVE  Len(sink'[h]) <= Len(sink[h]) + 1 /\ Len(sink[h]) \in Nat /\ Len(sink'[h]) \in Nat
      OBVIOUS
    <3>1. sink[h] \in Seq(Sub) /\ Len(sink[h]) \in Nat
      BY <1>1
    <3>2. Len(Append(sink[h], event)) = Len(sink[h]) + 1
      BY <3>1
    <3>3. sink'[h] = Append(sink[h], event) \/ sink'[h] = sink[h]
      BY <1>5
    <3> QED
      BY <3>1, <3>2, <3>3
  <2>3. /\ Len(events) <= MaxPosted /\ erroneous' \subseteq Entity
        /\ \A h \in Handle : Len(sink[h]) + Len(events) <= MaxSink
        /\ asked \in [Handle -> SUBSET (Subject \X (Type \cup {All}))]
    BY <1>2, <1>4 DEF SubscriptionInv, DriveTypes
  <2>4. \A h \in Handle : Len(sink'[h]) + Len(events') <= MaxSink
    <3> SUFFICES ASSUME NEW h \in Handle PROVE Len(sink'[h]) + Len(events') <= MaxSink
      OBVIOUS
    <3> QED
      BY <2>1, <2>2, <2>3, BoundAssumption
  <2>5. Len(events') <= MaxPosted /\ asked' = asked
    BY <1>2, <2>1, <2>3, BoundAssumption
  <2> QED
    BY <2>3, <2>4, <2>5 DEF DriveTypes
<1>7. ASSUME NEW h \in Handle, task[h] = "Running"
      PROVE  Awaited(h)' /\ Heard(h)' /\ MayHear(h)'
  <2>1. Awaited(h) /\ Heard(h) /\ MayHear(h)
    BY <1>7 DEF SubscriptionInv, SubscribersTold
  <2>2. \A s, t : Asks(h, s, t)' <=> Asks(h, s, t)
    BY <1>2 DEF Asks
  <2>3. CASE h \notin Elements(told)
    BY <1>2, <1>5, <2>1, <2>2, <2>3 DEF Awaited, Heard, MayHear
  <2>4. CASE h \in Elements(told)
    <3>1. Elements(sink'[h]) = Elements(sink[h]) \cup {event}
      <4>1. sink[h] \in Seq(Sub) /\ sink'[h] = Append(sink[h], event)
        BY <1>1, <1>5, <2>4
      <4>2. Elements(Append(sink[h], event)) = Elements(sink[h]) \cup {event}
        BY <1>1, <4>1, ElementsOfAppend
      <4> QED
        BY <4>1, <4>2
    <3>2. waits[h].kind # "park" => Asks(h, event[1], event[2])
      BY <1>1, <1>3, <2>1, <2>4 DEF MayHear, Sub
    <3>3. Heard(h)'
      BY <1>2, <2>1, <2>2, <3>1, <3>2 DEF Heard
    <3>4. Awaited(h)' /\ MayHear(h)'
      BY <1>2, <2>1, <2>2 DEF Awaited, MayHear
    <3> QED
      BY <3>3, <3>4
  <2> QED
    BY <2>3, <2>4
<1>8. SubscribersTold'
  BY <1>1, <1>2, <1>4, <1>7 DEF SubscriptionInv, SubscribersTold
<1> QED
  BY <1>1, <1>2, <1>6, <1>8 DEF SubscriptionInv

-----------------------------------------------------------------------------
(* The ready list *)

\* Marking lists who was not listed, and flags whom it lists.
LEMMA MarkedLists ==
    ASSUME WaitTypes, ReadyTypes, ListsAgree, NEW hs \in Seq(Handle), IsInjective(hs), MarkReady(hs)
    PROVE  /\ ready' \in Seq(Handle) /\ IsInjective(ready') /\ Elements(ready') \cap Elements(batch) = {}
           /\ \A h \in Handle : flag'[h] <=> h \in Elements(ready') \cup Elements(batch)
           /\ \A h \in Handle : flag'[h] => flag[h] \/ h \in Elements(hs)
<1> DEFINE new == {h \in Handle : ~flag[h]}
           added == Kept(hs, new)
<1>1. /\ added \in Seq(Handle) /\ Elements(added) = Elements(hs) \cap new /\ IsInjective(added)
  BY KeptElements
<1>2. /\ ready \in Seq(Handle) /\ IsInjective(ready) /\ batch \in Seq(Handle)
      /\ Elements(ready) \cap Elements(batch) = {}
      /\ \A h \in Handle : flag[h] <=> h \in Elements(ready) \cup Elements(batch)
      /\ flag \in [Handle -> BOOLEAN]
  BY DEF ReadyTypes, ListsAgree, WaitTypes
<1>3. ready' = ready \o added /\ \A h \in Handle : flag'[h] <=> flag[h] \/ h \in Elements(hs)
  BY DEF MarkReady, ToSet, Elements
<1>4. \A x \in Elements(added) : x \in Handle /\ x \in Elements(hs) /\ ~flag[x]
  <2>1. Elements(added) \subseteq new
    BY <1>1
  <2> HIDE DEF added
  <2> QED
    BY <1>1, <2>1
<1>5. \A h \in Handle : h \in Elements(hs) /\ ~flag[h] => h \in Elements(added)
  <2> HIDE DEF added
  <2> QED
    BY <1>1
<1> HIDE DEF added, new
<1>6. ready' \in Seq(Handle) /\ Elements(ready') = Elements(ready) \cup Elements(added)
  BY <1>1, <1>2, <1>3, ElementsOfConcat
<1>7. Elements(ready) \cap Elements(added) = {}
  BY <1>2, <1>4
<1>8. IsInjective(ready')
  BY <1>1, <1>2, <1>3, <1>7, InjectiveConcat
<1>9. Elements(ready') \cap Elements(batch) = {}
  BY <1>2, <1>4, <1>6
<1> QED
  BY <1>2, <1>3, <1>4, <1>5, <1>6, <1>8, <1>9

LEMMA WithoutElements ==
    ASSUME NEW s \in Seq(Handle), IsInjective(s), NEW gone
    PROVE  Without(s, gone) \in Seq(Handle) /\ IsInjective(Without(s, gone))
           /\ \A h : h \in Elements(Without(s, gone)) <=> h \in Elements(s) /\ h \notin gone
<1>1. /\ Without(s, gone) \in Seq(Handle) /\ IsInjective(Without(s, gone))
      /\ Elements(Without(s, gone)) = Elements(s) \cap (Handle \ gone)
  BY KeptElements DEF Without
<1>2. Elements(s) \subseteq Handle
  BY ElementsType
<1> QED
  BY <1>1, <1>2

\* No timer of a task that is dropped is left.
LEMMA TimersDropped ==
    ASSUME RuntimeInv, NEW h, timers' = WithoutTimersOf(h)
    PROVE  timers' \subseteq timers /\ \A t \in timers' : t[1] # h
<1>1. timers' \subseteq timers /\ \A t \in timers' : t[1] = h => t[2] > 0 /\ t[2] # waits[h].timer
  BY DEF WithoutTimersOf, WithoutTimerOf
<1>2. \A t \in timers : t[2] > 0 => waits[t[1]].timer = t[2]
  BY DEF RuntimeInv, TimersListed
<1> QED
  BY <1>1, <1>2

LEMMA EmptyList == Elements(<<>>) = {} /\ IsInjective(<<>>) /\ <<>> \in Seq(Handle)
BY DEF Elements, IsInjective

\* The new task is listed, in the place of the last one.
LEMMA SpawnLists ==
    ASSUME RuntimeInv, SubscriptionInv, ReadyInv, NEW e \in Entity, NEW wait \in {"start", "park"}, Visit(e),
           Spawn(e, NextHandle, wait), timers' = WithoutTimersOf(current[e])
    PROVE  ReadyInv'
<1> DEFINE h == NextHandle
           old == current[e]
           rest == Without(ready, {old})
<1>1. SpawnEffect(e, h, old, wait) /\ h \in Handle /\ old \in Handle \cup {NoTask}
  BY SpawnHas DEF SubscriptionInv
<1>2. /\ flag' = [Forget(flag, old, FALSE) EXCEPT ![h] = TRUE]
      /\ ready' = Append(rest, h) /\ UNCHANGED <<batch, poller>>
      /\ timers' = WithoutTimersOf(old)
  BY DEF Spawn, Visit, pollvars
<1> HIDE DEF h, old
<1>3. /\ task[h] = "Gone" /\ h # old /\ h # NoTask
      /\ old = NoTask \/ (old \in Handle /\ task[old] # "Gone" /\ owner[old] = e)
      /\ phase = "activity" /\ e \in todo /\ todo' = todo \ {e} /\ UNCHANGED <<phase, alive>>
      /\ \A k \in Handle : task'[k] = IF k = h THEN "Running" ELSE IF k = old THEN "Gone" ELSE task[k]
  BY <1>1 DEF SpawnEffect
<1>4. \A k \in Handle : owner'[k] = IF k = h THEN e ELSE owner[k]
  BY <1>1 DEF SpawnEffect, RuntimeInv, TaskTypes
<1>5. \A k \in Handle : flag'[k] = IF k = h THEN TRUE ELSE IF k = old THEN FALSE ELSE flag[k]
  <2>1. flag \in [Handle -> BOOLEAN]
    BY DEF RuntimeInv, WaitTypes
  <2>2. CASE old = NoTask
    BY <1>1, <1>2, <1>3, <2>1, <2>2, NoneAssumption DEF Forget
  <2>3. CASE old \in Handle /\ old # NoTask
    <3>1. flag' = [[flag EXCEPT ![old] = FALSE] EXCEPT ![h] = TRUE]
      BY <1>2, <2>3 DEF Forget
    <3> QED
      BY <1>1, <1>3, <2>1, <3>1
  <2> QED
    BY <1>1, <2>2, <2>3
<1>6. /\ ready \in Seq(Handle) /\ IsInjective(ready) /\ batch = <<>> /\ Elements(batch) = {}
      /\ \A k \in Handle : flag[k] <=> k \in Elements(ready)
      /\ ~flag[h]
  BY <1>1, <1>3, EmptyList DEF ReadyInv, ReadyTypes, ListsAgree, DoneIsCollected
<1>7. /\ rest \in Seq(Handle) /\ IsInjective(rest)
      /\ \A k : k \in Elements(rest) <=> k \in Elements(ready) /\ k \notin {old}
  BY <1>6, WithoutElements
<1> HIDE DEF rest
<1>8. h \notin Elements(rest)
  BY <1>1, <1>6, <1>7
<1>9. /\ ready' \in Seq(Handle) /\ Elements(ready') = Elements(rest) \cup {h} /\ IsInjective(ready')
  BY <1>1, <1>2, <1>7, <1>8, ElementsOfAppend, InjectiveAppend
<1>10. ListsAgree'
  <2>1. \A k \in Handle : flag'[k] <=> k \in Elements(ready')
    BY <1>3, <1>5, <1>6, <1>7, <1>9
  <2> QED
    BY <1>2, <1>3, <1>6, <1>9, <2>1, EmptyList DEF ListsAgree
<1>11. DoneIsCollected'
  <2>1. timers' \subseteq timers /\ \A t \in timers' : t[1] # old
    BY <1>2, TimersDropped
  <2>2. \A t \in timers' : task'[t[1]] # "Gone"
    <3>1. \A t \in timers : t[1] \in Handle /\ task[t[1]] # "Gone"
      BY DEF ReadyInv, DoneIsCollected, RuntimeInv, WaitTypes
    <3> QED
      BY <1>3, <2>1, <3>1
  <2>3. \A k \in Handle : task'[k] = "Gone" => ~flag'[k]
    BY <1>3, <1>5 DEF ReadyInv, DoneIsCollected
  <2>4. ASSUME NEW k \in Handle, task'[k] = "Done"
        PROVE  owner'[k] \in alive' /\ owner'[k] \in todo'
    <3>1. k # h /\ k # old /\ task[k] = "Done" /\ owner'[k] = owner[k]
      BY <1>3, <1>4, <2>4
    <3>2. owner[k] \in alive /\ owner[k] \in todo
      BY <1>3, <3>1 DEF ReadyInv, DoneIsCollected
    <3>3. owner[k] # e
      BY <3>1, <3>2 DEF RuntimeInv, OneTaskEach, old
    <3> QED
      BY <1>3, <3>1, <3>2, <3>3
  <2>5. \A k \in Handle : task'[k] # "Polling"
    BY <1>3 DEF ReadyInv, DoneIsCollected
  <2> QED
    BY <1>2, <1>3, <1>6, <2>2, <2>3, <2>4, <2>5 DEF DoneIsCollected
<1> QED
  BY <1>2, <1>3, <1>6, <1>9, <1>10, <1>11 DEF ReadyInv, ReadyTypes

\* The steps of the polled task.
LEMMA ActivityLists ==
    ASSUME RuntimeInv, ReadyInv, NEW h \in Handle,
           \/ Resume(h) \/ TimerElapsed(h) \/ HandleEvent(h) \/ Suspend(h) \/ YieldNow(h)
           \/ \E n \in WaitTicks : AwaitTimer(h, n)
           \/ \E sub \in Sub, n \in WaitTicks \cup {NoTimer} : AwaitEvent(h, sub, n)
           \/ \E s \in Subject : SubscribeTo(h, s)
    PROVE  ReadyInv'
<1>1. Polled(h)
  BY DEF Resume, TimerElapsed, HandleEvent, Suspend, YieldNow, AwaitTimer, AwaitEvent, SubscribeTo
<1>2. /\ poller = h /\ UNCHANGED <<phase, todo, alive, current, owner, batch>>
      /\ task[h] = "Running" /\ phase = "poll"
  BY <1>1, NoneAssumption DEF Polled, clock, RuntimeInv, InTurn
<1>3. UNCHANGED task /\ poller' \in {h, NoTask}
  BY <1>2 DEF Resume, TimerElapsed, HandleEvent, Suspend, YieldNow, AwaitTimer, AwaitEvent, SubscribeTo
<1>4. \A t \in timers' : t \in timers \/ t[1] = h
  <2>1. CASE Resume(h) \/ TimerElapsed(h) \/ Suspend(h) \/ YieldNow(h) \/ \E s \in Subject : SubscribeTo(h, s)
    BY <2>1 DEF Resume, TimerElapsed, Suspend, YieldNow, SubscribeTo
  <2>2. CASE HandleEvent(h)
    BY <2>2 DEF HandleEvent, WithoutTimerOf
  <2>3. CASE \E n \in WaitTicks : AwaitTimer(h, n)
    BY <2>3 DEF AwaitTimer
  <2>4. ASSUME NEW sub \in Sub, NEW n \in WaitTicks \cup {NoTimer}, AwaitEvent(h, sub, n)
        PROVE  \A t \in timers' : t \in timers \/ t[1] = h
    BY <2>4 DEF AwaitEvent
  <2> QED
    BY <2>1, <2>2, <2>3, <2>4
<1>5. /\ ready' \in Seq(Handle) /\ IsInjective(ready') /\ Elements(ready') \cap Elements(batch) = {}
      /\ \A k \in Handle : flag'[k] <=> k \in Elements(ready') \cup Elements(batch)
      /\ \A k \in Handle : flag'[k] => flag[k] \/ k = h
  <2>1. CASE UNCHANGED <<flag, ready>>
    BY <2>1 DEF ReadyInv, ReadyTypes, ListsAgree
  <2>2. CASE MarkReady(<<h>>)
    <3>1. <<h>> \in Seq(Handle) /\ IsInjective(<<h>>) /\ Elements(<<h>>) = {h}
      BY DEF IsInjective, Elements
    <3> QED
      BY <2>2, <3>1, MarkedLists DEF RuntimeInv, ReadyInv
  <2> QED
    BY <2>1, <2>2
    DEF Resume, TimerElapsed, HandleEvent, Suspend, YieldNow, AwaitTimer, AwaitEvent, SubscribeTo, readyvars
<1>6. ListsAgree'
  BY <1>2, <1>3, <1>5, NoneAssumption, ElementsType DEF ReadyInv, ListsAgree, ReadyTypes
<1>7. DoneIsCollected'
  BY <1>2, <1>3, <1>4, <1>5 DEF ReadyInv, DoneIsCollected
<1> QED
  BY <1>2, <1>3, <1>5, <1>6, <1>7 DEF ReadyInv, ReadyTypes

\* A finished task is in no list but that of the polls that still wake it, until it is collected.
LEMMA FinishLists ==
    ASSUME RuntimeInv, ReadyInv, NEW h \in Handle, FinishTask(h)
    PROVE  ReadyInv'
<1> DEFINE wanted == current[owner[h]] = h
<1>1. /\ poller = h /\ poller' = NoTask /\ UNCHANGED <<phase, todo, alive, current, owner, batch>>
      /\ task[h] = "Running" /\ phase = "poll" /\ h # NoTask
  BY NoneAssumption DEF FinishTask, Polled, clock, RuntimeInv, InTurn
<1>2. /\ task' = [task EXCEPT ![h] = IF wanted THEN "Done" ELSE "Gone"]
      /\ flag' = [flag EXCEPT ![h] = flag[h] /\ wanted]
      /\ ready' = IF wanted THEN ready ELSE Without(ready, {h})
      /\ timers' = IF wanted THEN timers ELSE WithoutTimersOf(h)
  BY DEF FinishTask
<1>3. wanted => owner[h] \in alive
  BY <1>1 DEF RuntimeInv, TaskTypes, OneTaskEach
<1> HIDE DEF wanted
<1>4. /\ \A k \in Handle : k # h => task'[k] = task[k]
      /\ task'[h] = IF wanted THEN "Done" ELSE "Gone"
      /\ \A k \in Handle : k # h => flag'[k] = flag[k]
      /\ flag'[h] <=> flag[h] /\ wanted
  BY <1>2 DEF RuntimeInv, TaskTypes, WaitTypes
<1>5. /\ ready \in Seq(Handle) /\ batch \in Seq(Handle) /\ IsInjective(ready) /\ h \notin Elements(batch)
      /\ IsInjective(batch) /\ Elements(ready) \cap Elements(batch) = {}
      /\ \A k \in Handle : flag[k] <=> k \in Elements(ready) \cup Elements(batch)
  BY <1>1 DEF ReadyInv, ReadyTypes, ListsAgree
<1>6. /\ ready' \in Seq(Handle) /\ IsInjective(ready')
      /\ \A k : k \in Elements(ready') <=> k \in Elements(ready) /\ (wanted \/ k # h)
  <2>1. CASE wanted
    BY <1>2, <1>5, <2>1
  <2>2. CASE ~wanted
    BY <1>2, <1>5, <2>2, WithoutElements
  <2> QED
    BY <2>1, <2>2
<1>7. ListsAgree'
  <2>1. \A k \in Handle : flag'[k] <=> k \in Elements(ready') \cup Elements(batch)
    BY <1>4, <1>5, <1>6
  <2>2. NoTask \notin Elements(batch)
    BY <1>5, ElementsType, NoneAssumption
  <2> QED
    BY <1>1, <1>5, <1>6, <2>1, <2>2 DEF ListsAgree
<1>8. DoneIsCollected'
  <2>1. \A t \in timers' : t \in timers /\ (wanted \/ t[1] # h)
    <3>1. CASE wanted
      BY <1>2, <3>1
    <3>2. CASE ~wanted
      BY <1>2, <3>2, TimersDropped
    <3> QED
      BY <3>1, <3>2
  <2>2. \A t \in timers : t[1] \in Handle /\ task[t[1]] # "Gone"
    BY DEF RuntimeInv, WaitTypes, ReadyInv, DoneIsCollected
  <2>3. \A t \in timers' : task'[t[1]] # "Gone"
    BY <1>4, <2>1, <2>2
  <2> QED
    BY <1>1, <1>3, <1>4, <1>5, <2>3 DEF ReadyInv, DoneIsCollected
<1> QED
  BY <1>1, <1>5, <1>6, <1>7, <1>8, NoneAssumption DEF ReadyInv, ReadyTypes

\* The components of the dead go, and with them a result nobody has collected.
LEMMA DieLists ==
    ASSUME RuntimeInv, ReadyInv, NEW e \in Entity, Die(e)
    PROVE  ReadyInv'
<1> DEFINE done == {h \in {current[e]} \cap Handle : task[h] = "Done"}
<1>1. /\ phase = "end" /\ UNCHANGED <<phase, todo, owner, timers, batch, poller>>
      /\ alive' = alive \ {e} /\ ready' = Without(ready, done)
      /\ task' = [h \in Handle |-> IF h \in done THEN "Gone" ELSE task[h]]
      /\ flag' = [h \in Handle |-> flag[h] /\ h \notin done]
  BY DEF Die, clock, pollvars
<1>2. \A h \in Handle : h \in done <=> h = current[e] /\ task[h] = "Done"
  OBVIOUS
<1> HIDE DEF done
<1>3. /\ ready \in Seq(Handle) /\ IsInjective(ready) /\ batch = <<>> /\ Elements(batch) = {}
      /\ \A h \in Handle : flag[h] <=> h \in Elements(ready)
  BY <1>1, EmptyList DEF ReadyInv, ReadyTypes, ListsAgree
<1>4. /\ ready' \in Seq(Handle) /\ IsInjective(ready')
      /\ \A h : h \in Elements(ready') <=> h \in Elements(ready) /\ h \notin done
  BY <1>1, <1>3, WithoutElements
<1>5. ListsAgree'
  BY <1>1, <1>3, <1>4, EmptyList DEF ListsAgree
<1>6. DoneIsCollected'
  <2>1. ASSUME NEW t \in timers PROVE task'[t[1]] # "Gone"
    <3>1. t[1] \in Handle /\ t[2] > 0
      BY <1>1 DEF RuntimeInv, WaitTypes, ReadyInv, DoneIsCollected
    <3>2. task[t[1]] = "Running"
      BY <3>1 DEF RuntimeInv, TimersListed
    <3> QED
      BY <1>1, <1>2, <3>1, <3>2
  <2>2. ASSUME NEW h \in Handle, task'[h] = "Done" PROVE owner[h] \in alive \ {e}
    <3>1. task[h] = "Done" /\ h \notin done
      BY <1>1, <2>2
    <3>2. owner[h] \in alive /\ current[owner[h]] = h
      BY <3>1 DEF ReadyInv, DoneIsCollected, RuntimeInv, OneTaskEach
    <3> QED
      BY <1>2, <3>1, <3>2
  <2>3. \A h \in Handle : (task'[h] = "Gone" => ~flag'[h]) /\ task'[h] # "Polling"
    BY <1>1, <1>2 DEF ReadyInv, DoneIsCollected
  <2>4. \A t \in timers : t[2] > 0
    BY <1>1 DEF ReadyInv, DoneIsCollected
  <2> QED
    BY <1>1, <1>3, <2>1, <2>2, <2>3, <2>4 DEF DoneIsCollected
<1> QED
  BY <1>1, <1>4, <1>5, <1>6 DEF ReadyInv, ReadyTypes

\* Elapsed timers and events mark tasks that are there.
LEMMA MarkingLists ==
    ASSUME RuntimeInv, SubscriptionInv, ReadyInv, FireTimers \/ DeliverEvent
    PROVE  ReadyInv'
<1>1. /\ UNCHANGED <<todo, alive, owner, task, batch, poller>> /\ timers' \subseteq timers
      /\ phase # "poll" /\ phase' = "deliver" /\ \A t \in timers' : t[2] > 0
  <2>1. CASE FireTimers
    BY <2>1 DEF FireTimers, GoTo, taskvars, pollvars
  <2>2. CASE DeliverEvent
    BY <2>2 DEF DeliverEvent, clock, pollvars, ReadyInv, DoneIsCollected
  <2> QED
    BY <2>1, <2>2
<1>2. \E hs \in Seq(Handle) : MarkReady(hs) /\ IsInjective(hs) /\ \A h \in Elements(hs) : task[h] # "Gone"
  <2>1. CASE FireTimers
    <3> DEFINE S == {t[1] : t \in timers \ timers'}
               hs == SetToSeq(S)
    <3>1. S \in SUBSET Handle /\ \A h \in S : task[h] # "Gone"
      BY DEF RuntimeInv, WaitTypes, ReadyInv, DoneIsCollected
    <3>2. MarkReady(hs)
      BY <2>1 DEF FireTimers
    <3> HIDE DEF S
    <3>3. hs \in Seq(Handle) /\ IsInjective(hs) /\ Elements(hs) \subseteq S
      BY <3>1, SetInOrder
    <3> HIDE DEF hs
    <3> QED
      BY <3>1, <3>2, <3>3
  <2>2. CASE DeliverEvent
    <3> DEFINE event == Head(events)
               told == ToldBefore(Interested(event), Failing(Interested(event)))
    <3>1. event \in Sub
      <4>1. events \in Seq(Sub) /\ events # <<>>
        BY <2>2 DEF DeliverEvent, RuntimeInv, WaitTypes
      <4> QED
        BY <4>1
    <3>2. MarkReady(told)
      BY <2>2 DEF DeliverEvent, Tell
    <3>3. told \in Seq(Handle) /\ IsInjective(told) /\ \A h \in Elements(told) : task[h] # "Gone"
      <4>1. WellListed(subscriptions)
        BY DEF SubscriptionInv
      <4> HIDE DEF event
      <4> QED
        BY <3>1, <4>1, ToldAre
    <3> HIDE DEF told
    <3> QED
      BY <3>2, <3>3
  <2> QED
    BY <2>1, <2>2
<1>3. PICK hs \in Seq(Handle) : MarkReady(hs) /\ IsInjective(hs) /\ \A h \in Elements(hs) : task[h] # "Gone"
  BY <1>2
<1>4. /\ ready' \in Seq(Handle) /\ IsInjective(ready') /\ Elements(ready') \cap Elements(batch) = {}
      /\ \A h \in Handle : flag'[h] <=> h \in Elements(ready') \cup Elements(batch)
      /\ \A h \in Handle : flag'[h] => flag[h] \/ h \in Elements(hs)
  BY <1>3, MarkedLists DEF RuntimeInv, ReadyInv
<1>5. ListsAgree'
  BY <1>1, <1>4 DEF ReadyInv, ListsAgree
<1>6. DoneIsCollected'
  BY <1>1, <1>3, <1>4 DEF ReadyInv, DoneIsCollected
<1> QED
  BY <1>1, <1>4, <1>5, <1>6 DEF ReadyInv, ReadyTypes

\* The tasks of the batch are there, and none of them has finished.
LEMMA BeginPollLists ==
    ASSUME RuntimeInv, ReadyInv, BeginPoll
    PROVE  ReadyInv'
<1> DEFINE h == Head(batch)
<1>1. /\ phase = "poll" /\ batch # <<>> /\ batch' = Tail(batch)
      /\ UNCHANGED <<phase, todo, alive, owner, ready, timers>>
      /\ flag' = [flag EXCEPT ![h] = FALSE]
      /\ poller' = IF task[h] = "Running" THEN h ELSE NoTask
      /\ task' = [task EXCEPT ![h] = IF task[h] = "Done" THEN "Polling" ELSE task[h]]
  BY DEF BeginPoll, clock
<1>2. /\ batch \in Seq(Handle) /\ ready \in Seq(Handle) /\ IsInjective(batch) /\ IsInjective(ready)
      /\ Elements(ready) \cap Elements(batch) = {}
      /\ \A k \in Handle : flag[k] <=> k \in Elements(ready) \cup Elements(batch)
  BY DEF ReadyInv, ReadyTypes, ListsAgree
<1>3. /\ h \in Elements(batch) /\ h \in Handle /\ batch' \in Seq(Handle) /\ IsInjective(batch')
      /\ Elements(batch) = {h} \cup Elements(batch') /\ h \notin Elements(batch')
      /\ Elements(batch') \subseteq Handle
  BY <1>1, <1>2, ElementsOfTail, InjectiveTail, ElementsType
<1> HIDE DEF h
<1>4. UNCHANGED task
  <2>1. task[h] # "Done"
    BY <1>3 DEF ReadyInv, DoneIsCollected
  <2> QED
    BY <1>1, <1>3, <2>1 DEF RuntimeInv, TaskTypes
<1>5. \A k \in Handle : flag'[k] = IF k = h THEN FALSE ELSE flag[k]
  BY <1>1 DEF RuntimeInv, WaitTypes
<1>6. ListsAgree'
  BY <1>1, <1>2, <1>3, <1>5, NoneAssumption DEF ListsAgree
<1>7. DoneIsCollected'
  BY <1>1, <1>3, <1>4, <1>5 DEF ReadyInv, DoneIsCollected
<1> QED
  BY <1>1, <1>2, <1>3, <1>6, <1>7, NoneAssumption DEF ReadyInv, ReadyTypes

LEMMA RestLists ==
    ASSUME RuntimeInv, ReadyInv,
           \/ TakeReady \/ EndPoll \/ EndPost \/ EndDeliver \/ EndTick
           \/ (\E event \in Sub : Post(event)) \/ (\E e \in Entity : KeepGoing(e))
           \/ UNCHANGED rtvars
    PROVE  ReadyInv'
<1>1. CASE \/ EndPoll \/ EndPost \/ EndDeliver \/ (\E event \in Sub : Post(event)) \/ UNCHANGED rtvars
  <2>1. /\ UNCHANGED <<todo, alive, owner, task, flag, ready, batch, poller, timers>>
        /\ phase' = phase \/ (phase = "poll" /\ batch = <<>> /\ phase' = "post")
           \/ (phase = "post" /\ phase' = "timers") \/ (phase = "deliver" /\ phase' = "end")
    BY <1>1 DEF EndPoll, EndPost, EndDeliver, Post, GoTo, rtvars, clock, taskvars, readyvars, pollvars
  <2> QED
    BY <2>1 DEF ReadyInv, ReadyTypes, ListsAgree, DoneIsCollected
<1>2. CASE TakeReady
  <2>1. /\ UNCHANGED <<todo, alive, owner, task, flag, poller, timers>>
        /\ phase = "activity" /\ phase' = "poll" /\ todo = {} /\ batch' = ready /\ ready' = <<>>
    BY <1>2 DEF TakeReady, GoTo, taskvars
  <2>2. poller = NoTask /\ batch = <<>> /\ Elements(ready) \subseteq Handle
    BY <2>1, ElementsType DEF RuntimeInv, InTurn, ReadyInv, ReadyTypes, ListsAgree
  <2>3. ListsAgree'
    BY <2>1, <2>2, EmptyList, NoneAssumption DEF ReadyInv, ListsAgree
  <2>4. \A h \in Handle : task[h] # "Done"
    BY <2>1 DEF ReadyInv, DoneIsCollected
  <2> QED
    BY <2>1, <2>3, <2>4, EmptyList DEF ReadyInv, ReadyTypes, DoneIsCollected
<1>3. ASSUME NEW e \in Entity, KeepGoing(e) PROVE ReadyInv'
  <2>1. /\ UNCHANGED <<phase, alive, owner, task, flag, ready, batch, poller, timers>>
        /\ todo' = todo \ {e} /\ current[e] # NoTask /\ task[current[e]] = "Running"
    BY <1>3 DEF KeepGoing, Visit, taskvars, readyvars, pollvars
  <2>2. \A h \in Handle : task[h] = "Done" => owner[h] # e
    <3> SUFFICES ASSUME NEW h \in Handle, task[h] = "Done" PROVE owner[h] # e
      OBVIOUS
    <3>1. owner[h] \in alive
      BY DEF ReadyInv, DoneIsCollected
    <3>2. current[owner[h]] = h
      BY <3>1 DEF RuntimeInv, OneTaskEach
    <3> QED
      BY <2>1, <3>2
  <2> QED
    BY <2>1, <2>2 DEF ReadyInv, ReadyTypes, ListsAgree, DoneIsCollected
<1>4. CASE EndTick
  <2>1. /\ UNCHANGED <<alive, owner, task, flag, ready, batch, poller>>
        /\ phase = "end" /\ phase' = "activity" /\ todo' = alive
        /\ timers' = {<<t[1], Sooner(t[2])>> : t \in timers}
    BY <1>4 DEF EndTick, readyvars, pollvars
  <2>2. \A u \in timers' : \E t \in timers : u[1] = t[1]
    BY <2>1
  <2>3. \A u \in timers' : task[u[1]] # "Gone"
    BY <2>2 DEF ReadyInv, DoneIsCollected
  <2> QED
    BY <2>1, <2>3 DEF ReadyInv, ReadyTypes, ListsAgree, DoneIsCollected
<1> QED
  BY <1>1, <1>2, <1>3, <1>4

-----------------------------------------------------------------------------
(* The runtime, with its subscriptions and its ready list *)

DriveInv == RuntimeInv /\ SubscriptionInv /\ ReadyInv

LEMMA DriveInitInv == RuntimeInit => DriveInv
<1> SUFFICES ASSUME RuntimeInit PROVE SubscriptionInv /\ ReadyInv
  BY RuntimeInitInv DEF DriveInv
<1> USE DEF RuntimeInit
<1>1. Elements(<<>>) = {} /\ Len(<<>>) = 0
  BY DEF Elements
<1>2. DriveTypes
  BY <1>1, BoundAssumption DEF DriveTypes
<1>3. WellListed(subscriptions)
  <2> DEFINE S == Seq(Entry)
  <2>1. <<>> \in S
    OBVIOUS
  <2> HIDE DEF S
  <2>2. subscriptions \in [Subject -> S]
    BY <2>1
  <2>3. \A s \in Subject : DOMAIN subscriptions[s] = {}
    OBVIOUS
  <2> QED
    BY <2>2, <2>3 DEF WellListed, S
<1>4. SubscribersTold
  <2>1. \A s \in Subject, e \in Entity, t \in Type : t \notin BitsOf(subscriptions[s], e)
    BY HasBit
  <2> QED
    BY <2>1 DEF SubscribersTold
<1>5. ReadyInv
  BY <1>1, NoneAssumption, EmptyList DEF ReadyInv, ReadyTypes, ListsAgree, DoneIsCollected
<1> QED
  BY <1>2, <1>3, <1>4, <1>5 DEF SubscriptionInv

LEMMA DriveStep ==
    ASSUME DriveInv, [RuntimeNext]_rtvars
    PROVE  DriveInv'
<1> USE DEF DriveInv
<1>1. RuntimeInv'
  BY RuntimeStep
<1>2. CASE Schedule \/ DeliverEvent \/ EndDeliver
  BY <1>1, <1>2, RestTells, DeliverTells, RestLists, BeginPollLists, MarkingLists DEF Schedule
<1>3. CASE ActivitySystem
  <2>1. PICK e \in todo : StartNew(e) \/ Collect(e) \/ KeepGoing(e)
    BY <1>3 DEF ActivitySystem
  <2>2. e \in Entity
    BY DEF RuntimeInv, TaskTypes
  <2>3. CASE StartNew(e) \/ Collect(e)
    <3>1. SubscriptionInv'
      BY <2>2, <2>3, ActivitySystemTells
    <3>2. ReadyInv'
      BY <2>2, <2>3, SpawnLists DEF StartNew, Collect
    <3> QED
      BY <1>1, <3>1, <3>2
  <2>4. CASE KeepGoing(e)
    BY <1>1, <2>2, <2>4, RestTells, RestLists
  <2> QED
    BY <2>1, <2>3, <2>4
<1>4. CASE Activity
  <2>1. PICK h \in Handle :
           \/ Resume(h) \/ TimerElapsed(h) \/ HandleEvent(h) \/ Suspend(h) \/ YieldNow(h) \/ FinishTask(h)
           \/ \E n \in WaitTicks : AwaitTimer(h, n)
           \/ \E sub \in Sub, n \in WaitTicks \cup {NoTimer} : AwaitEvent(h, sub, n)
           \/ \E s \in Subject : SubscribeTo(h, s)
    BY <1>4 DEF Activity
  <2>2. SubscriptionInv'
    BY <2>1, ActivityTells
  <2>3. ReadyInv'
    BY <2>1, ActivityLists, FinishLists
  <2> QED
    BY <1>1, <2>2, <2>3
<1>5. CASE \E event \in Sub : Post(event)
  BY <1>1, <1>5, RestTells, RestLists
<1>6. CASE \E e \in Entity : Die(e)
  BY <1>1, <1>6, RestTells, DieLists
<1>7. CASE UNCHANGED rtvars
  BY <1>1, <1>7, RestTells, RestLists
<1> QED
  BY <1>2, <1>3, <1>4, <1>5, <1>6, <1>7 DEF RuntimeNext

\* What a task that runs has asked for, is subscribed to, and has heard.
LEMMA Subscribed ==
    ASSUME DriveInv
    PROVE  SubscriptionsMatchWaits
<1> USE DEF DriveInv
<1> SUFFICES ASSUME NEW h \in Handle, task[h] = "Running"
             PROVE  /\ waits[h].kind = "event" /\ owner[h] \in alive =>
                          waits[h].sub[2] \in BitsOf(subscriptions[waits[h].sub[1]], owner[h])
                    /\ waits[h].kind # "park" =>
                          \A event \in ToSet(sink[h]) :
                              event \in asked[h] \/ <<event[1], All>> \in asked[h]
  BY DEF SubscriptionsMatchWaits
<1>1. Awaited(h) /\ Heard(h)
  BY DEF SubscriptionInv, SubscribersTold
<1>2. \A event \in ToSet(sink[h]) : event = <<event[1], event[2]>> /\ event \in Elements(sink[h])
  <2>1. sink[h] \in Seq(Sub)
    BY DEF RuntimeInv, WaitTypes
  <2>2. Elements(sink[h]) \subseteq Sub
    BY <2>1, ElementsType
  <2>3. \A event \in ToSet(sink[h]) : event \in Elements(sink[h])
    BY DEF ToSet, Elements
  <2> QED
    BY <2>2, <2>3 DEF Sub
<1> QED
  BY <1>1, <1>2 DEF Awaited, Heard, Asks

LEMMA Polls ==
    ASSUME DriveInv
    PROVE  PollsAreSound
<1> USE DEF DriveInv
<1>1. RuntimeTypeOK
  <2>1. \A h \in Handle : sink[h] \in Seq(Sub) /\ Len(sink[h]) <= MaxSink
    <3> SUFFICES ASSUME NEW h \in Handle PROVE sink[h] \in Seq(Sub) /\ Len(sink[h]) <= MaxSink
      OBVIOUS
    <3>1. /\ sink[h] \in Seq(Sub) /\ events \in Seq(Sub)
          /\ Len(sink[h]) + Len(events) <= MaxSink
      BY DEF RuntimeInv, WaitTypes, SubscriptionInv, DriveTypes
    <3>2. Len(sink[h]) \in Nat /\ Len(events) \in Nat
      BY <3>1
    <3> QED
      BY <3>1, <3>2, BoundAssumption
  <2>2. \A s \in Subject : subscriptions[s] \in Seq([who : Entity, bits : SUBSET Type])
    BY DEF SubscriptionInv, WellListed, Entry
  <2> QED
    BY <2>1, <2>2
    DEF RuntimeTypeOK, RuntimeInv, TaskTypes, WaitTypes, SubscriptionInv, DriveTypes, ReadyInv, ReadyTypes
<1>2. ReadyFlagAgrees
  <2>1. /\ ready \in Seq(Handle) /\ batch \in Seq(Handle) /\ IsInjective(ready) /\ IsInjective(batch)
        /\ Elements(ready) \cap Elements(batch) = {}
        /\ \A h \in Handle : flag[h] <=> h \in Elements(ready) \cup Elements(batch)
    BY DEF ReadyInv, ReadyTypes, ListsAgree
  <2>2. IsInjective(ready \o batch) /\ Elements(ready \o batch) = Elements(ready) \cup Elements(batch)
    BY <2>1, InjectiveConcat, ElementsOfConcat
  <2>3. ToSet(ready \o batch) = Elements(ready \o batch)
    BY DEF ToSet, Elements
  <2> QED
    BY <2>1, <2>2, <2>3 DEF ReadyFlagAgrees
<1>3. \A h \in Handle : task[h] # "Polling"
  BY DEF ReadyInv, DoneIsCollected
<1> QED
  BY <1>1, <1>2, <1>3 DEF PollsAreSound

\* Both layers, and the one they rest on, hold in every reachable state.
THEOREM DriveInvariant == RuntimeSpec => []DriveInv
BY DriveInitInv, DriveStep, PTL DEF RuntimeSpec

\* Whoever waits for an event is subscribed to it, whatever other activities of its entity and
\* failed deliveries unsubscribed in between, and hears nothing it has not asked for itself.
THEOREM SubscriptionsAgree == RuntimeSpec => []SubscriptionsMatchWaits
BY DriveInvariant, Subscribed, PTL

\* The ready list and the batch hold the flagged tasks, each once, and no finished one is polled:
\* poll_task, result(), is_finished() and cancel() never reach their unreachable!().
THEOREM PollsSound == RuntimeSpec => []PollsAreSound
BY DriveInvariant, Polls, PTL

\* Whatever drives a task agrees with what it waits for.
THEOREM TasksDriven == RuntimeSpec => []TasksAreDriven
<1>1. PollsAreSound /\ WakeupNotLost /\ TimersMatchWaits /\ SubscriptionsMatchWaits => TasksAreDriven
  BY DEF TasksAreDriven
<1> QED
  BY <1>1, PollsSound, WakeupsKept, TimersAgree, SubscriptionsAgree, PTL

=============================================================================
