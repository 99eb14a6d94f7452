---------------------------- MODULE TaskRuntime -----------------------------
(***************************************************************************)
(* The runtime of the activities (runtime/, event/, activity/context.rs).  *)
(*                                                                         *)
(* An activity is an async block.  It runs only when the runtime polls its *)
(* task, for which the task has to be on the ready list; it gives way at   *)
(* an await, for a timer, for an event, or for one tick.  Nothing wakes it *)
(* by itself: timers and events mark the task of the awaiting entity as    *)
(* ready, each from its own list, while the activity system cancels and    *)
(* replaces tasks, and entities die.                                       *)
(*                                                                         *)
(* One tick is activity, poll, post (the other systems post events),       *)
(* timers and deliver (RuntimeSystem), and end (queued updates post more   *)
(* events, dead entities are deleted).  What an activity does between two  *)
(* awaits is left open; it is only what concerns the runtime.              *)
(***************************************************************************)
EXTENDS Queues, Integers, Sequences, FiniteSets, SequencesExt

CONSTANTS
    Entity,         \* entities with an ActivityComponent
    Subject,        \* entities that events are about
    Type,           \* EntityEventType
    All,            \* EventSubscription::All
    Handle,         \* tasks; a handle is used again once nothing refers to it
    NoTask,         \* no task; nobody is polled
    WaitTicks,      \* how long activities wait
    MaxPosted, MaxSink  \* bounds: events posted at a time, and unread by a task

ASSUME WaitAssumption == WaitTicks \subseteq Nat \ {0}
ASSUME NoneAssumption == NoTask \notin Handle /\ All \notin Type
\* There is always a handle left: an entity has one task at most, and one that is new.
ASSUME HandleAssumption ==
    /\ Entity # {} /\ IsFiniteSet(Entity) /\ IsFiniteSet(Handle)
    /\ Cardinality(Handle) > Cardinality(Entity)
ASSUME BoundAssumption == MaxPosted \in Nat /\ MaxSink \in Nat

VARIABLES
    phase, todo,    \* the system that runs now, and whom it has still to visit
    alive,          \* entities that still have their components
    current,        \* ActivityComponent.current
    task,           \* TaskFuture, or "Gone" when the last reference is dropped
    owner,          \* ActivityContext.entity
    waits,          \* what the future awaits, see Wait
    sink,           \* Task.event_sink
    flag,           \* Task.ready
    asked,          \* history: what the task has ever subscribed to
    ready,          \* RuntimeInner.ready
    batch,          \* the ready tasks taken out by tick(), still to be polled
    poller,         \* the task being polled
    timers,         \* RuntimeTimers: <<task, ticks left>>
    events,         \* EntityEventQueue.events
    subscriptions,  \* EntityEventQueue.subscriptions
    erroneous       \* erroneous_subscribers of consume_events

clock == <<phase, todo>>
taskvars == <<current, task, owner, waits, sink, asked>>
readyvars == <<flag, ready>>
pollvars == <<batch, poller>>
eventvars == <<events, subscriptions, erroneous>>
rtvars == <<clock, alive, taskvars, readyvars, pollvars, timers, eventvars>>

Sub == Subject \X Type
NoSub == <<>>
NoTimer == -1
TicksLeft == UNION {0 .. n : n \in WaitTicks}

\* "event" may have a timeout beside it (futures::select); "run" is a future
\* that awaits nothing, "park" the one of NopActivity.
Wait == [kind : {"start", "run", "event", "timer", "yield", "park"},
         sub : Sub \cup {NoSub}, timer : TicksLeft \cup {NoTimer}]
Await(kind) == [kind |-> kind, sub |-> NoSub, timer |-> NoTimer]

RuntimeTypeOK ==
    /\ phase \in {"activity", "poll", "post", "timers", "deliver", "end"}
    /\ todo \subseteq alive /\ alive \subseteq Entity
    /\ current \in [Entity -> Handle \cup {NoTask}]
    /\ task \in [Handle -> {"Gone", "Running", "Polling", "Done"}]
    /\ owner \in [Handle -> Entity]
    /\ waits \in [Handle -> Wait]
    /\ \A h \in Handle : sink[h] \in Seq(Sub) /\ Len(sink[h]) <= MaxSink
    /\ flag \in [Handle -> BOOLEAN]
    /\ asked \in [Handle -> SUBSET (Subject \X (Type \cup {All}))]
    /\ ready \in Seq(Handle) /\ batch \in Seq(Handle)
    /\ poller \in Handle \cup {NoTask}
    /\ timers \subseteq Handle \X TicksLeft
    /\ events \in Seq(Sub) /\ Len(events) <= MaxPosted
    /\ \A s \in Subject : subscriptions[s] \in Seq([who : Entity, bits : SUBSET Type])
    /\ erroneous \subseteq Entity

RuntimeInit ==
    /\ phase = "activity" /\ todo = Entity /\ alive = Entity
    /\ current = [e \in Entity |-> NoTask]
    /\ task = [h \in Handle |-> "Gone"]
    /\ owner = [h \in Handle |-> CHOOSE e \in Entity : TRUE]
    /\ waits = [h \in Handle |-> Await("run")]
    /\ sink = [h \in Handle |-> <<>>]
    /\ flag = [h \in Handle |-> FALSE]
    /\ asked = [h \in Handle |-> {}]
    /\ ready = <<>> /\ batch = <<>> /\ poller = NoTask
    /\ timers = {}
    /\ events = <<>>
    /\ subscriptions = [s \in Subject |-> <<>>]
    /\ erroneous = {}

-----------------------------------------------------------------------------
(* The ready list *)

\* mark_ready: tasks are listed once, which the flag is there to tell.
MarkReady(hs) ==
    /\ ready' = ready \o Kept(hs, {h \in Handle : ~flag[h]})
    /\ flag' = [h \in Handle |-> flag[h] \/ h \in ToSet(hs)]

-----------------------------------------------------------------------------
(* Subscriptions: for each subject, the subscribers in order of their first *)
(* subscription, each with a set of event types.                            *)

BitsOf(subs, e) == UNION {subs[i].bits : i \in {k \in DOMAIN subs : subs[k].who = e}}

\* subscribe: add to the subscriber's bits, or push it.
Subscribe(e, s, types) ==
    LET subs == subscriptions[s]
    IN  [subscriptions EXCEPT ![s] =
            IF \E i \in DOMAIN subs : subs[i].who = e
            THEN [i \in DOMAIN subs |->
                    IF subs[i].who = e THEN [subs[i] EXCEPT !.bits = @ \cup types] ELSE subs[i]]
            ELSE Append(subs, [who |-> e, bits |-> types])]

\* unsubscribe: clear the bit, whoever else relies on it.
Unsubscribe(e, sub) ==
    LET subs == subscriptions[sub[1]]
    IN  [subscriptions EXCEPT ![sub[1]] =
            [i \in DOMAIN subs |->
                IF subs[i].who = e THEN [subs[i] EXCEPT !.bits = @ \ {sub[2]}] ELSE subs[i]]]

UnsubscribeAll(es) ==
    [s \in Subject |-> [i \in DOMAIN subscriptions[s] |->
        IF subscriptions[s][i].who \in es
        THEN [subscriptions[s][i] EXCEPT !.bits = {}] ELSE subscriptions[s][i]]]

\* maintain: after some hundred removals the empty entries are dropped.
Maintained(subs) ==
    [s \in Subject |-> Kept(subs[s], {entry \in ToSet(subs[s]) : entry.bits # {}})]

-----------------------------------------------------------------------------
(* The activity system *)

GoTo(p) == phase' = p /\ UNCHANGED todo

Visit(e) ==
    /\ phase = "activity"
    /\ e \in todo
    /\ todo' = todo \ {e}
    /\ UNCHANGED <<phase, alive, pollvars>>

\* next_task_handle
NextHandle == CHOOSE h \in Handle : task[h] = "Gone"

\* The weak references to a dropped task stay where they are and fail to
\* upgrade.  Nothing can tell that from their absence, so they go with it.
Without(list, gone) == Kept(list, Handle \ gone)

Forget(f, h, none) == IF h = NoTask THEN f ELSE [f EXCEPT ![h] = none]

\* Runtime::spawn: the new task is ready at once.  The entity's last task, if
\* any, is dropped with its future and its events.
Spawn(e, h, wait) ==
    /\ current' = [current EXCEPT ![e] = h]
    /\ task' = [Forget(task, current[e], "Gone") EXCEPT ![h] = "Running"]
    /\ owner' = [owner EXCEPT ![h] = e]
    /\ waits' = [Forget(waits, current[e], Await("run")) EXCEPT ![h] = Await(wait)]
    /\ sink' = [Forget(sink, current[e], <<>>) EXCEPT ![h] = <<>>]
    /\ asked' = [Forget(asked, current[e], {}) EXCEPT ![h] = {}]
    /\ flag' = [Forget(flag, current[e], FALSE) EXCEPT ![h] = TRUE]
    /\ ready' = Append(Without(ready, {current[e]}), h)

\* Mutant of WithoutTimerOf: no Drop for TimerFuture.
TimersKept(h) == timers

\* Dropping a TimerFuture cancels its timer, unless it has elapsed.
WithoutTimerOf(h) ==
    timers \ {t \in timers : t[1] = h /\ t[2] > 0 /\ t[2] = waits[h].timer}

WithoutTimersOf(h) == {t \in WithoutTimerOf(h) : t[1] # h \/ t[2] > 0}

\* The AI has left a new activity: cancel() the current task (unreachable!() if
\* it is Polling) and unsubscribe the entity from everything.
StartNew(e) ==
    /\ Visit(e)
    /\ current[e] # NoTask => task[current[e]] # "Polling"
    /\ Spawn(e, NextHandle, "start")
    /\ timers' = WithoutTimersOf(current[e])
    /\ subscriptions' = IF current[e] = NoTask THEN subscriptions ELSE UnsubscribeAll({e})
    /\ UNCHANGED <<events, erroneous>>

\* No current activity, or result() of a finished one: idle, still subscribed.
Collect(e) ==
    /\ Visit(e)
    /\ current[e] # NoTask => task[current[e]] = "Done"
    /\ Spawn(e, NextHandle, "park")
    /\ timers' = WithoutTimersOf(current[e])
    /\ UNCHANGED eventvars

KeepGoing(e) ==
    /\ Visit(e)
    /\ current[e] # NoTask /\ task[current[e]] = "Running"
    /\ UNCHANGED <<taskvars, readyvars, timers, eventvars>>

-----------------------------------------------------------------------------
(* Runtime::tick *)

TakeReady ==
    /\ phase = "activity" /\ todo = {}
    /\ GoTo("poll")
    /\ batch' = ready
    /\ ready' = <<>>
    /\ UNCHANGED <<alive, taskvars, flag, poller, timers, eventvars>>

\* The next task of the batch.  A finished one is left
\* in Polling for ever: poll_task takes the future and puts nothing back.
BeginPoll ==
    /\ phase = "poll" /\ poller = NoTask /\ batch # <<>>
    /\ LET h == Head(batch)
       IN  /\ flag' = [flag EXCEPT ![h] = FALSE]
           /\ poller' = IF task[h] = "Running" THEN h ELSE NoTask
           /\ task' = [task EXCEPT ![h] = IF @ = "Done" THEN "Polling" ELSE @]
    /\ batch' = Tail(batch)
    /\ UNCHANGED <<clock, alive, current, owner, waits, sink, asked, ready, timers, eventvars>>

Polled(h) ==
    /\ poller = h
    /\ UNCHANGED <<clock, alive, current, owner, batch, events, erroneous>>

\* The first poll, and the one after a yield, just go on.
Resume(h) ==
    /\ Polled(h)
    /\ waits[h].kind \in {"start", "yield"}
    /\ waits' = [waits EXCEPT ![h] = Await("run")]
    /\ UNCHANGED <<task, sink, asked, readyvars, poller, timers, subscriptions>>

\* An elapsed TimerFuture wakes its own task once more.  An event future that
\* loses the select is dropped, and never unsubscribes.
TimerElapsed(h) ==
    /\ Polled(h)
    /\ waits[h].timer = 0
    /\ waits[h].kind = "event" => sink[h] = <<>>
    /\ waits' = [waits EXCEPT ![h] = Await("run")]
    /\ MarkReady(<<h>>)
    /\ UNCHANGED <<task, sink, asked, poller, timers, subscriptions>>

\* consume_events: the filter or the activity's on_unhandled_event either ends
\* the loop, which unsubscribes, or waits for the next event.
HandleEvent(h) ==
    /\ Polled(h)
    /\ waits[h].kind = "event" /\ sink[h] # <<>>
    /\ sink' = [sink EXCEPT ![h] = Tail(@)]
    /\ \/ UNCHANGED <<waits, timers, subscriptions>>
       \/ /\ waits' = [waits EXCEPT ![h] = Await("run")]
          /\ timers' = WithoutTimerOf(h)
          /\ subscriptions' = Unsubscribe(owner[h], waits[h].sub)
    /\ UNCHANGED <<task, asked, readyvars, poller>>

Suspend(h) ==
    /\ Polled(h)
    /\ waits[h].kind \in {"event", "timer", "park"} /\ waits[h].timer # 0
    /\ waits[h].kind = "event" => sink[h] = <<>>
    /\ poller' = NoTask
    /\ UNCHANGED <<task, waits, sink, asked, readyvars, timers, subscriptions>>

\* What the activity does next.
AwaitTimer(h, n) ==
    /\ Polled(h) /\ waits[h].kind = "run"
    /\ waits' = [waits EXCEPT ![h] = [Await("timer") EXCEPT !.timer = n]]
    /\ timers' = timers \cup {<<h, n>>}
    /\ UNCHANGED <<task, sink, asked, readyvars, poller, subscriptions>>

AwaitEvent(h, sub, timeout) ==
    /\ Polled(h) /\ waits[h].kind = "run"
    /\ waits' = [waits EXCEPT ![h] = [kind |-> "event", sub |-> sub, timer |-> timeout]]
    /\ timers' = timers \cup ({<<h, timeout>>} \cap ({h} \X TicksLeft))
    /\ subscriptions' = Subscribe(owner[h], sub[1], {sub[2]})
    /\ asked' = [asked EXCEPT ![h] = @ \cup {sub}]
    /\ UNCHANGED <<task, sink, readyvars, poller>>

YieldNow(h) ==
    /\ Polled(h) /\ waits[h].kind = "run"
    /\ waits' = [waits EXCEPT ![h] = Await("yield")]
    /\ MarkReady(<<h>>)
    /\ poller' = NoTask
    /\ UNCHANGED <<task, sink, asked, timers, subscriptions>>

SubscribeTo(h, s) ==
    /\ Polled(h) /\ waits[h].kind = "run"
    /\ subscriptions' = Subscribe(owner[h], s, Type)
    /\ asked' = [asked EXCEPT ![h] = @ \cup {<<s, All>>}]
    /\ UNCHANGED <<task, waits, sink, readyvars, poller, timers>>

\* Finished: the activity system will read the result, unless the entity died.
FinishTask(h) ==
    /\ Polled(h) /\ waits[h].kind = "run"
    /\ poller' = NoTask
    /\ LET wanted == current[owner[h]] = h
       IN  /\ task' = [task EXCEPT ![h] = IF wanted THEN "Done" ELSE "Gone"]
           /\ sink' = [sink EXCEPT ![h] = IF wanted THEN @ ELSE <<>>]
           /\ asked' = [asked EXCEPT ![h] = {}]
           /\ flag' = [flag EXCEPT ![h] = @ /\ wanted]
           /\ ready' = IF wanted THEN ready ELSE Without(ready, {h})
           /\ timers' = IF wanted THEN timers ELSE WithoutTimersOf(h)
    /\ UNCHANGED <<waits, subscriptions>>

EndPoll ==
    /\ phase = "poll" /\ poller = NoTask /\ batch = <<>>
    /\ GoTo("post")
    /\ UNCHANGED <<alive, taskvars, readyvars, pollvars, timers, eventvars>>

-----------------------------------------------------------------------------
(* RuntimeSystem, and the rest of the tick *)

\* Another system, or a queued update, posts an event.
Post(event) ==
    /\ phase \in {"post", "end"}
    /\ Len(events) < MaxPosted
    /\ \A h \in Handle : Len(sink[h]) + Len(events) < MaxSink
    /\ events' = Append(events, event)
    /\ UNCHANGED <<clock, alive, taskvars, readyvars, pollvars, timers, subscriptions, erroneous>>

EndPost ==
    /\ phase = "post"
    /\ GoTo("timers")
    /\ UNCHANGED <<alive, taskvars, readyvars, pollvars, timers, eventvars>>

\* Timers::maintain: the elapsed timers wake their tasks.
FireTimers ==
    /\ phase = "timers"
    /\ GoTo("deliver")
    /\ timers' = {t \in timers : t[2] > 0}
    /\ MarkReady(SetToSeq({t[1] : t \in timers \ timers'}))
    /\ UNCHANGED <<alive, taskvars, pollvars, eventvars>>

\* consume_events: the callback pushes the event to the subscriber's task and
\* marks it ready, or fails when there is none, which breaks out of the loop
\* over this event's subscribers.
Interested(event) ==
    LET subs == subscriptions[event[1]]
    IN  Kept(subs, {entry \in ToSet(subs) : event[2] \in entry.bits})

Failing(subs) == {i \in DOMAIN subs : current[subs[i].who] = NoTask}

ToldBefore(subs, stop) ==
    [i \in {k \in DOMAIN subs : \A j \in stop : k < j} |-> current[subs[i].who]]

\* Mutant of Tell: only the first subscriber is woken.
TellOne(told) ==
    /\ sink' = [h \in Handle |-> IF h \in ToSet(told) THEN Append(sink[h], Head(events)) ELSE sink[h]]
    /\ MarkReady(IF told = <<>> THEN <<>> ELSE <<Head(told)>>)

Tell(told) ==
    /\ sink' = [h \in Handle |-> IF h \in ToSet(told) THEN Append(sink[h], Head(events)) ELSE sink[h]]
    /\ MarkReady(told)

DeliverEvent ==
    /\ phase = "deliver" /\ events # <<>>
    /\ LET subs == Interested(Head(events))
           failing == Failing(subs)
       IN  /\ Tell(ToldBefore(subs, failing))
           /\ erroneous' = erroneous \cup {subs[i].who : i \in
                                {k \in failing : \A j \in failing : k <= j}}
    /\ events' = Tail(events)
    /\ UNCHANGED <<clock, alive, current, task, owner, waits, asked, pollvars, timers, subscriptions>>

EndDeliver ==
    /\ phase = "deliver" /\ events = <<>>
    /\ GoTo("end")
    /\ subscriptions' \in {UnsubscribeAll(erroneous), Maintained(UnsubscribeAll(erroneous))}
    /\ erroneous' = {}
    /\ UNCHANGED <<alive, taskvars, readyvars, pollvars, timers, events>>

\* The components go with the entity.  A future that has not finished holds a
\* reference to its own task (ActivityContext.task), so both live on.
Die(e) ==
    /\ phase = "end"
    /\ e \in alive
    /\ alive' = alive \ {e}
    /\ current' = [current EXCEPT ![e] = NoTask]
    /\ LET done == {h \in {current[e]} \cap Handle : task[h] = "Done"}
       IN  /\ task' = [h \in Handle |-> IF h \in done THEN "Gone" ELSE task[h]]
           /\ sink' = [h \in Handle |-> IF h \in done THEN <<>> ELSE sink[h]]
           /\ flag' = [h \in Handle |-> flag[h] /\ h \notin done]
           /\ ready' = Without(ready, done)
    /\ UNCHANGED <<clock, owner, waits, asked, pollvars, timers, eventvars>>

\* Mutant of Sooner: off by one, a timer never quite elapses.
SoonerButOne(n) == IF n > 1 THEN n - 1 ELSE n

Sooner(n) == IF n > 0 THEN n - 1 ELSE n

EndTick ==
    /\ phase = "end"
    /\ phase' = "activity" /\ todo' = alive
    /\ waits' = [h \in Handle |-> [waits[h] EXCEPT !.timer = Sooner(@)]]
    /\ timers' = {<<t[1], Sooner(t[2])>> : t \in timers}
    /\ UNCHANGED <<alive, current, task, owner, sink, asked, readyvars, pollvars, eventvars>>

-----------------------------------------------------------------------------
Schedule == TakeReady \/ BeginPoll \/ EndPoll \/ EndPost \/ FireTimers \/ EndTick

ActivitySystem == \E e \in todo : StartNew(e) \/ Collect(e) \/ KeepGoing(e)

Activity ==
    \E h \in Handle :
        \/ Resume(h) \/ TimerElapsed(h) \/ HandleEvent(h) \/ Suspend(h)
        \/ YieldNow(h) \/ FinishTask(h)
        \/ \E n \in WaitTicks : AwaitTimer(h, n)
        \/ \E sub \in Sub, n \in WaitTicks \cup {NoTimer} : AwaitEvent(h, sub, n)
        \/ \E s \in Subject : SubscribeTo(h, s)

RuntimeNext ==
    \/ Schedule
    \/ ActivitySystem
    \/ Activity
    \/ DeliverEvent \/ EndDeliver
    \/ \E event \in Sub : Post(event)
    \/ \E e \in Entity : Die(e)

RuntimeSpec == RuntimeInit /\ [][RuntimeNext]_rtvars

\* The tick is run for ever, and an activity that is polled comes to an await
\* or to its end.
FairRuntimeSpec ==
    RuntimeSpec /\ WF_rtvars(Schedule \/ ActivitySystem \/ Activity \/ DeliverEvent \/ EndDeliver)

-----------------------------------------------------------------------------
(* Properties *)

\* The flag of a task tells whether it is listed as ready, or waits to be polled
\* in this tick, and it is listed once (the debug assertions of tick and
\* mark_ready, runtime.rs:118 and 146-155).
ReadyFlagAgrees ==
    /\ \A h \in Handle : flag[h] <=> h \in ToSet(ready \o batch)
    /\ IsInjective(ready \o batch)

\* And a finished task is never polled again, although wakes that came too late (an
\* elapsed timer's second one, an event delivered after the poll) may still list
\* it: poll_task would leave it in Polling, and result(), is_finished() and
\* cancel() call that unreachable!() (runtime.rs:220, 229, 264).
PollsAreSound == RuntimeTypeOK /\ ReadyFlagAgrees /\ \A h \in Handle : task[h] # "Polling"

\* An activity that waits for an event is ready whenever its sink holds one: the
\* wakeup is never lost, though sink, flag and ready list are written apart.
WakeupNotLost ==
    \A h \in Handle \ {poller} :
        task[h] = "Running" /\ waits[h].kind = "event" /\ sink[h] # <<>> => flag[h]

\* An activity that waits for a timer has one in the list, or is ready already;
\* and a timer still to elapse belongs to an activity that waits for it.
TimersMatchWaits ==
    /\ \A h \in Handle \ {poller} :
          task[h] = "Running" /\ waits[h].timer # NoTimer =>
              <<h, waits[h].timer>> \in timers \/ (waits[h].timer = 0 /\ flag[h])
    /\ \A t \in timers : t[2] > 0 => task[t[1]] = "Running" /\ waits[t[1]].timer = t[2]

\* Whoever waits for an event is subscribed to it, whatever was unsubscribed in
\* between (other activities of the same entity, erroneous subscribers); and hears
\* only of what it subscribed to itself, never of what an earlier activity of its
\* entity did: finished ones leave their subscriptions.  (The idle one hears of
\* those, and ignores it.)
SubscriptionsMatchWaits ==
    \A h \in Handle :
        task[h] = "Running" =>
            /\ waits[h].kind = "event" /\ owner[h] \in alive =>
                  waits[h].sub[2] \in BitsOf(subscriptions[waits[h].sub[1]], owner[h])
            /\ waits[h].kind # "park" =>
                  \A event \in ToSet(sink[h]) :
                      event \in asked[h] \/ <<event[1], All>> \in asked[h]

\* What drives a task agrees with what it waits for: the ready list and its flags, the wakeups,
\* the timers and the subscriptions.
TasksAreDriven == PollsAreSound /\ WakeupNotLost /\ TimersMatchWaits /\ SubscriptionsMatchWaits

\* Everybody who waits for a timer goes on.
TimersElapse ==
    \A h \in Handle : \A n \in TicksLeft : waits[h].timer = n ~> waits[h].timer # n

=============================================================================
