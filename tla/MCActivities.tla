---------------------------- MODULE MCActivities ----------------------------
(* What activities do, and the runtime that they run on, each in a part of    *)
(* its own: they share no state.  A behaviour is one of one part.             *)
EXTENDS BuildWork, TLC

CONSTANTS w1, w2, i1, i2, i3, item, h1, h2, h3, BeenHauled, All, NoTask

VARIABLE part
VARIABLES rt_phase, rt_todo, rt_alive, current, task, owner, waits, rt_sink, flag, asked, ready,
          batch, poller, timers, posted, subscriptions, erroneous

-----------------------------------------------------------------------------
\* Two entities that are sent events about one item.
Ru == INSTANCE TaskRuntime WITH
        Entity <- {w1, w2}, Subject <- {item}, Type <- {BeenHauled}, Handle <- {h1, h2, h3},
        WaitTicks <- {}, MaxPosted <- 1, MaxSink <- 1,
        phase <- rt_phase, todo <- rt_todo, alive <- rt_alive, sink <- rt_sink, events <- posted

runtime == <<rt_phase, rt_todo, rt_alive, current, task, owner, waits, rt_sink, flag, asked, ready,
             batch, poller, timers, posted, subscriptions, erroneous>>

-----------------------------------------------------------------------------
\* A part that is not the behaviour's stays in its initial state.
ActivitiesInit == part \in {"build", "runtime"} /\ BuildInit /\ Ru!RuntimeInit
OneBuild == part = "build" /\ BuildNext /\ UNCHANGED <<part, runtime>>
OneRuntime == part = "runtime" /\ Ru!RuntimeNext /\ UNCHANGED <<part, bwvars>>

ActivitiesSpec == ActivitiesInit /\ [][OneBuild \/ OneRuntime]_<<part, bwvars, runtime>>

-----------------------------------------------------------------------------
\* The ready list and its flags agree and no finished task is polled, whoever has been sent
\* an event is ready to hear it, and whoever waits for one is subscribed and hears only what
\* it asked for (TaskRuntime).
TasksAreDriven == part = "runtime" => Ru!TasksAreDriven
=============================================================================
