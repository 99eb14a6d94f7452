----------------------------- MODULE Following -----------------------------
(***************************************************************************)
(* How an activity walks (path/, steer/, GoToSubactivity, FollowActivity). *)
(* The activity leaves a request in the FollowPathComponent of its entity  *)
(* and awaits the event Arrived with the token of the request; later in    *)
(* the tick the path system takes the request, if no other replaced it,    *)
(* and hands the path to the steering waypoint by waypoint.  Whoever stops *)
(* waiting clears the path, in the same place where the next activity      *)
(* leaves its request.  One entity: entities share none of this.           *)
(***************************************************************************)
EXTENDS Integers, Sequences, SequencesExt, FiniteSets

CONSTANTS Tokens,        \* bound: PathTokens, used again when nobody knows them
          MaxWaypoints,  \* bound: of a path
          FollowTicks,   \* how long FollowActivity waits
          MaxPosted,     \* bound: events that have not been read
          NoToken

VARIABLES
    tick,         \* the system that runs: activity, poll, path, steer, deliver
    activity,     \* what the entity does
    at,           \* where the future of the activity is
    awaited,      \* the token that go_to waits for
    timer,        \* of ctx.wait, NoTimer if there is none
    ready,        \* the task will be polled
    heard,        \* Task.event_sink
    subscribed,   \* to its own Arrived events
    request,      \* FollowPathComponent.request
    token,        \* FollowPathComponent.current_token
    path,         \* the waypoints left, NoPath if there is none
    steer,        \* SteeringBehaviour
    arrivals      \* EntityEventQueue.events

futureVars == <<activity, at, awaited, timer, ready, heard, subscribed>>
pathVars == <<token, path, steer>>
followVars == <<tick, futureVars, request, pathVars, arrivals>>

NoTimer == -1
NoPath == -1
NoRequest == [is |-> "none", token |-> NoToken]
ClearCurrent == [is |-> "clear", token |-> NoToken]
NavigateTo(t) == [is |-> "navigate", token |-> t]
Arrived(t, ok) == [token |-> t, ok |-> ok]
\* Whatever ends the thing that the activity is about.
Destroyed == [token |-> NoToken, ok |-> FALSE]

\* Walk: go_to, then work (break, build, equip, eat).  Haul: the same twice.
\* Wander and Follow never end by themselves.
Activities == {"walk", "haul", "wander", "follow"}

FollowInit ==
  /\ tick = "activity" /\ activity = "nop" /\ at = "parked"
  /\ awaited = NoToken /\ timer = NoTimer /\ ready = FALSE /\ heard = << >>
  /\ subscribed = FALSE
  /\ request = NoRequest /\ token = NoToken /\ path = NoPath /\ steer = "stop"
  /\ arrivals = << >>

TokensIn(events) == {events[i].token : i \in DOMAIN events}
InUse == {awaited, token, request.token} \cup TokensIn(arrivals) \cup TokensIn(heard)

\* The Drop of a GoToSubactivity that is not complete: clear_path.
AfterGoTo(left) == IF awaited # NoToken THEN ClearCurrent ELSE left

---------------------------------------------------------------------------
\* ActivitySystem: the current task is cancelled, or kept.
Replace(new) ==
  /\ tick = "activity" /\ tick' = "poll"
  /\ request' = AfterGoTo(request)
  /\ activity' = new /\ at' = "start" /\ ready' = TRUE
  /\ awaited' = NoToken /\ timer' = NoTimer /\ heard' = << >> /\ subscribed' = FALSE
  /\ UNCHANGED <<pathVars, arrivals>>

\* The task that finished is replaced by NopActivity, which unsubscribes from nothing.
FinishWalk ==
  /\ tick = "activity" /\ at = "done" /\ tick' = "poll"
  /\ activity' = "nop" /\ at' = "parked" /\ heard' = << >>
  /\ UNCHANGED <<awaited, timer, ready, subscribed, request, pathVars, arrivals>>

KeepOn ==
  /\ tick = "activity" /\ at # "done" /\ tick' = "poll"
  /\ UNCHANGED <<futureVars, request, pathVars, arrivals>>

---------------------------------------------------------------------------
\* Runtime::tick polls the future: it runs from await to await.
Polled == tick = "poll" /\ ready

\* Mutant of GoTo: the goto before is dropped when this one is there already.
GoToLate(t) ==
  /\ request' = IF request = NoRequest THEN NavigateTo(t) ELSE ClearCurrent
  /\ awaited' = t /\ subscribed' = TRUE /\ at' = "going"

GoTo(t) ==
  /\ request' = NavigateTo(t) /\ awaited' = t
  /\ subscribed' = TRUE /\ at' = "going"

StartGoing ==
  /\ Polled /\ at \in {"start", "carry"}
  /\ \E t \in Tokens \ InUse : GoTo(t)
  /\ timer' = IF activity = "follow" THEN FollowTicks ELSE NoTimer
  /\ UNCHANGED <<tick, activity, ready, heard, pathVars, arrivals>>

\* FollowActivity is in range: clears the path once and waits.
Loiter ==
  /\ Polled /\ activity = "follow" /\ at \in {"start", "loitered"}
  /\ request' = IF at = "start" THEN ClearCurrent ELSE request
  /\ at' = "loitering" /\ timer' = FollowTicks
  /\ UNCHANGED <<tick, activity, awaited, ready, heard, subscribed, pathVars, arrivals>>

\* The filter of await_arrival.
Heard(event) == event.token = awaited

\* Where the activity goes on once it has arrived.
AfterArrival == CASE activity = "wander" -> "loitering"
                  [] activity = "follow" -> "start"
                  [] OTHER -> "working"

ConsumeEvent ==
  /\ Polled /\ at \in {"going", "working"}
  /\ heard # << >> /\ heard' = Tail(heard)
  /\ LET event == Head(heard) IN
     IF at = "going" /\ Heard(event)
     THEN /\ awaited' = NoToken /\ subscribed' = FALSE
          /\ at' = IF event.ok THEN AfterArrival ELSE "done"
          /\ timer' = IF event.ok /\ activity = "wander" THEN FollowTicks ELSE NoTimer
          /\ request' = request
     ELSE IF event = Destroyed /\ activity \in {"walk", "haul"}
     THEN \* on_unhandled_event cancels: the wait returns None
          /\ awaited' = NoToken /\ at' = "done" /\ timer' = NoTimer
          /\ subscribed' = IF at = "going" THEN FALSE ELSE subscribed
          /\ request' = AfterGoTo(request)
     ELSE UNCHANGED <<awaited, at, timer, subscribed, request>>
  /\ UNCHANGED <<tick, activity, ready, pathVars, arrivals>>

\* A wait is over; FollowActivity drops its goto at the end of the loop's body.
WaitIsOver ==
  /\ Polled /\ timer = 0 /\ timer' = NoTimer
  /\ at = "going" => heard = << >>
  /\ request' = AfterGoTo(request) /\ awaited' = NoToken
  /\ \/ at' = "start"
     \/ at = "loitering" /\ activity = "follow" /\ at' = "loitered"
  /\ UNCHANGED <<tick, activity, ready, heard, subscribed, pathVars, arrivals>>

\* Work takes as long as it takes, a haul goes on to where it brings the thing.
WorkIsOver ==
  /\ Polled /\ at = "working"
  /\ at' \in IF activity = "haul" THEN {"carry", "done"} ELSE {"done"}
  /\ UNCHANGED <<tick, activity, awaited, timer, ready, heard, subscribed, request,
                 pathVars, arrivals>>

Awaits ==
  /\ tick = "poll" /\ tick' = "path" /\ ready' = FALSE
  /\ ready => /\ at \notin {"start", "carry", "loitered"} /\ timer # 0
              /\ at = "going" => heard = << >>
  /\ UNCHANGED <<activity, at, awaited, timer, heard, subscribed, request, pathVars, arrivals>>

---------------------------------------------------------------------------
Aborted == IF token # NoToken THEN <<Arrived(token, FALSE)>> ELSE << >>

\* PathSteeringSystem: take the request, then move on to the next waypoint.
PathSteering ==
  /\ tick = "path" /\ tick' = "steer"
  /\ request' = NoRequest
  /\ \E found \in IF request.is = "navigate" THEN 0..MaxWaypoints \cup {NoPath} ELSE {NoPath} :
       LET failed == request.is = "navigate" /\ found = NoPath
           now == IF request = NoRequest THEN [token |-> token, path |-> path, events |-> << >>]
                  ELSE [token |-> IF found = NoPath THEN NoToken ELSE request.token, path |-> found,
                        events |-> Aborted \o IF failed THEN <<Arrived(request.token, FALSE)>>
                                              ELSE << >>]
           advances == now.path # NoPath /\ steer = "stop"
           arrives == advances /\ now.path = 0
       IN /\ path' = IF arrives THEN NoPath ELSE IF advances THEN now.path - 1 ELSE now.path
          /\ token' = IF arrives THEN NoToken ELSE now.token
          /\ steer' = IF advances /\ ~arrives THEN "seek" ELSE steer
          /\ arrivals' = arrivals \o now.events
                       \o IF arrives THEN <<Arrived(now.token, TRUE)>> ELSE << >>
  /\ UNCHANGED futureVars

\* SteeringSystem: a waypoint is near enough, or not yet.
Steering ==
  /\ tick = "steer" /\ tick' = "deliver"
  /\ steer' \in IF steer = "seek" THEN {"seek", "stop"} ELSE {"stop"}
  /\ UNCHANGED <<futureVars, request, token, path, arrivals>>

\* RuntimeSystem: timers, then the events in the order in which they were posted, and
\* whatever the other systems posted about the thing.  Nobody else's arrivals.
DeliverArrivals ==
  /\ tick = "deliver" /\ tick' = "activity"
  /\ \E destroyed \in {<< >>, <<Destroyed>>} :
       LET mine == (IF subscribed THEN arrivals ELSE << >>)
                   \o IF activity \in {"walk", "haul"} /\ at # "done" THEN destroyed ELSE << >>
       IN /\ Len(heard) + Len(mine) <= MaxPosted
          /\ heard' = heard \o mine
          /\ timer' = IF timer > 0 THEN timer - 1 ELSE timer
          /\ \E works \in {FALSE, at = "working"} :
               ready' = (mine # << >> \/ timer = 1 \/ works)
  /\ arrivals' = << >>
  /\ UNCHANGED <<activity, at, awaited, subscribed, request, pathVars>>

FollowNext ==
  \/ \E new \in Activities : Replace(new)
  \/ FinishWalk \/ KeepOn
  \/ StartGoing \/ Loiter \/ ConsumeEvent \/ WaitIsOver \/ WorkIsOver \/ Awaits
  \/ PathSteering \/ Steering \/ DeliverArrivals

FollowSpec == FollowInit /\ [][FollowNext]_followVars

---------------------------------------------------------------------------
Holders(t) ==
  {p \in {<<"request", 1>>, <<"current", 1>>} :
     t = IF p[1] = "request" THEN request.token ELSE token}
  \cup {<<"arrivals", i>> : i \in {j \in DOMAIN arrivals : arrivals[j].token = t}}
  \cup {<<"heard", i>> : i \in {j \in DOMAIN heard : heard[j].token = t}}

(* Whoever waits to arrive will hear of it, once: whatever replaced what   *)
(* before, his token is in one place, the request, the path that is being  *)
(* followed or an event that will reach him, and the task is subscribed.   *)
(* And nobody walks who does not wait: when the path system has run, the   *)
(* path that is followed is the one the activity waits for, in spite of    *)
(* all that went on without it.                                            *)
WalksAreAwaited ==
  /\ awaited # NoToken => Cardinality(Holders(awaited)) = 1 /\ subscribed
  /\ tick = "steer" => token \in {NoToken, awaited}
=============================================================================
