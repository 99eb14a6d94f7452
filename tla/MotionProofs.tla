---------------------------- MODULE MotionProofs ----------------------------
(***************************************************************************)
(* Walking, sensing, moving, and where it all is.                          *)
(*                                                                         *)
(* Whoever waits to arrive hears of it once, and nobody walks who does not *)
(* wait: for any set of tokens, length of paths and of waits, and number   *)
(* of events that are not read.  Whoever senses has a position that is not *)
(* too old, and remembers for as long as it should.  A body comes to stand *)
(* and heads for where it may.  Positions, ranges and indices agree, for   *)
(* every size of chunks, slabs and grids.                                  *)
(***************************************************************************)
EXTENDS Following, Senses, Motion, Positions, FiniteSetTheorems, FunctionTheorems, TLAPS

-----------------------------------------------------------------------------
(* Following a path *)

TokenOrNone == Tokens \cup {NoToken}
Events == [token : TokenOrNone, ok : BOOLEAN]
Requests == [is : {"none", "clear", "navigate"}, token : TokenOrNone]

FollowTypes ==
    /\ tick \in {"activity", "poll", "path", "steer", "deliver"}
    /\ awaited \in TokenOrNone /\ token \in TokenOrNone
    /\ request \in Requests
    /\ request.token # NoToken <=> request.is = "navigate"
    /\ heard \in Seq(Events) /\ arrivals \in Seq(Events)
    /\ tick \in {"activity", "poll", "path"} => arrivals = << >>

\* A token is in one event at most; that of Destroyed is none.
Distinct(events) ==
    \A i, j \in DOMAIN events :
        events[i].token # NoToken /\ events[i].token = events[j].token => i = j

Apart(events, others) ==
    \A i \in DOMAIN events : events[i].token # NoToken => events[i].token \notin others

\* A token is in one place at most.
TokensOnce ==
    /\ Distinct(heard) /\ Distinct(arrivals)
    /\ Apart(heard, {request.token, token} \cup TokensIn(arrivals))
    /\ Apart(arrivals, {request.token, token})
    /\ token # NoToken => token # request.token

\* Somebody or something has it.
Somewhere(t) == t \in {request.token, token} \cup TokensIn(arrivals) \cup TokensIn(heard)

\* The future waits where it says so, and then its token is underway.
WaitsAreMet ==
    /\ awaited # NoToken <=> at = "going"
    /\ awaited # NoToken => subscribed /\ Somewhere(awaited)

\* What is asked of the path system is what the future waits for, and a path that
\* nobody waits for is about to be cleared or replaced.
RequestsCurrent ==
    /\ request.is = "navigate" => request.token = awaited
    /\ request.is = "clear" => awaited = NoToken
    /\ request.is = "none" => request = NoRequest /\ token \in {NoToken, awaited}
    /\ tick = "steer" => request.is = "none"

FollowInv == FollowTypes /\ TokensOnce /\ WaitsAreMet /\ RequestsCurrent

-----------------------------------------------------------------------------
(* Sequences of events *)

LEMMA TokensOfSequence ==
    ASSUME NEW s \in Seq(Events)
    PROVE  /\ \A t : t \in TokensIn(s) <=> \E i \in DOMAIN s : s[i].token = t
           /\ TokensIn(s) \subseteq TokenOrNone
<1>1. \A i \in DOMAIN s : s[i] \in Events
  OBVIOUS
<1> QED
  BY <1>1 DEF TokensIn, Events

\* One after the other.
LEMMA TokensOfJoined ==
    ASSUME NEW s \in Seq(Events), NEW u \in Seq(Events)
    PROVE  /\ s \o u \in Seq(Events)
           /\ TokensIn(s \o u) = TokensIn(s) \cup TokensIn(u)
           /\ Distinct(s) /\ Distinct(u) /\ Apart(s, TokensIn(u)) => Distinct(s \o u)
           /\ \A T : Apart(s, T) /\ Apart(u, T) => Apart(s \o u, T)
<1> DEFINE m == Len(s)
           n == Len(u)
           c == s \o u
<1>1. /\ m \in Nat /\ n \in Nat /\ DOMAIN s = 1 .. m /\ DOMAIN u = 1 .. n
      /\ c \in Seq(Events) /\ DOMAIN c = 1 .. (m + n)
      /\ \A i \in 1 .. m : c[i] = s[i]
      /\ \A i \in (m + 1) .. (m + n) : c[i] = u[i - m]
  OBVIOUS
<1> HIDE DEF m, n, c
<1>2. ASSUME NEW i \in DOMAIN c
      PROVE  (i \in DOMAIN s /\ c[i] = s[i]) \/ (i - m \in DOMAIN u /\ c[i] = u[i - m])
  BY <1>1
<1>3. /\ \A i \in DOMAIN s : i \in DOMAIN c /\ c[i] = s[i]
      /\ \A i \in DOMAIN u : i + m \in DOMAIN c /\ c[i + m] = u[i]
  BY <1>1
<1>4. TokensIn(c) = TokensIn(s) \cup TokensIn(u)
  <2>1. /\ \A t : t \in TokensIn(s) <=> \E i \in DOMAIN s : s[i].token = t
        /\ \A t : t \in TokensIn(u) <=> \E i \in DOMAIN u : u[i].token = t
        /\ \A t : t \in TokensIn(c) <=> \E i \in DOMAIN c : c[i].token = t
    BY <1>1, TokensOfSequence
  <2>2. ASSUME NEW t PROVE t \in TokensIn(c) <=> t \in TokensIn(s) \/ t \in TokensIn(u)
    <3>1. ASSUME t \in TokensIn(c) PROVE t \in TokensIn(s) \/ t \in TokensIn(u)
      BY <1>2, <2>1, <3>1, Zenon
    <3>2. ASSUME t \in TokensIn(s) PROVE t \in TokensIn(c)
      BY <1>3, <2>1, <3>2
    <3>3. ASSUME t \in TokensIn(u) PROVE t \in TokensIn(c)
      BY <1>3, <2>1, <3>3
    <3> QED
      BY <3>1, <3>2, <3>3
  <2> QED
    BY <2>2
<1>5. ASSUME Distinct(s), Distinct(u), Apart(s, TokensIn(u)) PROVE Distinct(c)
  <2> SUFFICES ASSUME NEW i \in DOMAIN c, NEW j \in DOMAIN c,
                      c[i].token # NoToken, c[i].token = c[j].token
               PROVE  i = j
    BY DEF Distinct
  <2>1. i \in Int /\ j \in Int /\ m \in Int
    BY <1>1
  <2>2. CASE i \in DOMAIN s /\ c[i] = s[i] /\ j \in DOMAIN s /\ c[j] = s[j]
    BY <1>5, <2>2 DEF Distinct
  <2>3. CASE i - m \in DOMAIN u /\ c[i] = u[i - m] /\ j - m \in DOMAIN u /\ c[j] = u[j - m]
    <3>1. i - m = j - m
      BY <1>5, <2>3 DEF Distinct
    <3> QED
      BY <2>1, <3>1
  <2>4. CASE i \in DOMAIN s /\ c[i] = s[i] /\ j - m \in DOMAIN u /\ c[j] = u[j - m]
    BY <1>5, <2>4, TokensOfSequence DEF Apart
  <2>5. CASE i - m \in DOMAIN u /\ c[i] = u[i - m] /\ j \in DOMAIN s /\ c[j] = s[j]
    BY <1>5, <2>5, TokensOfSequence DEF Apart
  <2> QED
    BY <1>2, <2>2, <2>3, <2>4, <2>5
<1>6. ASSUME NEW T, Apart(s, T), Apart(u, T) PROVE Apart(c, T)
  BY <1>2, <1>6 DEF Apart
<1> QED
  BY <1>1, <1>4, <1>5, <1>6 DEF c

LEMMA EmptyEvents ==
    << >> \in Seq(Events) /\ TokensIn(<< >>) = {} /\ Distinct(<< >>) /\ \A T : Apart(<< >>, T)
BY DEF TokensIn, Distinct, Apart

LEMMA SingleEvent ==
    ASSUME NEW e \in Events
    PROVE  /\ <<e>> \in Seq(Events) /\ TokensIn(<<e>>) = {e.token} /\ Distinct(<<e>>)
           /\ \A T : e.token \notin T \ {NoToken} => Apart(<<e>>, T)
<1>1. <<e>> \in Seq(Events) /\ DOMAIN <<e>> = {1} /\ <<e>>[1] = e
  OBVIOUS
<1> QED
  BY <1>1 DEF TokensIn, Distinct, Apart

\* What is read is gone, and nothing else.
LEMMA TokensOfTail ==
    ASSUME NEW s \in Seq(Events), s # << >>
    PROVE  /\ Head(s) \in Events /\ Tail(s) \in Seq(Events)
           /\ TokensIn(s) = TokensIn(Tail(s)) \cup {Head(s).token}
           /\ Distinct(s) =>
                 Distinct(Tail(s)) /\ (Head(s).token # NoToken => Head(s).token \notin TokensIn(Tail(s)))
           /\ \A T : Apart(s, T) =>
                 Apart(Tail(s), T) /\ (Head(s).token # NoToken => Head(s).token \notin T)
<1> DEFINE n == Len(s)
           u == Tail(s)
           h == Head(s)
<1>1. /\ n \in Nat \ {0} /\ DOMAIN s = 1 .. n /\ h = s[1] /\ h \in Events
      /\ u \in Seq(Events) /\ DOMAIN u = 1 .. (n - 1)
      /\ \A i \in 1 .. (n - 1) : u[i] = s[i + 1]
  OBVIOUS
<1> HIDE DEF n, u, h
<1>2. /\ 1 \in DOMAIN s /\ \A i \in DOMAIN u : i + 1 \in DOMAIN s /\ u[i] = s[i + 1]
      /\ \A i \in DOMAIN s : i = 1 \/ (i - 1 \in DOMAIN u /\ u[i - 1] = s[i])
  BY <1>1
<1>3. TokensIn(s) = TokensIn(u) \cup {h.token}
  <2>1. /\ \A t : t \in TokensIn(s) <=> \E i \in DOMAIN s : s[i].token = t
        /\ \A t : t \in TokensIn(u) <=> \E i \in DOMAIN u : u[i].token = t
    BY <1>1, TokensOfSequence
  <2>2. ASSUME NEW t PROVE t \in TokensIn(s) <=> t \in TokensIn(u) \/ t = h.token
    <3>1. ASSUME t \in TokensIn(s) PROVE t \in TokensIn(u) \/ t = h.token
      BY <1>1, <1>2, <2>1, <3>1
    <3>2. ASSUME t \in TokensIn(u) \/ t = h.token PROVE t \in TokensIn(s)
      BY <1>1, <1>2, <2>1, <3>2
    <3> QED
      BY <3>1, <3>2
  <2> QED
    BY <2>2
<1>4. ASSUME Distinct(s)
      PROVE  Distinct(u) /\ (h.token # NoToken => h.token \notin TokensIn(u))
  <2>1. ASSUME NEW i \in DOMAIN u, NEW j \in DOMAIN u, u[i].token # NoToken, u[i].token = u[j].token
        PROVE  i = j
    <3>1. i + 1 = j + 1
      BY <1>2, <1>4, <2>1 DEF Distinct
    <3> QED
      BY <1>1, <3>1
  <2>2. ASSUME NEW i \in DOMAIN u, h.token # NoToken, h.token = u[i].token
        PROVE  FALSE
    <3>1. 1 = i + 1
      BY <1>1, <1>2, <1>4, <2>2 DEF Distinct
    <3> QED
      BY <1>1, <3>1
  <2> QED
    BY <1>1, <2>1, <2>2, TokensOfSequence DEF Distinct
<1>5. ASSUME NEW T, Apart(s, T) PROVE Apart(u, T) /\ (h.token # NoToken => h.token \notin T)
  BY <1>1, <1>2, <1>5 DEF Apart
<1> QED
  BY <1>1, <1>3, <1>4, <1>5 DEF u, h

-----------------------------------------------------------------------------
(* Steps *)

\* Without it, no token could be told from none.
TokenAssumption == NoToken \notin Tokens

LEMMA InitHolds ==
    ASSUME TokenAssumption, FollowInit
    PROVE  FollowInv
<1>1. NoRequest \in Requests /\ NoRequest.token = NoToken /\ NoRequest.is = "none"
  BY DEF NoRequest, Requests, TokenOrNone
<1>2. FollowTypes
  BY <1>1, EmptyEvents DEF FollowInit, FollowTypes, TokenOrNone
<1>3. TokensOnce
  BY EmptyEvents DEF FollowInit, TokensOnce
<1>4. WaitsAreMet
  BY DEF FollowInit, WaitsAreMet
<1>5. RequestsCurrent
  BY <1>1 DEF FollowInit, RequestsCurrent
<1> QED
  BY <1>2, <1>3, <1>4, <1>5 DEF FollowInv

\* What the drop of a goto leaves of the request.
LEMMA AfterGoToLeaves ==
    ASSUME FollowInv
    PROVE  /\ AfterGoTo(request) \in Requests
           /\ awaited = NoToken => AfterGoTo(request) = request
           /\ awaited # NoToken => AfterGoTo(request) = ClearCurrent
           /\ ClearCurrent.token = NoToken /\ ClearCurrent.is = "clear" /\ ClearCurrent \in Requests
<1>1. ClearCurrent.token = NoToken /\ ClearCurrent.is = "clear" /\ ClearCurrent \in Requests
  BY DEF ClearCurrent, Requests, TokenOrNone
<1>2. request \in Requests
  BY DEF FollowInv, FollowTypes
<1> QED
  BY <1>1, <1>2 DEF AfterGoTo

\* The future stops waiting for its token, if it did, and the request stays or is cleared.
StopsWaiting ==
    /\ awaited' = NoToken /\ at' # "going" /\ tick \in {"activity", "poll"}
    /\ tick' \in {"activity", "poll"}
    /\ request' = AfterGoTo(request) \/ (request' = ClearCurrent /\ awaited = NoToken)
    /\ heard' = heard \/ heard' = << >>
    /\ UNCHANGED <<token, arrivals>>

LEMMA StopsWaitingKeeps ==
    ASSUME TokenAssumption, FollowInv, StopsWaiting
    PROVE  FollowInv'
<1> USE DEF FollowInv
<1>1. /\ awaited' = NoToken /\ at' # "going" /\ tick \in {"activity", "poll"}
      /\ tick' \in {"activity", "poll"} /\ token' = token /\ arrivals' = arrivals
      /\ heard' = heard \/ heard' = << >>
  BY DEF StopsWaiting
<1>2. /\ (request' = request /\ awaited = NoToken) \/ request' = ClearCurrent
      /\ request' \in Requests /\ ClearCurrent.token = NoToken /\ ClearCurrent.is = "clear"
  BY AfterGoToLeaves DEF StopsWaiting, FollowTypes
<1>3. FollowTypes'
  BY <1>1, <1>2, EmptyEvents DEF FollowTypes, TokenOrNone
<1>4. TokensOnce'
  <2>1. /\ Apart(arrivals, {request'.token, token})
        /\ token # NoToken => token # request'.token
        /\ Apart(heard, {request'.token, token} \cup TokensIn(arrivals))
    BY <1>1, <1>2 DEF TokensOnce, Apart
  <2> QED
    BY <1>1, <2>1, EmptyEvents DEF TokensOnce
<1>5. WaitsAreMet'
  BY <1>1 DEF WaitsAreMet
<1>6. RequestsCurrent'
  BY <1>1, <1>2 DEF RequestsCurrent, FollowTypes
<1> QED
  BY <1>3, <1>4, <1>5, <1>6

LEMMA ReplaceKeeps ==
    ASSUME TokenAssumption, FollowInv, NEW new \in Activities, Replace(new)
    PROVE  FollowInv'
<1>1. StopsWaiting
  BY DEF Replace, StopsWaiting, pathVars
<1> QED
  BY <1>1, StopsWaitingKeeps

LEMMA FinishKeeps ==
    ASSUME TokenAssumption, FollowInv, FinishWalk
    PROVE  FollowInv'
<1>1. awaited = NoToken
  BY DEF FollowInv, WaitsAreMet, FinishWalk
<1>2. StopsWaiting
  BY <1>1, AfterGoToLeaves DEF FinishWalk, StopsWaiting, pathVars
<1> QED
  BY <1>2, StopsWaitingKeeps

LEMMA LoiterKeeps ==
    ASSUME TokenAssumption, FollowInv, Loiter
    PROVE  FollowInv'
<1>1. awaited = NoToken
  BY DEF FollowInv, WaitsAreMet, Loiter
<1>2. StopsWaiting
  BY <1>1, AfterGoToLeaves DEF Loiter, Polled, StopsWaiting, pathVars
<1> QED
  BY <1>2, StopsWaitingKeeps

LEMMA WaitIsOverKeeps ==
    ASSUME TokenAssumption, FollowInv, WaitIsOver
    PROVE  FollowInv'
<1>1. StopsWaiting
  BY AfterGoToLeaves DEF WaitIsOver, Polled, StopsWaiting, pathVars
<1> QED
  BY <1>1, StopsWaitingKeeps

LEMMA WorkIsOverKeeps ==
    ASSUME TokenAssumption, FollowInv, WorkIsOver
    PROVE  FollowInv'
<1>1. awaited = NoToken /\ at' # "going"
  BY DEF FollowInv, WaitsAreMet, WorkIsOver
<1>2. StopsWaiting
  BY <1>1, AfterGoToLeaves DEF WorkIsOver, Polled, StopsWaiting, pathVars
<1> QED
  BY <1>2, StopsWaitingKeeps

\* Nothing that the invariant looks at changes, but whose turn it is.
LEMMA TurnKeeps ==
    ASSUME FollowInv, KeepOn \/ Awaits \/ Steering \/ UNCHANGED followVars
    PROVE  FollowInv'
<1> USE DEF FollowInv
<1>1. /\ awaited' = awaited /\ at' = at /\ subscribed' = subscribed /\ request' = request
      /\ token' = token /\ heard' = heard /\ arrivals' = arrivals
  BY DEF KeepOn, Awaits, Steering, followVars, futureVars, pathVars
<1>2. tick' = tick \/ <<tick, tick'>> \in {<<"activity", "poll">>, <<"poll", "path">>, <<"steer", "deliver">>}
  BY DEF KeepOn, Awaits, Steering, followVars
<1>3. FollowTypes'
  BY <1>1, <1>2 DEF FollowTypes
<1>4. TokensOnce'
  BY <1>1 DEF TokensOnce
<1>5. WaitsAreMet'
  BY <1>1 DEF WaitsAreMet, Somewhere
<1>6. RequestsCurrent'
  BY <1>1, <1>2 DEF RequestsCurrent
<1> QED
  BY <1>3, <1>4, <1>5, <1>6

\* The token of a new request is nowhere else.
LEMMA StartGoingKeeps ==
    ASSUME TokenAssumption, FollowInv, StartGoing
    PROVE  FollowInv'
<1> USE DEF FollowInv
<1>1. PICK t \in Tokens \ InUse : GoTo(t)
  BY DEF StartGoing
<1>2. /\ tick = "poll" /\ tick' = tick /\ awaited = NoToken /\ heard' = heard /\ arrivals' = arrivals
      /\ token' = token /\ request' = NavigateTo(t) /\ awaited' = t /\ subscribed' /\ at' = "going"
  BY <1>1 DEF StartGoing, Polled, GoTo, pathVars, WaitsAreMet
<1>3. /\ t # NoToken /\ t # token /\ t \notin TokensIn(arrivals) /\ t \notin TokensIn(heard)
      /\ t \in TokenOrNone
  BY <1>1 DEF InUse, TokenAssumption, TokenOrNone
<1>4. request'.token = t /\ request'.is = "navigate" /\ request' \in Requests
  BY <1>2, <1>3 DEF NavigateTo, Requests
<1>5. FollowTypes'
  BY <1>2, <1>3, <1>4 DEF FollowTypes
<1>6. TokensOnce'
  <2>1. \A i \in DOMAIN arrivals : arrivals[i].token # t
    BY <1>3, TokensOfSequence DEF FollowTypes
  <2>2. \A i \in DOMAIN heard : heard[i].token # t
    BY <1>3, TokensOfSequence DEF FollowTypes
  <2>3. Apart(arrivals, {t, token}) /\ Apart(heard, {t, token} \cup TokensIn(arrivals))
    BY <2>1, <2>2 DEF TokensOnce, Apart
  <2>4. /\ Apart(arrivals', {request'.token, token'}) /\ Distinct(heard') /\ Distinct(arrivals')
        /\ Apart(heard', {request'.token, token'} \cup TokensIn(arrivals'))
    BY <1>2, <1>4, <2>3 DEF TokensOnce
  <2>5. token' # NoToken => token' # request'.token
    BY <1>2, <1>3, <1>4
  <2> QED
    BY <2>4, <2>5 DEF TokensOnce
<1>7. WaitsAreMet'
  BY <1>2, <1>3, <1>4 DEF WaitsAreMet, Somewhere
<1>8. RequestsCurrent'
  BY <1>2, <1>4 DEF RequestsCurrent
<1> QED
  BY <1>5, <1>6, <1>7, <1>8

\* An arrival that is heard is the one of the token: no request has it, nobody follows it.
LEMMA ConsumeEventKeeps ==
    ASSUME TokenAssumption, FollowInv, ConsumeEvent
    PROVE  FollowInv'
<1> USE DEF FollowInv
<1> DEFINE event == Head(heard)
<1>1. /\ tick = "poll" /\ tick' = tick /\ heard # << >> /\ heard' = Tail(heard)
      /\ token' = token /\ arrivals' = arrivals /\ heard \in Seq(Events)
  BY DEF ConsumeEvent, Polled, pathVars, FollowTypes
<1>2. /\ event \in Events /\ heard' \in Seq(Events)
      /\ TokensIn(heard) = TokensIn(heard') \cup {event.token}
      /\ Distinct(heard') /\ (event.token # NoToken => event.token \notin TokensIn(heard'))
      /\ Apart(heard', {request.token, token} \cup TokensIn(arrivals))
      /\ event.token # NoToken =>
            event.token \notin {request.token, token} \cup TokensIn(arrivals)
  BY <1>1, TokensOfTail DEF TokensOnce
<1> HIDE DEF event
<1>3. CASE at = "going" /\ event.token = awaited
  <2>1. awaited # NoToken /\ request' = request /\ awaited' = NoToken /\ at' # "going"
    BY <1>3 DEF ConsumeEvent, Heard, AfterArrival, WaitsAreMet, event
  <2>2. request.token # awaited /\ token # awaited
    BY <1>2, <1>3, <2>1
  <2>3. FollowTypes'
    BY <1>1, <1>2, <2>1 DEF FollowTypes, TokenOrNone
  <2>4. TokensOnce'
    BY <1>1, <1>2, <2>1 DEF TokensOnce
  <2>5. WaitsAreMet'
    BY <2>1 DEF WaitsAreMet
  <2>6. RequestsCurrent'
    BY <1>1, <2>1, <2>2 DEF RequestsCurrent
  <2> QED
    BY <2>3, <2>4, <2>5, <2>6
<1>4. CASE ~(at = "going" /\ event.token = awaited) /\ UNCHANGED <<awaited, at, subscribed, request>>
  <2>1. awaited' = awaited /\ at' = at /\ subscribed' = subscribed /\ request' = request
    BY <1>4
  <2>2. FollowTypes'
    BY <1>1, <1>2, <2>1 DEF FollowTypes
  <2>3. TokensOnce'
    BY <1>1, <1>2, <2>1 DEF TokensOnce
  <2>4. WaitsAreMet'
    BY <1>1, <1>2, <1>4, <2>1 DEF WaitsAreMet, Somewhere
  <2>5. RequestsCurrent'
    BY <1>1, <2>1 DEF RequestsCurrent
  <2> QED
    BY <2>2, <2>3, <2>4, <2>5
<1>5. CASE awaited' = NoToken /\ at' = "done" /\ request' = AfterGoTo(request)
  <2>1. /\ (request' = request /\ awaited = NoToken) \/ request' = ClearCurrent
        /\ request' \in Requests /\ ClearCurrent.token = NoToken /\ ClearCurrent.is = "clear"
    BY <1>5, AfterGoToLeaves DEF FollowTypes
  <2>2. FollowTypes'
    BY <1>1, <1>2, <1>5, <2>1 DEF FollowTypes, TokenOrNone
  <2>3. TokensOnce'
    <3>1. /\ Apart(arrivals, {request'.token, token})
          /\ token # NoToken => token # request'.token
          /\ Apart(heard', {request'.token, token} \cup TokensIn(arrivals))
      BY <1>2, <2>1 DEF TokensOnce, Apart
    <3> QED
      BY <1>1, <1>2, <3>1 DEF TokensOnce
  <2>4. WaitsAreMet'
    BY <1>5 DEF WaitsAreMet
  <2>5. RequestsCurrent'
    BY <1>1, <1>5, <2>1 DEF RequestsCurrent, FollowTypes
  <2> QED
    BY <2>2, <2>3, <2>4, <2>5
<1> QED
  BY <1>3, <1>4, <1>5 DEF ConsumeEvent, Heard, event

\* What the path system does with the token asked for and the one followed: it forgets
\* what was posted as an event, in the order in which it was.
Steered ==
    /\ tick = "path" /\ tick' = "steer" /\ request' = NoRequest
    /\ UNCHANGED <<awaited, at, subscribed, heard>>
    /\ \E left, made \in Seq(Events) :
          /\ arrivals' = left \o made
          /\ TokensIn(left) \subseteq {token} /\ Distinct(left)
          /\ TokensIn(made) \subseteq {token, request.token} /\ Distinct(made)
          /\ TokensIn(left) \cap TokensIn(made) \subseteq {NoToken}
          /\ \/ token' = token /\ left = << >> /\ made = << >> /\ request.is = "none"
             \/ token' = NoToken
             \/ token' = request.token /\ made = << >> /\ request.is = "navigate"
          /\ \A t \in {token, request.token} \ {NoToken} :
                t = token' \/ t \in TokensIn(arrivals')

LEMMA PathSteeringSteers ==
    ASSUME TokenAssumption, FollowInv, PathSteering
    PROVE  Steered
<1> USE DEF FollowInv
<1>1. /\ tick = "path" /\ tick' = "steer" /\ request' = NoRequest /\ awaited' = awaited /\ at' = at
      /\ subscribed' = subscribed /\ heard' = heard /\ arrivals = << >>
      /\ token \in TokenOrNone /\ request.token \in TokenOrNone
      /\ request.token # NoToken <=> request.is = "navigate"
      /\ request.is \in {"none", "clear", "navigate"}
      /\ token # NoToken => token # request.token
  BY DEF PathSteering, futureVars, FollowTypes, TokensOnce, Requests
<1>2. \A t \in TokenOrNone, ok \in BOOLEAN : Arrived(t, ok) \in Events /\ Arrived(t, ok).token = t
  BY DEF Arrived, Events
<1>3. \A t \in TokenOrNone, ok \in BOOLEAN :
        /\ <<Arrived(t, ok)>> \in Seq(Events) /\ TokensIn(<<Arrived(t, ok)>>) = {t}
        /\ Distinct(<<Arrived(t, ok)>>)
  BY <1>2, SingleEvent
<1>4. /\ << >> \in Seq(Events) /\ TokensIn(<< >>) = {} /\ Distinct(<< >>)
      /\ \A s \in Seq(Events) : << >> \o s = s /\ s \o << >> = s
  BY EmptyEvents
<1>5. /\ Aborted \in Seq(Events) /\ Distinct(Aborted)
      /\ TokensIn(Aborted) = IF token = NoToken THEN {} ELSE {token}
  BY <1>1, <1>3, <1>4 DEF Aborted
<1>6. /\ request.is = "none" <=> request = NoRequest
      /\ NoPath \notin 0..MaxWaypoints
  BY DEF NoRequest, NoPath, RequestsCurrent
<1>7. \/ request.is = "none" /\ token' = token /\ arrivals' = << >>
      \/ request.is = "none" /\ token' = NoToken /\ arrivals' = <<Arrived(token, TRUE)>>
      \/ request.is = "clear" /\ token' = NoToken /\ arrivals' = Aborted
      \/ /\ request.is = "navigate" /\ token' = NoToken
         /\ \E ok \in BOOLEAN : arrivals' = Aborted \o <<Arrived(request.token, ok)>>
      \/ request.is = "navigate" /\ token' = request.token /\ arrivals' = Aborted
  <2> DEFINE First(found) == IF request.is = "navigate" /\ found = NoPath
                             THEN <<Arrived(request.token, FALSE)>> ELSE << >>
             Now(found) == IF request = NoRequest THEN [token |-> token, path |-> path, events |-> << >>]
                           ELSE [token |-> IF found = NoPath THEN NoToken ELSE request.token,
                                 path |-> found, events |-> Aborted \o First(found)]
             Arrives(found) == Now(found).path # NoPath /\ steer = "stop" /\ Now(found).path = 0
  <2>1. PICK found \in IF request.is = "navigate" THEN 0..MaxWaypoints \cup {NoPath} ELSE {NoPath} :
          /\ token' = IF Arrives(found) THEN NoToken ELSE Now(found).token
          /\ arrivals' = arrivals \o Now(found).events
                       \o IF Arrives(found) THEN <<Arrived(Now(found).token, TRUE)>> ELSE << >>
    BY Zenon DEF PathSteering
  <2>2. CASE request.is = "none"
    <3>1. Now(found).token = token /\ Now(found).events = << >>
      BY <1>6, <2>2
    <3>2. CASE Arrives(found)
      <4>1. token' = NoToken /\ arrivals' = << >> \o << >> \o <<Arrived(token, TRUE)>>
        BY <1>1, <2>1, <3>1, <3>2
      <4> QED
        BY <1>1, <1>3, <1>4, <2>2, <4>1
    <3>3. CASE ~Arrives(found)
      <4>1. token' = token /\ arrivals' = << >> \o << >> \o << >>
        BY <1>1, <2>1, <3>1, <3>3
      <4> QED
        BY <1>4, <2>2, <4>1
    <3> QED
      BY <3>2, <3>3
  <2>3. CASE request.is = "clear"
    <3>1. Now(found).token = NoToken /\ Now(found).events = Aborted \o << >> /\ ~Arrives(found)
      BY <1>6, <2>1, <2>3
    <3>2. token' = NoToken /\ arrivals' = << >> \o (Aborted \o << >>) \o << >>
      BY <1>1, <2>1, <3>1
    <3> QED
      BY <1>4, <1>5, <2>3, <3>2
  <2>4. CASE request.is = "navigate" /\ found = NoPath
    <3>1. /\ Now(found).token = NoToken /\ ~Arrives(found)
          /\ Now(found).events = Aborted \o <<Arrived(request.token, FALSE)>>
      BY <1>6, <2>4
    <3>2. /\ token' = NoToken
          /\ arrivals' = << >> \o (Aborted \o <<Arrived(request.token, FALSE)>>) \o << >>
      BY <1>1, <2>1, <3>1
    <3>3. Aborted \o <<Arrived(request.token, FALSE)>> \in Seq(Events)
      <4> DEFINE s == <<Arrived(request.token, FALSE)>>
      <4>1. s \in Seq(Events)
        BY <1>1, <1>3
      <4> HIDE DEF s
      <4>2. Aborted \o s \in Seq(Events)
        BY <1>5, <4>1, TokensOfJoined
      <4> QED
        BY <4>2 DEF s
    <3> QED
      BY <1>4, <2>4, <3>2, <3>3
  <2>5. CASE request.is = "navigate" /\ found # NoPath
    <3>1. Now(found).token = request.token /\ Now(found).events = Aborted \o << >>
      BY <1>6, <2>5
    <3>2. CASE Arrives(found)
      <4>1. token' = NoToken /\ arrivals' = << >> \o (Aborted \o << >>) \o <<Arrived(request.token, TRUE)>>
        BY <1>1, <2>1, <3>1, <3>2
      <4> QED
        BY <1>4, <1>5, <2>5, <4>1
    <3>3. CASE ~Arrives(found)
      <4>1. token' = request.token /\ arrivals' = << >> \o (Aborted \o << >>) \o << >>
        BY <1>1, <2>1, <3>1, <3>3
      <4> QED
        BY <1>4, <1>5, <2>5, <4>1
    <3> QED
      BY <3>2, <3>3
  <2> QED
    BY <1>1, <2>2, <2>3, <2>4, <2>5
<1> DEFINE Result(left, made) ==
             /\ arrivals' = left \o made
             /\ TokensIn(left) \subseteq {token} /\ Distinct(left)
             /\ TokensIn(made) \subseteq {token, request.token} /\ Distinct(made)
             /\ TokensIn(left) \cap TokensIn(made) \subseteq {NoToken}
             /\ \/ token' = token /\ left = << >> /\ made = << >> /\ request.is = "none"
                \/ token' = NoToken
                \/ token' = request.token /\ made = << >> /\ request.is = "navigate"
             /\ \A t \in {token, request.token} \ {NoToken} :
                   t = token' \/ t \in TokensIn(arrivals')
<1>8. CASE request.is = "none" /\ token' = token /\ arrivals' = << >>
  <2>1. Result(<< >>, << >>)
    BY <1>1, <1>4, <1>8
  <2> QED
    BY <1>1, <1>4, <2>1 DEF Steered
<1>9. CASE request.is = "none" /\ token' = NoToken /\ arrivals' = <<Arrived(token, TRUE)>>
  <2>1. Result(<< >>, <<Arrived(token, TRUE)>>)
    BY <1>1, <1>3, <1>4, <1>9
  <2> QED
    BY <1>1, <1>3, <1>4, <2>1 DEF Steered
<1>10. CASE request.is = "clear" /\ token' = NoToken /\ arrivals' = Aborted
  <2>1. Result(Aborted, << >>)
    BY <1>1, <1>4, <1>5, <1>10
  <2> QED
    BY <1>1, <1>4, <1>5, <2>1 DEF Steered
<1>11. ASSUME NEW ok \in BOOLEAN, request.is = "navigate", token' = NoToken,
              arrivals' = Aborted \o <<Arrived(request.token, ok)>>
       PROVE  Steered
  <2>1. TokensIn(arrivals') = TokensIn(Aborted) \cup {request.token}
    <3> DEFINE s == <<Arrived(request.token, ok)>>
    <3>1. s \in Seq(Events) /\ TokensIn(s) = {request.token} /\ arrivals' = Aborted \o s
      BY <1>1, <1>3, <1>11
    <3> HIDE DEF s
    <3> QED
      BY <1>5, <3>1, TokensOfJoined
  <2>2. Result(Aborted, <<Arrived(request.token, ok)>>)
    BY <1>1, <1>3, <1>5, <1>11, <2>1
  <2> QED
    BY <1>1, <1>3, <1>5, <2>2 DEF Steered
<1>12. CASE request.is = "navigate" /\ token' = request.token /\ arrivals' = Aborted
  <2>1. Result(Aborted, << >>)
    BY <1>1, <1>4, <1>5, <1>12
  <2> QED
    BY <1>1, <1>4, <1>5, <2>1 DEF Steered
<1> QED
  BY <1>7, <1>8, <1>9, <1>10, <1>11, <1>12

LEMMA PathSteeringKeeps ==
    ASSUME TokenAssumption, FollowInv, PathSteering
    PROVE  FollowInv'
<1> USE DEF FollowInv
<1>1. /\ tick = "path" /\ tick' = "steer" /\ request' = NoRequest /\ awaited' = awaited /\ at' = at
      /\ subscribed' = subscribed /\ heard' = heard
      /\ NoRequest \in Requests /\ NoRequest.token = NoToken /\ NoRequest.is = "none"
      /\ token \in TokenOrNone /\ request.token \in TokenOrNone
  BY PathSteeringSteers DEF Steered, NoRequest, Requests, TokenOrNone, FollowTypes
<1>2. PICK left, made \in Seq(Events) :
          /\ arrivals' = left \o made
          /\ TokensIn(left) \subseteq {token} /\ Distinct(left)
          /\ TokensIn(made) \subseteq {token, request.token} /\ Distinct(made)
          /\ TokensIn(left) \cap TokensIn(made) \subseteq {NoToken}
          /\ \/ token' = token /\ left = << >> /\ made = << >> /\ request.is = "none"
             \/ token' = NoToken
             \/ token' = request.token /\ made = << >> /\ request.is = "navigate"
          /\ \A t \in {token, request.token} \ {NoToken} :
                t = token' \/ t \in TokensIn(arrivals')
  BY PathSteeringSteers, Zenon DEF Steered
<1>3. /\ arrivals' \in Seq(Events) /\ Distinct(arrivals')
      /\ TokensIn(arrivals') = TokensIn(left) \cup TokensIn(made)
  <2>1. Apart(left, TokensIn(made))
    BY <1>2, TokensOfSequence DEF Apart
  <2> QED
    BY <1>2, <2>1, TokensOfJoined
<1>4. token' \in TokenOrNone /\ token' \in {token, request.token, NoToken}
  BY <1>1, <1>2 DEF TokenOrNone
<1>5. Apart(arrivals', {NoToken, token'})
  <2>1. ASSUME NEW i \in DOMAIN arrivals', arrivals'[i].token # NoToken, arrivals'[i].token = token'
        PROVE  FALSE
    <3>1. token' \in TokensIn(left) \cup TokensIn(made)
      BY <1>3, <2>1, TokensOfSequence
    <3>2. CASE token' = token /\ left = << >> /\ made = << >>
      BY <3>1, <3>2, EmptyEvents
    <3>3. CASE token' = request.token /\ made = << >>
      BY <1>2, <2>1, <3>1, <3>3, EmptyEvents DEF TokensOnce
    <3> QED
      BY <1>2, <2>1, <3>2, <3>3
  <2> QED
    BY <2>1 DEF Apart
<1>6. FollowTypes'
  BY <1>1, <1>3, <1>4 DEF FollowTypes
<1>7. TokensOnce'
  <2>1. Apart(heard, {NoToken, token'} \cup TokensIn(arrivals'))
    <3>1. TokensIn(arrivals') \subseteq {token, request.token}
      BY <1>2, <1>3
    <3> QED
      BY <1>4, <3>1 DEF TokensOnce, Apart
  <2> QED
    BY <1>1, <1>3, <1>5, <2>1 DEF TokensOnce
<1>8. WaitsAreMet'
  <2>1. arrivals = << >> /\ TokensIn(<< >>) = {}
    BY <1>1, EmptyEvents DEF FollowTypes
  <2>2. Somewhere(awaited) /\ awaited # NoToken =>
            awaited = token' \/ awaited \in TokensIn(arrivals') \/ awaited \in TokensIn(heard)
    BY <1>2, <2>1 DEF Somewhere
  <2> QED
    BY <1>1, <2>2 DEF WaitsAreMet, Somewhere
<1>9. RequestsCurrent'
  BY <1>1, <1>2 DEF RequestsCurrent
<1> QED
  BY <1>6, <1>7, <1>8, <1>9

\* Events reach the task in the order in which they were posted, if it is subscribed.
LEMMA DeliverKeeps ==
    ASSUME TokenAssumption, FollowInv, DeliverArrivals
    PROVE  FollowInv'
<1> USE DEF FollowInv
<1>1. PICK destroyed \in {<< >>, <<Destroyed>>} :
        heard' = heard \o ((IF subscribed THEN arrivals ELSE << >>)
                           \o IF activity \in {"walk", "haul"} /\ at # "done" THEN destroyed ELSE << >>)
  BY Zenon DEF DeliverArrivals
<1> DEFINE mine == IF subscribed THEN arrivals ELSE << >>
           other == IF activity \in {"walk", "haul"} /\ at # "done" THEN destroyed ELSE << >>
<1>2. /\ tick = "deliver" /\ tick' = "activity" /\ arrivals' = << >> /\ at' = at /\ awaited' = awaited
      /\ subscribed' = subscribed /\ request' = request /\ token' = token
      /\ heard' = heard \o (mine \o other) /\ heard \in Seq(Events) /\ arrivals \in Seq(Events)
  BY <1>1 DEF DeliverArrivals, pathVars, FollowTypes
<1>3. /\ other \in Seq(Events) /\ TokensIn(other) \subseteq {NoToken} /\ Distinct(other)
      /\ \A T : Apart(other, T)
  <2>1. Destroyed \in Events /\ Destroyed.token = NoToken
    BY DEF Destroyed, Events, TokenOrNone
  <2>2. /\ <<Destroyed>> \in Seq(Events) /\ TokensIn(<<Destroyed>>) = {NoToken}
        /\ Distinct(<<Destroyed>>) /\ \A T : Apart(<<Destroyed>>, T)
    BY <2>1, SingleEvent
  <2>3. other = << >> \/ other = <<Destroyed>>
    OBVIOUS
  <2> QED
    BY <2>2, <2>3, EmptyEvents
<1>4. /\ mine \in Seq(Events) /\ TokensIn(mine) \subseteq TokensIn(arrivals) /\ Distinct(mine)
      /\ Apart(mine, {request.token, token})
      /\ subscribed => mine = arrivals
  BY <1>2, EmptyEvents DEF TokensOnce
<1> HIDE DEF mine, other
<1>5. /\ mine \o other \in Seq(Events) /\ Distinct(mine \o other)
      /\ TokensIn(mine \o other) = TokensIn(mine) \cup TokensIn(other)
      /\ Apart(mine \o other, {request.token, token})
  <2>1. Apart(mine, TokensIn(other))
    BY <1>3 DEF Apart
  <2> QED
    BY <1>3, <1>4, <2>1, TokensOfJoined
<1> DEFINE news == mine \o other
<1>6. /\ heard' \in Seq(Events) /\ Distinct(heard') /\ Apart(heard', {request.token, token})
      /\ TokensIn(heard') = TokensIn(heard) \cup TokensIn(news)
  <2> HIDE DEF news
  <2>1. news \in Seq(Events) /\ Distinct(news) /\ Apart(news, {request.token, token})
        /\ TokensIn(news) \subseteq TokensIn(arrivals) \cup {NoToken} /\ heard' = heard \o news
    BY <1>2, <1>3, <1>4, <1>5 DEF news
  <2>2. /\ Apart(heard, TokensIn(news)) /\ Apart(heard, {request.token, token})
        /\ Distinct(heard)
    BY <2>1 DEF TokensOnce, Apart
  <2> QED
    BY <1>2, <2>1, <2>2, TokensOfJoined
<1>7. FollowTypes'
  BY <1>2, <1>6, EmptyEvents DEF FollowTypes
<1>8. TokensOnce'
  BY <1>2, <1>6, EmptyEvents DEF TokensOnce
<1>9. WaitsAreMet'
  BY <1>2, <1>4, <1>5, <1>6 DEF WaitsAreMet, Somewhere
<1>10. RequestsCurrent'
  BY <1>2 DEF RequestsCurrent
<1> QED
  BY <1>7, <1>8, <1>9, <1>10

-----------------------------------------------------------------------------
(* Theorems *)

\* A token is in one place; what is asked for is what is waited for; and whoever waits has
\* a token that is underway to it.
THEOREM FollowingInvariant ==
    ASSUME TokenAssumption
    PROVE  FollowSpec => []FollowInv
<1>1. FollowInit => FollowInv
  BY InitHolds
<1>2. FollowInv /\ [FollowNext]_followVars => FollowInv'
  <2> SUFFICES ASSUME FollowInv, [FollowNext]_followVars PROVE FollowInv'
    OBVIOUS
  <2>1. ASSUME NEW new \in Activities, Replace(new) PROVE FollowInv'
    BY <2>1, ReplaceKeeps
  <2>2. CASE FinishWalk
    BY <2>2, FinishKeeps
  <2>3. CASE KeepOn \/ Awaits \/ Steering \/ UNCHANGED followVars
    BY <2>3, TurnKeeps
  <2>4. CASE StartGoing
    BY <2>4, StartGoingKeeps
  <2>5. CASE Loiter
    BY <2>5, LoiterKeeps
  <2>6. CASE ConsumeEvent
    BY <2>6, ConsumeEventKeeps
  <2>7. CASE WaitIsOver
    BY <2>7, WaitIsOverKeeps
  <2>8. CASE WorkIsOver
    BY <2>8, WorkIsOverKeeps
  <2>9. CASE PathSteering
    BY <2>9, PathSteeringKeeps
  <2>10. CASE DeliverArrivals
    BY <2>10, DeliverKeeps
  <2> QED
    BY <2>1, <2>2, <2>3, <2>4, <2>5, <2>6, <2>7, <2>8, <2>9, <2>10, Zenon DEF FollowNext
<1> QED
  BY <1>1, <1>2, PTL DEF FollowSpec

\* What is in one place is counted once.
LEMMA OneHolder ==
    ASSUME FollowInv, awaited # NoToken
    PROVE  Cardinality(Holders(awaited)) = 1
<1> USE DEF FollowInv
<1> DEFINE H == Holders(awaited)
<1>1. heard \in Seq(Events) /\ arrivals \in Seq(Events) /\ Somewhere(awaited)
  BY DEF FollowTypes, WaitsAreMet
<1>2. /\ \A t : t \in TokensIn(heard) <=> \E i \in DOMAIN heard : heard[i].token = t
      /\ \A t : t \in TokensIn(arrivals) <=> \E i \in DOMAIN arrivals : arrivals[i].token = t
  BY <1>1, TokensOfSequence
<1>3. ASSUME NEW p PROVE p \in H <=> \/ p = <<"request", 1>> /\ awaited = request.token
                                     \/ p = <<"current", 1>> /\ awaited = token
                                     \/ \E i \in DOMAIN arrivals : p = <<"arrivals", i>> /\ arrivals[i].token = awaited
                                     \/ \E i \in DOMAIN heard : p = <<"heard", i>> /\ heard[i].token = awaited
  BY DEF Holders
<1> HIDE DEF H
<1>4. \E p : p \in H
  BY <1>1, <1>2, <1>3 DEF Somewhere
<1>5. ASSUME NEW p \in H, NEW q \in H PROVE p = q
  <2>1. CASE awaited = request.token
    BY <1>2, <1>3, <1>5, <2>1 DEF TokensOnce, Apart
  <2>2. CASE awaited = token
    BY <1>2, <1>3, <1>5, <2>2 DEF TokensOnce, Apart
  <2>3. CASE awaited \notin {request.token, token}
    BY <1>2, <1>3, <1>5, <2>3 DEF TokensOnce, Apart, Distinct
  <2> QED
    BY <2>1, <2>2, <2>3
<1>6. PICK p : H = {p}
  BY <1>4, <1>5
<1> QED
  BY <1>6, FS_Singleton DEF H

\* Whoever waits to arrive hears of it once, and no path is followed that nobody waits for
\* (path/system.rs, activity/subactivity/go_to.rs), whatever is replaced, cleared or
\* finished in between.
THEOREM WalksAwaited ==
    ASSUME TokenAssumption
    PROVE  FollowSpec => []WalksAreAwaited
<1>1. FollowInv => WalksAreAwaited
  BY OneHolder DEF FollowInv, WaitsAreMet, RequestsCurrent, WalksAreAwaited
<1> QED
  BY <1>1, FollowingInvariant, PTL

-----------------------------------------------------------------------------
(* The senses *)

Places == [Being -> Spot \cup {Nowhere}]
Memories == [Senser -> [Being -> 0 .. SENSE_DECAY]]

SensesTypes ==
    /\ moment_of_tick \in {"senses", "systems", "text", "updates"}
    /\ beat \in 0 .. SpatialPeriod - 1
    /\ extant \subseteq born /\ born \subseteq Being /\ lifted \subseteq Being
    /\ where \in Places /\ positions \in Places
    /\ newly_created \subseteq Being
    /\ sensed \in Memories /\ unseen \in Memories
    /\ lag \in [Being -> Nat]

\* Only what is has a transform.
TransformsAreOfExtant == \A e \in Being : where[e] # Nowhere => e \in extant

\* A cached position has been wrong since the last rebuilding at most.
LagLimit ==
    IF moment_of_tick \in {"senses", "systems"} /\ beat = 0 THEN SpatialPeriod ELSE beat
LagBounded == \A e \in Being : lag[e] <= LagLimit

\* Who was never without a transform has one, and is known or new.
KnownOrNew ==
    \A e \in Body \cap extant :
       e \notin lifted => /\ where[e] # Nowhere
                          /\ positions[e] # Nowhere \/ e \in newly_created

SensesInv ==
    SensesTypes /\ TransformsAreOfExtant /\ LagBounded /\ KnownOrNew
    /\ UpdateMissesNobody /\ MemoriesFade

\* A rebuilding leaves no position wrong, and limits the next ones to the ticks since.
LEMMA LagsLimited ==
    ASSUME SensesInv, SpatialPeriod \in Nat \ {0}
    PROVE  /\ LagLimit \in Nat /\ LagLimit <= SpatialPeriod
           /\ \A e \in Being : lag[e] \in Nat /\ lag[e] <= LagLimit
  BY DEF SensesInv, SensesTypes, LagBounded, LagLimit

\* What a query takes in is where it is, and what was known stays so.
LEMMA TakesInNew ==
    ASSUME SensesTypes, Nowhere \notin Spot
    PROVE  /\ TakenIn \in Places
           /\ \A e \in Being : positions[e] # Nowhere => TakenIn[e] = positions[e]
           /\ \A e \in newly_created \cap Body : positions[e] = Nowhere => TakenIn[e] = where[e]
  BY DEF SensesTypes, Places, TakenIn, TakesIn

\* The initial state satisfies the invariant.
LEMMA SensesInitially == SensesInit => SensesInv
<1> SUFFICES ASSUME SensesInit PROVE SensesInv
  OBVIOUS
<1> USE SensesAssumption
<1>1. beat \in 0 .. SpatialPeriod - 1
  <2>1. 1 % SpatialPeriod \in 0 .. SpatialPeriod - 1
    OBVIOUS
  <2> QED
    BY <2>1 DEF SensesInit
<1>2. SensesTypes
  BY <1>1 DEF SensesInit, SensesTypes, Places, Memories
<1>3. TransformsAreOfExtant /\ KnownOrNew /\ UpdateMissesNobody /\ MemoriesFade
  BY DEF SensesInit, TransformsAreOfExtant, KnownOrNew, UpdateMissesNobody, MemoriesFade
<1>4. LagBounded
  BY <1>1 DEF SensesInit, LagBounded, LagLimit
<1> QED
  BY <1>2, <1>3, <1>4 DEF SensesInv

\* Every step keeps the invariant.
LEMMA SensesStep == SensesInv /\ [SensesNext]_sensesvars => SensesInv'
<1> SUFFICES ASSUME SensesInv, [SensesNext]_sensesvars PROVE SensesInv'
  OBVIOUS
<1> USE SensesAssumption
<1>1. CASE Query
  <2>1. SensesTypes'
    BY <1>1, TakesInNew DEF Query, SensesInv, SensesTypes, livesvars
  <2>2. KnownOrNew'
    BY <1>1, TakesInNew DEF Query, SensesInv, SensesTypes, livesvars, KnownOrNew
  <2>3. (TransformsAreOfExtant /\ LagBounded /\ UpdateMissesNobody /\ MemoriesFade)'
    BY <1>1 DEF Query, SensesInv, livesvars, TransformsAreOfExtant, LagBounded, LagLimit,
                UpdateMissesNobody, MemoriesFade
  <2> QED
    BY <2>1, <2>2, <2>3 DEF SensesInv
<1>2. CASE SensesSystem
  <2> USE <1>2
  <2>1. PICK seen \in [Senser -> SUBSET Being] :
          /\ sensed' = [s \in Senser |-> IF s \in Perceiving THEN Sense(s, seen[s]) ELSE sensed[s]]
          /\ unseen' = [s \in Senser |->
                          IF s \notin Perceiving THEN unseen[s]
                          ELSE [e \in Being |-> IF e \in seen[s] THEN 0
                                                ELSE IF unseen[s][e] < SENSE_DECAY THEN unseen[s][e] + 1
                                                ELSE SENSE_DECAY]]
    BY DEF SensesSystem
  <2>2. \/ UNCHANGED spatialvars /\ Perceiving = {}
        \/ positions' = TakenIn /\ newly_created' = {}
    BY DEF SensesSystem
  <2>3. (sensed \in Memories /\ unseen \in Memories)'
    <3>1. \A s \in Senser : Remembered(s) \in [Being -> 0 .. SENSE_DECAY]
      BY DEF SensesInv, SensesTypes, Memories, Remembered, Less
    <3>2. \A s \in Senser : Sense(s, seen[s]) \in [Being -> 0 .. SENSE_DECAY]
      BY <3>1 DEF Sense
    <3>3. sensed' \in Memories
      BY <2>1, <3>2 DEF SensesInv, SensesTypes, Memories
    <3>4. unseen' \in Memories
      BY <2>1 DEF SensesInv, SensesTypes, Memories
    <3> QED
      BY <3>3, <3>4
  <2>4. SensesTypes'
    <3>1. (positions \in Places /\ newly_created \subseteq Being)'
      BY <2>2, TakesInNew DEF SensesInv, SensesTypes, spatialvars
    <3> QED
      BY <2>3, <3>1 DEF SensesSystem, SensesInv, SensesTypes, livesvars
  <2>5. (TransformsAreOfExtant /\ LagBounded)'
    BY DEF SensesSystem, SensesInv, livesvars, TransformsAreOfExtant, LagBounded, LagLimit
  <2>6. KnownOrNew'
    BY <2>2, TakesInNew
       DEF SensesSystem, SensesInv, SensesTypes, livesvars, spatialvars, KnownOrNew
  <2>7. UpdateMissesNobody'
    BY <2>2 DEF SensesSystem, livesvars, UpdateMissesNobody, Perceiving
  <2>8. MemoriesFade'
    <3> SUFFICES ASSUME NEW s \in Senser, NEW e \in Being, sensed'[s][e] > 0
                 PROVE  sensed'[s][e] + unseen'[s][e] = SENSE_DECAY
      BY DEF MemoriesFade
    <3>1. /\ sensed[s][e] \in 0 .. SENSE_DECAY /\ unseen[s][e] \in 0 .. SENSE_DECAY
          /\ sensed[s][e] > 0 => sensed[s][e] + unseen[s][e] = SENSE_DECAY
      BY DEF SensesInv, SensesTypes, Memories, MemoriesFade
    <3>2. CASE s \notin Perceiving
      BY <2>1, <3>1, <3>2
    <3>3. CASE s \in Perceiving /\ e \in seen[s]
      BY <2>1, <3>3 DEF Sense
    <3>4. CASE s \in Perceiving /\ e \notin seen[s]
      <4>1. sensed'[s][e] = Remembered(s)[e]
        BY <2>1, <3>4 DEF Sense
      <4>2. Remembered(s)[e] = Less(sensed[s][e]) /\ sensed[s][e] # 1
        BY <4>1 DEF Remembered
      <4>3. unseen'[s][e] = IF unseen[s][e] < SENSE_DECAY THEN unseen[s][e] + 1 ELSE SENSE_DECAY
        BY <2>1, <3>4
      <4> QED
        BY <3>1, <4>1, <4>2, <4>3 DEF Less
    <3> QED
      BY <3>2, <3>3, <3>4
  <2> QED
    BY <2>4, <2>5, <2>6, <2>7, <2>8 DEF SensesInv
<1>3. CASE SpatialSystem
  <2> USE <1>3
  <2>1. /\ Rebuilt \in Places
        /\ \A e \in Being : Right(e, Rebuilt[e])
        /\ \A e \in Body : Rebuilt[e] = where[e]
    BY DEF SensesInv, SensesTypes, Places, Rebuilt, Right
  <2>2. \/ beat = 0 /\ positions' = Rebuilt /\ newly_created' = {}
        \/ beat # 0 /\ UNCHANGED spatialvars
    BY DEF SpatialSystem
  <2>3. /\ lag' \in [Being -> Nat]
        /\ \A e \in Being : lag'[e] <= lag[e] /\ (beat = 0 => lag'[e] = 0)
    BY <2>1, <2>2 DEF SpatialSystem, SensesInv, SensesTypes
  <2>4. SensesTypes'
    BY <2>1, <2>2, <2>3 DEF SpatialSystem, SensesInv, SensesTypes, livesvars, spatialvars
  <2>5. LagBounded'
    <3>1. beat' = beat /\ moment_of_tick' = "text"
      BY DEF SpatialSystem
    <3>2. LagLimit' = beat
      BY <3>1 DEF LagLimit
    <3>3. beat # 0 => LagLimit = beat
      BY DEF LagLimit
    <3> QED
      BY <2>3, <3>2, <3>3, LagsLimited DEF LagBounded, SensesInv, SensesTypes
  <2>6. KnownOrNew'
    BY <2>1, <2>2 DEF SpatialSystem, SensesInv, SensesTypes, livesvars, spatialvars, KnownOrNew
  <2>7. (TransformsAreOfExtant /\ UpdateMissesNobody /\ MemoriesFade)'
    BY DEF SpatialSystem, SensesInv, livesvars, TransformsAreOfExtant, UpdateMissesNobody,
           MemoriesFade
  <2> QED
    BY <2>4, <2>5, <2>6, <2>7 DEF SensesInv
<1>4. CASE DisplayTextSystem
  <2> USE <1>4
  <2>1. SensesTypes'
    BY TakesInNew DEF DisplayTextSystem, SensesInv, SensesTypes, livesvars
  <2>2. KnownOrNew'
    BY TakesInNew DEF DisplayTextSystem, SensesInv, SensesTypes, livesvars, KnownOrNew
  <2>3. (TransformsAreOfExtant /\ LagBounded /\ UpdateMissesNobody /\ MemoriesFade)'
    BY DEF DisplayTextSystem, SensesInv, livesvars, TransformsAreOfExtant, LagBounded, LagLimit,
           UpdateMissesNobody, MemoriesFade
  <2> QED
    BY <2>1, <2>2, <2>3 DEF SensesInv
<1>5. CASE NextTick
  <2> USE <1>5
  <2>1. /\ beat \in 0 .. SpatialPeriod - 1 /\ lag \in [Being -> Nat]
        /\ \A e \in Being : lag[e] <= beat
    BY DEF NextTick, SensesInv, SensesTypes, LagBounded, LagLimit
  <2>2. beat' \in 0 .. SpatialPeriod - 1 /\ LagLimit' = beat + 1
    <3>1. CASE beat + 1 = SpatialPeriod
      <4>1. beat' = 0
        BY <3>1, SpatialPeriod % SpatialPeriod = 0 DEF NextTick
      <4> QED
        BY <3>1, <4>1 DEF NextTick, LagLimit
    <3>2. CASE beat + 1 < SpatialPeriod
      <4>1. (beat + 1) % SpatialPeriod = beat + 1
        BY <2>1, <3>2
      <4> QED
        BY <2>1, <3>2, <4>1 DEF NextTick, LagLimit
    <3> QED
      BY <2>1, <3>1, <3>2
  <2>3. lag' \in [Being -> Nat] /\ \A e \in Being : lag'[e] <= beat + 1
    BY <2>1 DEF NextTick
  <2>4. SensesTypes'
    BY <2>2, <2>3 DEF NextTick, SensesInv, SensesTypes, livesvars, spatialvars
  <2>5. LagBounded'
    BY <2>2, <2>3 DEF LagBounded
  <2>6. (TransformsAreOfExtant /\ KnownOrNew /\ UpdateMissesNobody /\ MemoriesFade)'
    BY DEF NextTick, SensesInv, livesvars, spatialvars, TransformsAreOfExtant, KnownOrNew,
           UpdateMissesNobody, MemoriesFade
  <2> QED
    BY <2>4, <2>5, <2>6 DEF SensesInv
<1>6. ASSUME NEW e \in Being, NEW p \in Spot, MoveBody(e, p) \/ GainTransform(e, p)
      PROVE  SensesInv'
  <2> USE <1>6
  <2>1. /\ where' = [where EXCEPT ![e] = p] /\ e \in extant
        /\ UNCHANGED <<moment_of_tick, beat, born, extant, spatialvars, sensed, lag, lifted, unseen>>
    BY DEF MoveBody, GainTransform, SensesInv, TransformsAreOfExtant
  <2>2. SensesTypes'
    BY <2>1 DEF SensesInv, SensesTypes, Places, spatialvars
  <2>3. (TransformsAreOfExtant /\ KnownOrNew)'
    BY <2>1 DEF SensesInv, SensesTypes, Places, spatialvars, TransformsAreOfExtant, KnownOrNew
  <2>4. UpdateMissesNobody'
    <3>1. moment_of_tick = "systems" => Perceiving' = Perceiving
      BY <2>1 DEF MoveBody, GainTransform, SensesInv, SensesTypes, Places, Perceiving
    <3> QED
      BY <2>1, <3>1 DEF SensesInv, spatialvars, UpdateMissesNobody
  <2>5. (LagBounded /\ MemoriesFade)'
    BY <2>1 DEF SensesInv, LagBounded, LagLimit, MemoriesFade
  <2> QED
    BY <2>2, <2>3, <2>4, <2>5 DEF SensesInv
<1>7. ASSUME NEW e \in Being, NEW p \in Spot \cup {Nowhere}, Appear(e, p)
      PROVE  SensesInv'
  <2> USE <1>7
  <2>1. SensesTypes'
    BY DEF Appear, SensesInv, SensesTypes, Places
  <2>2. (TransformsAreOfExtant /\ KnownOrNew)'
    BY DEF Appear, SensesInv, SensesTypes, Places, TransformsAreOfExtant, KnownOrNew
  <2>3. (LagBounded /\ UpdateMissesNobody /\ MemoriesFade)'
    BY DEF Appear, SensesInv, LagBounded, LagLimit, UpdateMissesNobody, MemoriesFade
  <2> QED
    BY <2>1, <2>2, <2>3 DEF SensesInv
<1>8. ASSUME NEW e \in Being, LoseTransform(e) \/ Vanish(e)
      PROVE  SensesInv'
  <2> USE <1>8
  <2>1. SensesTypes'
    BY DEF LoseTransform, Vanish, SensesInv, SensesTypes, Places, spatialvars
  <2>2. (TransformsAreOfExtant /\ KnownOrNew)'
    BY DEF LoseTransform, Vanish, SensesInv, SensesTypes, Places, spatialvars,
           TransformsAreOfExtant, KnownOrNew
  <2>3. (LagBounded /\ UpdateMissesNobody /\ MemoriesFade)'
    BY DEF LoseTransform, Vanish, SensesInv, LagBounded, LagLimit, UpdateMissesNobody, MemoriesFade
  <2> QED
    BY <2>1, <2>2, <2>3 DEF SensesInv
<1>9. CASE UNCHANGED sensesvars
  BY <1>9 DEF sensesvars, livesvars, spatialvars, SensesInv, SensesTypes, TransformsAreOfExtant,
              LagBounded, LagLimit, KnownOrNew, UpdateMissesNobody, Perceiving, MemoriesFade
<1> QED
  BY <1>1, <1>2, <1>3, <1>4, <1>5, <1>6, <1>7, <1>8, <1>9 DEF SensesNext

\* The inductive invariant of the senses (spatial.rs, senses/system.rs).
THEOREM SensesInvariant == SensesSpec => []SensesInv
  BY SensesInitially, SensesStep, PTL DEF SensesSpec

\* What a query believes of a position was so a few ticks ago, nobody who has a place is
\* missed, and what is remembered was sensed within its decay (spatial.rs:58, 72, 135,
\* senses/system.rs:14); for any entities, places, period and decay.
THEOREM SensesKept == SensesSpec => []SensesAreKept
<1>1. SensesInv => SensesAreKept
  <2> SUFFICES ASSUME SensesInv PROVE SensesAreKept
    OBVIOUS
  <2>1. IndexIsRecent
    BY LagsLimited, SensesAssumption DEF IndexIsRecent
  <2> QED
    BY <2>1 DEF SensesInv, KnownOrNew, NobodyIsMissed, SensesAreKept
<1> QED
  BY <1>1, SensesInvariant, PTL

-----------------------------------------------------------------------------
(* The context map of a body that moves *)

DesireMaps == [Directions -> Nat]

\* Of some first directions there is one of least value, and one that is the last of the
\* highest.
FirstLeast(values, n) == \E d \in 0 .. n : \A e \in 0 .. n : values[d] <= values[e]
LastHighest(values, n) ==
    \E d \in 0 .. n : \A e \in 0 .. n : values[e] <= values[d] /\ (values[e] = values[d] => e <= d)

LEMMA OneMoreDirection ==
    ASSUME NEW values \in DesireMaps, NEW n \in 0 .. 6,
           FirstLeast(values, n), LastHighest(values, n)
    PROVE  FirstLeast(values, n + 1) /\ LastHighest(values, n + 1)
<1>1. \A d \in 0 .. n + 1 : values[d] \in Nat
  BY DEF DesireMaps, Directions
<1>2. \A d \in 0 .. n + 1 : d \in 0 .. n \/ d = n + 1
  OBVIOUS
<1>3. FirstLeast(values, n + 1)
  <2>1. PICK d \in 0 .. n : \A e \in 0 .. n : values[d] <= values[e]
    BY DEF FirstLeast
  <2>2. CASE values[d] <= values[n + 1]
    BY <1>2, <2>1, <2>2 DEF FirstLeast
  <2>3. CASE values[n + 1] < values[d]
    <3>1. \A e \in 0 .. n + 1 : values[n + 1] <= values[e]
      BY <1>1, <1>2, <2>1, <2>3
    <3> QED
      BY <3>1 DEF FirstLeast
  <2> QED
    BY <1>1, <2>2, <2>3
<1>4. LastHighest(values, n + 1)
  <2>1. PICK d \in 0 .. n :
            \A e \in 0 .. n : values[e] <= values[d] /\ (values[e] = values[d] => e <= d)
    BY DEF LastHighest
  <2>2. CASE values[n + 1] < values[d]
    BY <1>1, <1>2, <2>1, <2>2 DEF LastHighest
  <2>3. CASE values[d] <= values[n + 1]
    <3>1. \A e \in 0 .. n + 1 :
             values[e] <= values[n + 1] /\ (values[e] = values[n + 1] => e <= n + 1)
      BY <1>1, <1>2, <2>1, <2>3
    <3> QED
      BY <3>1 DEF LastHighest
  <2> QED
    BY <1>1, <2>2, <2>3
<1> QED
  BY <1>3, <1>4

LEMMA DirectionsHaveExtremes ==
    ASSUME NEW values \in DesireMaps
    PROVE  FirstLeast(values, 7) /\ LastHighest(values, 7)
<1>1. FirstLeast(values, 0) /\ LastHighest(values, 0)
  BY DEF FirstLeast, LastHighest, DesireMaps, Directions
<1>2. FirstLeast(values, 1) /\ LastHighest(values, 1)
  BY <1>1, 0 + 1 = 1, OneMoreDirection
<1>3. FirstLeast(values, 2) /\ LastHighest(values, 2)
  BY <1>2, 1 + 1 = 2, OneMoreDirection
<1>4. FirstLeast(values, 3) /\ LastHighest(values, 3)
  BY <1>3, 2 + 1 = 3, OneMoreDirection
<1>5. FirstLeast(values, 4) /\ LastHighest(values, 4)
  BY <1>4, 3 + 1 = 4, OneMoreDirection
<1>6. FirstLeast(values, 5) /\ LastHighest(values, 5)
  BY <1>5, 4 + 1 = 5, OneMoreDirection
<1>7. FirstLeast(values, 6) /\ LastHighest(values, 6)
  BY <1>6, 5 + 1 = 6, OneMoreDirection
<1> QED
  BY <1>7, 6 + 1 = 7, OneMoreDirection

\* The least value of a map is that of a direction, and of no direction more.
LEMMA LeastIsLeast ==
    ASSUME NEW values \in DesireMaps
    PROVE  /\ Least(values) \in Nat
           /\ \E d \in Directions : values[d] = Least(values)
           /\ \A d \in Directions : Least(values) <= values[d]
<1>1. PICK d \in Directions : \A e \in Directions : values[d] <= values[e]
  BY DirectionsHaveExtremes DEF FirstLeast, Directions
<1>2. \E m \in {values[e] : e \in Directions} : \A e \in Directions : m <= values[e]
  BY <1>1
<1>3. /\ Least(values) \in {values[e] : e \in Directions}
      /\ \A e \in Directions : Least(values) <= values[e]
  BY <1>2 DEF Least
<1> QED
  BY <1>3 DEF DesireMaps

\* The best direction has a value as high as any.
LEMMA BestIsBest ==
    ASSUME NEW values \in DesireMaps
    PROVE  /\ Best(values) \in Directions
           /\ \A d \in Directions : values[d] <= values[Best(values)]
<1>1. \E d \in Directions :
         \A e \in Directions : values[e] <= values[d] /\ (values[e] = values[d] => e <= d)
  BY DirectionsHaveExtremes DEF LastHighest, Directions
<1> QED
  BY <1>1 DEF Best

-----------------------------------------------------------------------------
(* Where a body comes to be *)

MotionTypes ==
    /\ system \in {"steering", "movement", "physics", "updates"}
    /\ solid \subseteq (0 .. Wide - 1) \X (0 .. High - 2)
    /\ x \in 0 .. 2 * (Wide - 1)
    /\ behaviour \in {Halt} \cup [goal : Goals, speed : Speeds]
    /\ interest \in DesireMaps /\ danger \in DesireMaps
    /\ calm \in Nat

\* How many ticks it takes at most until the body stands: it falls through the air, or
\* drops two blocks at once out of others, or is lifted up to the next air.
TicksLeft(h, l) ==
    IF AllAir(h, l) THEN IF AllAir(h, l - 1) THEN l ELSE 0
    ELSE IF AllAir(h, l - 1) THEN l + 1
    ELSE IF AllAir(h, l + 1) THEN 1 ELSE High - 1 - l

SettlesInTime == Settled \/ calm + TicksLeft(x, z) <= High

MotionInv == MotionTypes /\ StaysInWorld /\ SettlesInTime /\ HeadsForSafety

\* There is air only in the world, and on top of it everywhere.
LEMMA AirInWorld ==
    ASSUME MotionTypes
    PROVE  /\ \A h, l : AllAir(h, l) => l \in 0 .. High - 1
           /\ \A h : AllAir(h, High - 1)
  BY MotionAssumption DEF MotionTypes, AllAir, Loaded

\* Where the physics puts the body.
Dropped(h, l) == IF AllAir(h, l - 1) THEN Resolved(h, l) - 1 ELSE Resolved(h, l)

\* Each tick the body comes nearer to standing.
LEMMA DropsTowardsGround ==
    ASSUME MotionTypes, NEW h, NEW l \in -1 .. High - 1
    PROVE  /\ Dropped(h, l) \in -1 .. High - 1
           /\ TicksLeft(h, l) \in 0 .. High
           /\ TicksLeft(h, l) = 0 <=> AllAir(h, l) /\ ~AllAir(h, l - 1)
           /\ TicksLeft(h, l) = 0 => Dropped(h, l) = l
           /\ TicksLeft(h, l) # 0 => TicksLeft(h, Dropped(h, l)) < TicksLeft(h, l)
<1> USE MotionAssumption
<1>1. /\ \A k : AllAir(h, k) => k \in 0 .. High - 1
      /\ AllAir(h, High - 1)
  BY AirInWorld
<1>2. CASE AllAir(h, l) /\ AllAir(h, l - 1)
  <2>1. l \in 1 .. High - 1 /\ Dropped(h, l) = l - 1
    BY <1>1, <1>2 DEF Dropped, Resolved
  <2> QED
    BY <1>2, <2>1 DEF TicksLeft
<1>3. CASE AllAir(h, l) /\ ~AllAir(h, l - 1)
  <2>1. Dropped(h, l) = l
    BY <1>3 DEF Dropped, Resolved
  <2> QED
    BY <1>3, <2>1 DEF TicksLeft
<1>4. CASE ~AllAir(h, l) /\ AllAir(h, l - 1)
  <2>1. l # High - 1 /\ l \in 1 .. High - 2 /\ Dropped(h, l) = l - 2
    BY <1>1, <1>4 DEF Dropped, Resolved
  <2>2. (l - 2) + 1 = l - 1
    BY <2>1
  <2>3. TicksLeft(h, l - 2) \in Int /\ TicksLeft(h, l - 2) <= l
    BY <1>1, <1>4, <2>1, <2>2 DEF TicksLeft
  <2> QED
    BY <1>4, <2>1, <2>3 DEF TicksLeft
<1>5. CASE ~AllAir(h, l) /\ ~AllAir(h, l - 1)
  <2>1. l # High - 1 /\ l \in -1 .. High - 2 /\ Dropped(h, l) = l + 1
    BY <1>1, <1>5 DEF Dropped, Resolved
  <2>2. TicksLeft(h, l) = IF AllAir(h, l + 1) THEN 1 ELSE High - 1 - l
    BY <1>5 DEF TicksLeft
  <2>3. (l + 1) - 1 = l
    BY <2>1
  <2>4. TicksLeft(h, l + 1) =
          IF AllAir(h, l + 1) THEN 0 ELSE IF AllAir(h, l + 1 + 1) THEN 1 ELSE High - 1 - (l + 1)
    BY <1>5, <2>3 DEF TicksLeft
  <2>5. ~AllAir(h, l + 1) => l + 1 # High - 1
    BY <1>1
  <2> QED
    BY <1>5, <2>1, <2>2, <2>4, <2>5
<1> QED
  BY <1>2, <1>3, <1>4, <1>5

\* As Settled says it.
SettledWhenNoneLeft ==
    TicksLeft(x, z) \in 0 .. High /\ (Settled <=> TicksLeft(x, z) = 0)

LEMMA TicksAreLimited == MotionTypes /\ StaysInWorld => SettledWhenNoneLeft
  BY DropsTowardsGround DEF StaysInWorld, Settled, SettledWhenNoneLeft

\* What the steering writes.
LEMMA DesiresAreNumbers ==
    /\ NoDesires \in DesireMaps
    /\ \A percent \in 0 .. 100 : Desire(percent) \in Nat /\ Falloff(percent) \in Nat
    /\ \A d, percent : percent \in 0 .. 100 => Interested(d, percent) \in DesireMaps
    /\ \A blocks : Endangered(blocks) \in DesireMaps
<1>1. \A percent \in 0 .. 100 : Desire(percent) \in Nat
  BY DEF Desire
<1>2. \A percent \in 0 .. 100 : Falloff(percent) \in Nat
  BY <1>1 DEF Falloff
<1> QED
  BY <1>1, <1>2 DEF NoDesires, DesireMaps, Interested, Endangered

LEMMA WantsAreDesires ==
    ASSUME MotionTypes
    PROVE  Wants \subseteq DesireMaps
<1>1. CASE behaviour = Halt
  BY <1>1, DesiresAreNumbers DEF Wants
<1>2. CASE behaviour # Halt
  <2>1. behaviour \in [goal : Goals, speed : Speeds]
    BY <1>2 DEF MotionTypes
  <2>2. behaviour.speed \in 0 .. 100
    <3>1. behaviour.speed \in Speeds
      BY <2>1
    <3>2. \A s \in Speeds : s \in 0 .. 100
      BY MotionAssumption
    <3> QED
      BY <3>1, <3>2
  <2> QED
    BY <1>2, <2>2, DesiresAreNumbers DEF Wants
<1> QED
  BY <1>1, <1>2

\* The body is where it may be, and is to stand soon.
LEMMA MotionInitially == MotionInit => MotionInv
<1> SUFFICES ASSUME MotionInit PROVE MotionInv
  OBVIOUS
<1> USE MotionAssumption
<1>1. MotionTypes
  BY DesiresAreNumbers DEF MotionInit, MotionTypes
<1>2. StaysInWorld /\ HeadsForSafety
  BY DEF MotionInit, StaysInWorld, HeadsForSafety
<1>3. SettlesInTime
  BY <1>1, <1>2, DropsTowardsGround DEF MotionInit, StaysInWorld, SettlesInTime
<1> QED
  BY <1>1, <1>2, <1>3 DEF MotionInv

\* Every step keeps the invariant.
LEMMA MotionStep == MotionInv /\ [MotionNext]_motionvars => MotionInv'
<1> SUFFICES ASSUME MotionInv, [MotionNext]_motionvars PROVE MotionInv'
  OBVIOUS
<1> USE MotionAssumption
<1>s. ASSUME UNCHANGED <<solid, x, z, calm>>
      PROVE  StaysInWorld' /\ SettlesInTime'
  BY <1>s DEF MotionInv, StaysInWorld, SettlesInTime, Settled, TicksLeft, AllAir
<1>1. CASE SteeringSystem
  <2> USE <1>1
  <2>1. interest' \in DesireMaps
    BY WantsAreDesires, DesiresAreNumbers DEF SteeringSystem, MotionInv
  <2>2. danger' \in DesireMaps
    BY DesiresAreNumbers DEF SteeringSystem
  <2>3. MotionTypes'
    BY <2>1, <2>2 DEF SteeringSystem, placevars, MotionInv, MotionTypes
  <2>4. HeadsForSafety'
    BY DEF SteeringSystem, HeadsForSafety
  <2> QED
    BY <1>s, <2>3, <2>4 DEF SteeringSystem, placevars, MotionInv
<1>2. CASE MovementFulfilmentSystem
  <2> USE <1>2
  <2>1. MotionTypes'
    BY DEF MovementFulfilmentSystem, placevars, MotionInv, MotionTypes
  <2>2. /\ heading' = Best(Masked) /\ speed' = Masked[Best(Masked)]
        /\ interest' = interest /\ danger' = danger
    BY DEF MovementFulfilmentSystem
  <2>3. interest \in DesireMaps /\ danger \in DesireMaps
    BY DEF MotionInv, MotionTypes
  <2>4. /\ Least(danger) \in Nat
        /\ \A d \in Directions : Least(danger) <= danger[d]
    BY <2>3, LeastIsLeast
  <2>5. /\ Masked \in DesireMaps
        /\ \A d \in Directions : danger[d] = Least(danger) => Masked[d] = interest[d]
        /\ \A d \in Directions : Masked[d] > 0 => danger[d] = Least(danger) /\ interest[d] > 0
    BY <2>3, <2>4 DEF Masked, DesireMaps
  <2>6. /\ heading' \in Directions /\ speed' = Masked[heading'] /\ speed' \in Nat
        /\ \A d \in Directions : Masked[d] <= speed'
    BY <2>2, <2>5, BestIsBest DEF DesireMaps
  <2>7. \A d \in Directions : speed' > 0 => danger[heading'] <= danger[d]
    BY <2>4, <2>5, <2>6
  <2>8. speed' > 0 <=> \E d \in Directions : interest[d] > 0 /\ danger[d] = Least(danger)
    BY <2>3, <2>5, <2>6 DEF DesireMaps
  <2>9. \A d \in Directions : danger[d] = Least(danger) => interest[d] <= speed'
    BY <2>5, <2>6
  <2>10. HeadsForSafety'
    BY <2>2, <2>7, <2>8, <2>9 DEF HeadsForSafety, Least
  <2> QED
    BY <1>s, <2>1, <2>10 DEF MovementFulfilmentSystem, placevars, MotionInv
<1>3. CASE PhysicsSystem
  <2> USE <1>3
  <2>1. /\ z' = Dropped(x, z) /\ solid' = solid
        /\ x' \in 0 .. 2 * (Wide - 1)
        /\ calm' = IF x' # x THEN 0 ELSE IF calm < SettleTicks THEN calm + 1 ELSE calm
    BY DEF PhysicsSystem, Dropped
  <2>2. MotionTypes'
    BY <2>1, DesiresAreNumbers DEF PhysicsSystem, MotionInv, MotionTypes
  <2>3. StaysInWorld'
    BY <2>1, DropsTowardsGround DEF MotionInv, StaysInWorld
  <2>4. SettledWhenNoneLeft /\ SettledWhenNoneLeft'
    BY <2>2, <2>3, TicksAreLimited, PTL DEF MotionInv
  <2>5. SettlesInTime'
    <3>1. CASE x' # x
      BY <2>1, <2>4, <3>1 DEF SettledWhenNoneLeft, SettlesInTime
    <3>2. CASE x' = x
      <4>1. TicksLeft(x, z)' = TicksLeft(x, Dropped(x, z))
        BY <2>1, <3>2 DEF TicksLeft, AllAir
      <4>2. CASE Settled
        BY <2>4, <4>1, <4>2, DropsTowardsGround
           DEF SettledWhenNoneLeft, SettlesInTime, MotionInv, StaysInWorld
      <4>3. CASE ~Settled
        <5>1. calm' <= calm + 1 /\ calm' \in Nat /\ calm \in Nat
          BY <2>1, <2>2 DEF MotionInv, MotionTypes
        <5>2. calm + TicksLeft(x, z) <= High
          BY <4>3 DEF MotionInv, SettlesInTime
        <5>3. TicksLeft(x, Dropped(x, z)) < TicksLeft(x, z)
          BY <2>4, <4>3, DropsTowardsGround DEF SettledWhenNoneLeft, MotionInv, StaysInWorld
        <5> QED
          BY <2>4, <4>1, <5>1, <5>2, <5>3 DEF SettledWhenNoneLeft, SettlesInTime
      <4> QED
        BY <4>2, <4>3
    <3> QED
      BY <3>1, <3>2
  <2>6. HeadsForSafety'
    BY DEF PhysicsSystem, HeadsForSafety
  <2> QED
    BY <2>2, <2>3, <2>5, <2>6 DEF MotionInv
<1>4. CASE NextSystems
  <2> USE <1>4
  <2>1. MotionTypes'
    BY DEF NextSystems, placevars, mapvars, MotionInv, MotionTypes
  <2>2. HeadsForSafety'
    BY DEF NextSystems, HeadsForSafety
  <2> QED
    BY <1>s, <2>1, <2>2 DEF NextSystems, placevars, MotionInv
<1>5. ASSUME NEW c \in 0 .. Wide - 1, NEW l \in 0 .. High - 2, Change(c, l)
      PROVE  MotionInv'
  <2> USE <1>5
  <2>1. MotionTypes'
    BY DEF Change, placevars, mapvars, MotionInv, MotionTypes
  <2>2. StaysInWorld' /\ HeadsForSafety'
    BY DEF Change, placevars, MotionInv, StaysInWorld, HeadsForSafety
  <2>3. SettledWhenNoneLeft'
    BY <2>1, <2>2, TicksAreLimited, PTL
  <2>4. SettlesInTime'
    BY <2>3 DEF Change, placevars, SettledWhenNoneLeft, SettlesInTime
  <2> QED
    BY <2>1, <2>2, <2>4 DEF MotionInv
<1>6. CASE UNCHANGED motionvars
  <2>1. MotionTypes' /\ HeadsForSafety'
    BY <1>6 DEF motionvars, placevars, mapvars, MotionInv, MotionTypes, HeadsForSafety
  <2> QED
    BY <1>6, <1>s, <2>1 DEF motionvars, placevars, MotionInv
<1> QED
  BY <1>1, <1>2, <1>3, <1>4, <1>5, <1>6 DEF MotionNext

\* How a body moves: it stays in the world, is soon to stand, and goes where it may.
THEOREM MotionInvariant == MotionSpec => []MotionInv
  BY MotionInitially, MotionStep, PTL DEF MotionSpec

\* A body comes to stand if nothing changes for a while, is not carried out of the world, and
\* never heads for where it has seen the more danger.
THEOREM MotionSound == MotionSpec => []MotionIsSound
<1>1. MotionInv => MotionIsSound
  <2> SUFFICES ASSUME MotionInv PROVE MotionIsSound
    OBVIOUS
  <2>1. SettledWhenNoneLeft
    BY TicksAreLimited DEF MotionInv
  <2>2. BodiesSettle
    BY <2>1, MotionAssumption
       DEF BodiesSettle, SettledWhenNoneLeft, MotionInv, SettlesInTime, MotionTypes
  <2> QED
    BY <2>2 DEF MotionInv, MotionIsSound
<1> QED
  BY <1>1, MotionInvariant, PTL

-----------------------------------------------------------------------------
(* Division, that of positions among chunks and slabs and of indices among rows *)

\* What div and mod are, and that nothing else is.
LEMMA DivisionIs ==
    ASSUME NEW a \in Int, NEW n \in Nat \ {0}
    PROVE  a \div n \in Int /\ a % n \in 0 .. n - 1 /\ a = n * (a \div n) + (a % n)
  OBVIOUS

LEMMA DivisionLeadsBack ==
    ASSUME NEW a \in Int, NEW n \in Nat \ {0}
    PROVE  (a % n) + (a \div n) * n = a /\ (a \div n) * n + (a % n) = a
<1>1. PICK q \in Int, r \in Int : q = a \div n /\ r = a % n /\ a = n * q + r
  BY DivisionIs
<1>2. r + q * n = n * q + r /\ q * n + r = n * q + r
  OBVIOUS
<1> QED
  BY <1>1, <1>2

LEMMA ProductsGrow ==
    ASSUME NEW n \in Nat, NEW k \in Int, NEW l \in Int, k <= l
    PROVE  n * k <= n * l
  OBVIOUS

LEMMA OneQuotient ==
    ASSUME NEW n \in Nat \ {0}, NEW q \in Int, NEW r \in 0 .. n - 1,
           NEW p \in Int, NEW s \in 0 .. n - 1, n * q + r = n * p + s
    PROVE  q = p /\ r = s
<1>1. ASSUME NEW u \in Int, NEW v \in Int, u < v
      PROVE  n * u + n <= n * v
  <2>1. n * (u + 1) <= n * v
    BY <1>1, ProductsGrow
  <2>2. n * (u + 1) = n * u + n
    OBVIOUS
  <2> QED
    BY <2>1, <2>2
<1>2. n * q \in Int /\ n * p \in Int
  OBVIOUS
<1>3. ~(q < p)
  BY <1>1, <1>2
<1>4. ~(p < q)
  BY <1>1, <1>2
<1>5. q = p
  BY <1>3, <1>4
<1> QED
  BY <1>5, <1>2

LEMMA DivisionIsUnique ==
    ASSUME NEW n \in Nat \ {0}, NEW q \in Int, NEW r \in 0 .. n - 1
    PROVE  (n * q + r) \div n = q /\ (n * q + r) % n = r
<1>1. n * q + r \in Int
  OBVIOUS
<1> DEFINE a == n * q + r
<1>2. a \div n \in Int /\ a % n \in 0 .. n - 1 /\ n * q + r = n * (a \div n) + (a % n)
  BY <1>1, DivisionIs
<1> HIDE DEF a
<1>3. q = a \div n /\ r = a % n
  BY <1>2, OneQuotient
<1> QED
  BY <1>3 DEF a

\* A remainder or a quotient of the negated, as Rust's division needs it.
LEMMA ToLocalIsRemainder ==
    ASSUME NEW s \in Int
    PROVE  ToLocal(s) = s % SlabHeight
<1> DEFINE n == SlabHeight
<1>0. n \in Nat \ {0}
  BY PositionsAssumption
<1>1. CASE s >= 0
  <2>1. s % n \in 0 .. n - 1
    BY <1>0, DivisionIs
  <2> QED
    BY <1>0, <1>1, <2>1 DEF ToLocal, RustRem
<1>2. CASE s < 0
  <2>1. PICK q \in Int, r \in 0 .. n - 1 : -s = n * q + r /\ r = (-s) % n
    <3>1. -s \in Int
      OBVIOUS
    <3> QED
      BY <1>0, <3>1, DivisionIs
  <2>2. ToLocal(s) = IF -r < 0 THEN -r + n ELSE -r
    BY <1>0, <1>2, <2>1 DEF ToLocal, RustRem
  <2>3. n * q \in Int
    BY <1>0, <2>1
  <2>4. CASE r = 0
    <3>1. s = n * (-q) + 0 /\ -q \in Int
      BY <1>0, <2>1, <2>4
    <3>2. s % n = 0
      BY <1>0, <3>1, DivisionIsUnique
    <3> QED
      BY <2>2, <2>4, <3>2
  <2>5. CASE r # 0
    <3>1. n * (-q - 1) = -(n * q) - n
      BY <1>0, <2>1
    <3>2. s = n * (-q - 1) + (n - r) /\ n - r \in 0 .. n - 1 /\ -q - 1 \in Int
      BY <1>0, <2>1, <2>3, <2>5, <3>1
    <3>3. s % n = n - r
      BY <1>0, <3>2, DivisionIsUnique
    <3> QED
      BY <1>0, <2>2, <2>5, <3>3
  <2> QED
    BY <2>4, <2>5
<1> QED
  BY <1>1, <1>2

-----------------------------------------------------------------------------
(* Slabs *)

PositionsTypes == from \in Corners /\ to \in Corners

\* The coordinates of a corner are numbers.
LEMMA CornersAreNumbers ==
    ASSUME NEW w \in Corners
    PROVE  w[1] \in Int /\ w[2] \in Int /\ w[3] \in Int /\ w = <<w[1], w[2], w[3]>>
  BY PositionsAssumption DEF Corners

\* A position is put together again from its parts.
LEMMA SlabsDoPartition ==
    ASSUME PositionsTypes
    PROVE  SlabsPartition
<1>1. from[1] \in Int /\ from[2] \in Int /\ from[3] \in Int /\ from = <<from[1], from[2], from[3]>>
  BY CornersAreNumbers DEF PositionsTypes
<1>2. /\ from[1] \div ChunkSide \in Int /\ from[2] \div ChunkSide \in Int
      /\ from[1] % ChunkSide \in 0 .. ChunkSide - 1 /\ from[2] % ChunkSide \in 0 .. ChunkSide - 1
      /\ from[1] = ChunkSide * (from[1] \div ChunkSide) + (from[1] % ChunkSide)
      /\ from[2] = ChunkSide * (from[2] \div ChunkSide) + (from[2] % ChunkSide)
  BY <1>1, PositionsAssumption, DivisionIs
<1>3. /\ from[3] \div SlabHeight \in Int
      /\ from[3] % SlabHeight \in 0 .. SlabHeight - 1
      /\ from[3] = SlabHeight * (from[3] \div SlabHeight) + (from[3] % SlabHeight)
  BY <1>1, PositionsAssumption, DivisionIs
<1>4. ToLocal(from[3]) = from[3] % SlabHeight
  BY <1>1, ToLocalIsRemainder
<1>5. SlabPositionOf(from) = <<from[1] % ChunkSide, from[2] % ChunkSide, from[3] % SlabHeight>>
  BY <1>4 DEF SlabPositionOf, BlockOf
<1>6. SlabToWorld(SlabPositionOf(from), SlabLocationOf(from)) =
        <<(from[1] % ChunkSide) + (from[1] \div ChunkSide) * ChunkSide,
          (from[2] % ChunkSide) + (from[2] \div ChunkSide) * ChunkSide,
          (from[3] \div SlabHeight) * SlabHeight + (from[3] % SlabHeight)>>
  BY <1>5 DEF SlabToWorld, SlabToBlock, SlabLocationOf, ChunkOf, BlockToWorld, ToGlobal, AsSlice,
              SlabIndexOf
<1>7. /\ (from[1] % ChunkSide) + (from[1] \div ChunkSide) * ChunkSide = from[1]
      /\ (from[2] % ChunkSide) + (from[2] \div ChunkSide) * ChunkSide = from[2]
      /\ (from[3] \div SlabHeight) * SlabHeight + (from[3] % SlabHeight) = from[3]
  BY <1>1, DivisionLeadsBack, PositionsAssumption
<1> QED
  BY <1>1, <1>2, <1>3, <1>5, <1>6, <1>7 DEF SlabsPartition

\* A step of at most one block stays in the chunk just if it stays among its columns.
LEMMA StepsInChunk ==
    ASSUME NEW a \in Int, NEW d \in {-1, 0, 1}, NEW n \in Nat \ {0}
    PROVE  /\ (a + d) \div n = a \div n <=> (a % n) + d \in 0 .. n - 1
           /\ (a + d) \div n = a \div n => (a + d) % n = (a % n) + d
<1>1. /\ a \div n \in Int /\ a % n \in 0 .. n - 1 /\ n * (a \div n) \in Int
      /\ a = n * (a \div n) + (a % n)
  BY DivisionIs
<1>2. /\ (a + d) \div n \in Int /\ (a + d) % n \in 0 .. n - 1
      /\ a + d = n * ((a + d) \div n) + ((a + d) % n)
  BY DivisionIs
<1>3. ASSUME (a % n) + d \in 0 .. n - 1
      PROVE  (a + d) \div n = a \div n
  <2>1. a + d = n * (a \div n) + ((a % n) + d)
    BY <1>1
  <2> QED
    BY <1>1, <1>3, <2>1, DivisionIsUnique
<1>4. ASSUME (a + d) \div n = a \div n
      PROVE  (a + d) % n = (a % n) + d
  BY <1>1, <1>2, <1>4
<1> QED
  BY <1>2, <1>3, <1>4

\* A step to a block beside has a result in the chunk, or leaves it from an edge.
LEMMA StepsDoAgree ==
    ASSUME PositionsTypes
    PROVE  StepsAgree
<1>1. from[1] \in Int /\ from[2] \in Int /\ from[3] \in Int
  BY CornersAreNumbers DEF PositionsTypes
<1> DEFINE a == from[1]
           b == from[2]
<1>2. ASSUME NEW d \in Around
      PROVE  LET there == Moved(from, d[1], d[2]) IN
             /\ TryAdd(BlockOf(from), d[1], d[2]) =
                   IF ChunkOf(there) = ChunkOf(from) THEN {BlockOf(there)} ELSE {}
             /\ TryAdd(BlockOf(from), d[1], d[2]) = {} => IsEdge(BlockOf(from))
  <2>1. d[1] \in {-1, 0, 1} /\ d[2] \in {-1, 0, 1}
    BY DEF Around
  <2>2. /\ (a + d[1]) \div ChunkSide = a \div ChunkSide <=>
              (a % ChunkSide) + d[1] \in 0 .. ChunkSide - 1
        /\ (a + d[1]) \div ChunkSide = a \div ChunkSide =>
              (a + d[1]) % ChunkSide = (a % ChunkSide) + d[1]
    BY <1>1, <2>1, StepsInChunk, PositionsAssumption
  <2>3. /\ (b + d[2]) \div ChunkSide = b \div ChunkSide <=>
              (b % ChunkSide) + d[2] \in 0 .. ChunkSide - 1
        /\ (b + d[2]) \div ChunkSide = b \div ChunkSide =>
              (b + d[2]) % ChunkSide = (b % ChunkSide) + d[2]
    BY <1>1, <2>1, StepsInChunk, PositionsAssumption
  <2>4. a % ChunkSide \in 0 .. ChunkSide - 1 /\ b % ChunkSide \in 0 .. ChunkSide - 1
    BY <1>1, DivisionIs, PositionsAssumption
  <2>5. TryAdd(BlockOf(from), d[1], d[2]) =
          {<<c, e, from[3]>> : c \in {(a % ChunkSide) + d[1]} \cap 0 .. ChunkSide - 1,
                               e \in {(b % ChunkSide) + d[2]} \cap 0 .. ChunkSide - 1}
    BY DEF TryAdd, BlockOf
  <2>6. LET there == Moved(from, d[1], d[2]) IN
        /\ BlockOf(there) = <<(a + d[1]) % ChunkSide, (b + d[2]) % ChunkSide, from[3]>>
        /\ ChunkOf(there) = ChunkOf(from) <=>
              /\ (a + d[1]) \div ChunkSide = a \div ChunkSide
              /\ (b + d[2]) \div ChunkSide = b \div ChunkSide
    BY DEF Moved, BlockOf, ChunkOf
  <2> HIDE DEF a, b
  <2>7. CASE /\ (a % ChunkSide) + d[1] \in 0 .. ChunkSide - 1
             /\ (b % ChunkSide) + d[2] \in 0 .. ChunkSide - 1
    <3>1. TryAdd(BlockOf(from), d[1], d[2]) =
            {<<(a % ChunkSide) + d[1], (b % ChunkSide) + d[2], from[3]>>}
      BY <2>5, <2>7
    <3> QED
      BY <2>2, <2>3, <2>6, <2>7, <3>1
  <2>8. CASE ~(/\ (a % ChunkSide) + d[1] \in 0 .. ChunkSide - 1
               /\ (b % ChunkSide) + d[2] \in 0 .. ChunkSide - 1)
    <3>1. TryAdd(BlockOf(from), d[1], d[2]) = {}
      BY <2>5, <2>8
    <3>2. IsEdge(BlockOf(from)) <=>
            a % ChunkSide \in {0, ChunkSide - 1} \/ b % ChunkSide \in {0, ChunkSide - 1}
      BY DEF IsEdge, BlockOf, a, b
    <3>3. a % ChunkSide \in {0, ChunkSide - 1} \/ b % ChunkSide \in {0, ChunkSide - 1}
      BY <2>1, <2>4, <2>8, PositionsAssumption
    <3> QED
      BY <2>2, <2>3, <2>6, <2>8, <3>1, <3>2, <3>3
  <2> QED
    BY <2>7, <2>8
<1> QED
  BY <1>2 DEF StepsAgree

-----------------------------------------------------------------------------
(* Grids *)

\* The least and the greatest index of a row of n, of which there are k.
LEMMA RowsAreLimited ==
    ASSUME NEW n \in Nat \ {0}, NEW k \in Nat \ {0}, NEW i \in 0 .. k - 1, NEW r \in 0 .. n - 1
    PROVE  n * i + r \in 0 .. n * k - 1
<1>1. n * 0 <= n * i /\ n * (i + 1) <= n * k
  BY ProductsGrow
<1>2. n * (i + 1) = n * i + n /\ n * 0 = 0 /\ n * i \in Int /\ n * k \in Int
  OBVIOUS
<1> QED
  BY <1>1, <1>2

Cells == (0 .. GridWidth - 1) \X (0 .. GridDepth - 1) \X (0 .. GridHeight - 1)

\* Every cell has an index of its own, one of its layer.
LEMMA CellsUnflatten ==
    ASSUME NEW c \in Cells
    PROVE  /\ Flatten(c) \in Indices /\ Unflatten(Flatten(c)) = c
           /\ Flatten(c) \in SliceRange(c[3], c[3] + 1)
<1> DEFINE row == c[2] + GridDepth * c[3]
<1>1. /\ GridWidth \in Nat \ {0} /\ GridDepth \in Nat \ {0} /\ GridHeight \in Nat \ {0}
      /\ c[1] \in 0 .. GridWidth - 1 /\ c[2] \in 0 .. GridDepth - 1
      /\ c[3] \in 0 .. GridHeight - 1 /\ c = <<c[1], c[2], c[3]>>
  BY PositionsAssumption DEF Cells
<1>2. GridDepth * c[3] + c[2] \in 0 .. GridDepth * GridHeight - 1
  BY <1>1, RowsAreLimited
<1>3. GridDepth * GridHeight \in Nat \ {0}
  BY <1>1
<1>4. row = GridDepth * c[3] + c[2] /\ row \in 0 .. GridDepth * GridHeight - 1 /\ row \in Int
  BY <1>1, <1>2
<1>5. Flatten(c) = GridWidth * row + c[1]
  BY <1>1, <1>4 DEF Flatten
<1> HIDE DEF row
<1>6. GridWidth * row + c[1] \in 0 .. GridWidth * (GridDepth * GridHeight) - 1
  BY <1>1, <1>3, <1>4, RowsAreLimited
<1>7. GridWidth * (GridDepth * GridHeight) = GridWidth * GridDepth * GridHeight
  BY <1>1
<1>8. Flatten(c) \div GridWidth = row /\ Flatten(c) % GridWidth = c[1]
  BY <1>1, <1>4, <1>5, DivisionIsUnique
<1>9. row \div GridDepth = c[3] /\ row % GridDepth = c[2]
  BY <1>1, <1>4, DivisionIsUnique
<1> DEFINE layer == GridDepth * GridWidth
<1>10. /\ layer \in Nat \ {0}
       /\ Flatten(c) = layer * c[3] + (GridWidth * c[2] + c[1])
  <2>1. layer \in Nat \ {0}
    BY <1>1
  <2>2. \A w, d, i, j, k \in Int : w * (d * k + j) + i = (d * w) * k + (w * j + i)
    OBVIOUS
  <2> QED
    BY <1>1, <1>4, <1>5, <2>1, <2>2
<1>11. GridWidth * c[2] + c[1] \in 0 .. layer - 1
  <2>1. GridWidth * c[2] + c[1] \in 0 .. GridWidth * GridDepth - 1
    BY <1>1, RowsAreLimited
  <2> QED
    BY <1>1, <2>1
<1>12. GridWidth * GridDepth = layer
  BY <1>1
<1> HIDE DEF layer
<1>13. Flatten(c) \div layer = c[3]
  BY <1>1, <1>10, <1>11, DivisionIsUnique
<1>14. Unflatten(Flatten(c)) = c
  BY <1>1, <1>8, <1>9, <1>13 DEF Unflatten, layer
<1>15. Flatten(c) \in SliceRange(c[3], c[3] + 1)
  <2>1. layer * (c[3] + 1) = layer * c[3] + layer /\ layer * c[3] \in Int
    BY <1>1, <1>10
  <2> QED
    BY <1>1, <1>10, <1>11, <1>12, <2>1 DEF SliceRange
<1> QED
  BY <1>5, <1>6, <1>7, <1>14, <1>15 DEF Indices

\* Going one further around a ring and back.
LEMMA RingStep ==
    ASSUME NEW n \in Nat \ {0}, NEW i \in 0 .. n - 1, NEW d \in {-1, 0, 1}
    PROVE  /\ (i + d) % n \in 0 .. n - 1
           /\ (((i + d) % n) - d) % n = i
           /\ i + d \in 0 .. n - 1 => (i + d) % n = i + d
<1>1. ASSUME i + d \in 0 .. n - 1 PROVE (i + d) % n = i + d
  BY <1>1, n * 0 + (i + d) = i + d, DivisionIsUnique
<1>2. i % n = i
  BY n * 0 + i = i, DivisionIsUnique
<1>3. CASE i + d \in 0 .. n - 1
  <2>1. (i + d) - d = i
    OBVIOUS
  <2> QED
    BY <1>1, <1>2, <1>3, <2>1
<1>4. CASE i + d = n
  <2>1. n * 1 + 0 = i + d /\ (i + d) % n = 0
    BY <1>4, DivisionIsUnique
  <2>2. 0 - d = n * (-1) + i
    BY <1>4
  <2>3. (0 - d) % n = i
    BY <2>2, DivisionIsUnique
  <2> QED
    BY <1>4, <2>1, <2>3
<1>5. CASE i + d = -1
  <2>1. n * (-1) + (n - 1) = i + d /\ (i + d) % n = n - 1
    BY <1>5, DivisionIsUnique
  <2>2. (n - 1) - d = n * 1 + 0 /\ i = 0
    BY <1>5
  <2>3. ((n - 1) - d) % n = 0
    BY <2>2, DivisionIsUnique
  <2> QED
    BY <1>5, <2>1, <2>2, <2>3
<1> QED
  BY <1>3, <1>4, <1>5

\* Wrapped, a coordinate is a cell.
LEMMA WrappedIsCell ==
    ASSUME NEW e \in Int \X Int \X Int
    PROVE  /\ WrapCoord(e) \in Cells
           /\ e[3] = 0 => WrapCoord(e)[3] = 0
           /\ WrapCoord(e)[1] = e[1] % GridWidth /\ WrapCoord(e)[2] = e[2] % GridDepth
<1>1. e[1] % GridWidth \in 0 .. GridWidth - 1 /\ e[2] % GridDepth \in 0 .. GridDepth - 1
  BY PositionsAssumption, DivisionIs
<1> QED
  BY <1>1, PositionsAssumption DEF WrapCoord, Cells

\* Whoever is a neighbour has the other as one.
LEMMA NeighboursAreMutual ==
    ASSUME NEW c \in Cells, NEW d \in Around
    PROVE  LET e == <<c[1] + d[1], c[2] + d[2], 0>>
               g == WrapCoord(e)
               k == Flatten(g)
               m == Flatten(<<c[1], c[2], 0>>)
           IN /\ k \in Indices /\ m \in WrappingNeighbours[k]
              /\ InGrid(e) => e = g /\ m \in GridNeighbours[k]
<1> DEFINE e == <<c[1] + d[1], c[2] + d[2], 0>>
           g == WrapCoord(e)
           k == Flatten(g)
           m == Flatten(<<c[1], c[2], 0>>)
<1>1. /\ c[1] \in 0 .. GridWidth - 1 /\ c[2] \in 0 .. GridDepth - 1
      /\ d[1] \in {-1, 0, 1} /\ d[2] \in {-1, 0, 1} /\ d # <<0, 0>> /\ d = <<d[1], d[2]>>
      /\ GridWidth \in Nat \ {0} /\ GridDepth \in Nat \ {0} /\ GridHeight \in Nat \ {0}
  BY PositionsAssumption DEF Cells, Around
<1>2. /\ (((c[1] + d[1]) % GridWidth) - d[1]) % GridWidth = c[1]
      /\ c[1] + d[1] \in 0 .. GridWidth - 1 => (c[1] + d[1]) % GridWidth = c[1] + d[1]
  BY <1>1, RingStep
<1>3. /\ (((c[2] + d[2]) % GridDepth) - d[2]) % GridDepth = c[2]
      /\ c[2] + d[2] \in 0 .. GridDepth - 1 => (c[2] + d[2]) % GridDepth = c[2] + d[2]
  BY <1>1, RingStep
<1>4. /\ g \in Cells /\ g[3] = 0
      /\ g[1] = (c[1] + d[1]) % GridWidth /\ g[2] = (c[2] + d[2]) % GridDepth
  <2>1. e \in Int \X Int \X Int
    BY <1>1
  <2> QED
    BY <2>1, WrappedIsCell
<1>5. g = <<g[1], g[2], 0>> /\ g[1] \in Int /\ g[2] \in Int
  BY <1>4 DEF Cells
<1>6. /\ k \in Indices /\ Unflatten(k) = g
  BY <1>4, CellsUnflatten
<1> DEFINE f == <<-d[1], -d[2]>>
           h == <<g[1] + f[1], g[2] + f[2], 0>>
<1>7. f \in Around
  BY <1>1 DEF Around
<1>8. WrapCoord(h) = <<c[1], c[2], 0>>
  <2>1. g[1] + f[1] = g[1] - d[1] /\ g[2] + f[2] = g[2] - d[2]
    BY <1>1, <1>5
  <2>2. (g[1] + f[1]) % GridWidth = c[1] /\ (g[2] + f[2]) % GridDepth = c[2]
    BY <1>2, <1>3, <1>4, <2>1
  <2> QED
    BY <1>1, <2>2 DEF WrapCoord
<1>9. h \in Beside(g)
  BY <1>7 DEF Beside
<1>10. ASSUME InGrid(e)
       PROVE  e = g /\ h = <<c[1], c[2], 0>> /\ InGrid(h)
  <2>1. e = g
    BY <1>2, <1>3, <1>4, <1>5, <1>10 DEF InGrid
  <2>2. g[1] + f[1] = c[1] /\ g[2] + f[2] = c[2]
    BY <1>1, <2>1
  <2> QED
    BY <1>1, <2>1, <2>2 DEF InGrid
<1> HIDE DEF e, g, h, f
<1>11. m \in WrappingNeighbours[k]
  BY <1>6, <1>8, <1>9 DEF WrappingNeighbours
<1>12. InGrid(e) => m \in GridNeighbours[k]
  BY <1>6, <1>9, <1>10 DEF GridNeighbours
<1>13. /\ k \in Indices /\ m \in WrappingNeighbours[k]
       /\ InGrid(e) => e = g /\ m \in GridNeighbours[k]
  BY <1>6, <1>10, <1>11, <1>12
<1> QED
  BY <1>13 DEF e, g

\* Cells have indices, and neighbours each other.
LEMMA GridsDoUnfold ==
    ASSUME PositionsTypes
    PROVE  GridsUnfold
<1>1. PICK c \in Cells : c = WrapCoord(from)
  <2>1. from \in Int \X Int \X Int
    BY CornersAreNumbers DEF PositionsTypes
  <2> QED
    BY <2>1, WrappedIsCell
<1> DEFINE n == Flatten(c)
           m == Flatten(<<c[1], c[2], 0>>)
<1>2. n \in Indices /\ Unflatten(n) = c /\ n \in SliceRange(c[3], c[3] + 1)
  BY CellsUnflatten
<1>3. InGrid(c) /\ c[3] \in 0 .. GridHeight - 1
  BY DEF Cells, InGrid
<1> HIDE DEF n
<1>4. ASSUME NEW k \in WrappingNeighbours[n]
      PROVE  m \in WrappingNeighbours[k]
  <2>1. PICK e \in Beside(c) : k = Flatten(WrapCoord(e))
    BY <1>2 DEF WrappingNeighbours
  <2>2. PICK d \in Around : e = <<c[1] + d[1], c[2] + d[2], 0>>
    BY DEF Beside
  <2> QED
    BY <2>1, <2>2, NeighboursAreMutual
<1>5. ASSUME NEW k \in GridNeighbours[n]
      PROVE  m \in GridNeighbours[k] /\ k \in WrappingNeighbours[n]
  <2>1. PICK e \in Beside(c) : InGrid(e) /\ k = Flatten(e)
    BY <1>2 DEF GridNeighbours
  <2>2. PICK d \in Around : e = <<c[1] + d[1], c[2] + d[2], 0>>
    BY DEF Beside
  <2>3. e = WrapCoord(e) /\ m \in GridNeighbours[k]
    BY <2>1, <2>2, NeighboursAreMutual
  <2>4. k = Flatten(WrapCoord(e))
    BY <2>1, <2>3
  <2>5. k \in {Flatten(WrapCoord(b)) : b \in Beside(Unflatten(n))}
    BY <1>2, <2>4
  <2> QED
    BY <1>2, <2>3, <2>5 DEF WrappingNeighbours
<1> QED
  BY <1>1, <1>2, <1>3, <1>4, <1>5 DEF GridsUnfold, n

-----------------------------------------------------------------------------
(* Ranges *)

\* The quotients of a range are all those between the ones of its ends.
Reaches(n, a, b, c, d) ==
    /\ c \in Int /\ d \in Int /\ c <= d
    /\ \A v \in a .. b : v \div n \in c .. d
    /\ \A k \in c .. d : \E v \in a .. b : v \div n = k

LEMMA QuotientsAreReached ==
    ASSUME NEW n \in Nat \ {0}, NEW a \in Int, NEW b \in Int, a <= b
    PROVE  Reaches(n, a, b, a \div n, b \div n)
<1>1. ASSUME NEW u \in Int, NEW v \in Int, u <= v
      PROVE  u \div n \in Int /\ v \div n \in Int /\ u \div n <= v \div n
  <2>1. PICK q \in Int, r \in 0 .. n - 1 : q = u \div n /\ u = n * q + r
    BY DivisionIs
  <2>2. PICK p \in Int, s \in 0 .. n - 1 : p = v \div n /\ v = n * p + s
    BY DivisionIs
  <2>3. ASSUME p + 1 <= q PROVE FALSE
    <3>1. n * (p + 1) <= n * q /\ n * (p + 1) = n * p + n /\ n * p \in Int /\ n * q \in Int
      BY <2>3, ProductsGrow
    <3> QED
      BY <1>1, <2>1, <2>2, <3>1
  <2> QED
    BY <2>1, <2>2, <2>3
<1>2. \A v \in a .. b : v \div n \in (a \div n) .. (b \div n)
  BY <1>1
<1>3. ASSUME NEW k \in (a \div n) .. (b \div n)
      PROVE  \E v \in a .. b : v \div n = k
  <2>1. PICK q \in Int, r \in 0 .. n - 1 : q = a \div n /\ a = n * q + r
    BY DivisionIs
  <2>2. PICK p \in Int, s \in 0 .. n - 1 : p = b \div n /\ b = n * p + s
    BY DivisionIs
  <2>3. CASE k = q
    BY <2>1, <2>3
  <2>4. CASE q + 1 <= k
    <3>1. k \in Int /\ k <= p
      BY <2>1, <2>2
    <3>2. /\ n * (q + 1) <= n * k /\ n * k <= n * p
          /\ n * (q + 1) = n * q + n /\ n * q \in Int /\ n * k \in Int /\ n * p \in Int
      BY <2>4, <3>1, ProductsGrow
    <3>3. n * k + 0 \in a .. b
      BY <2>1, <2>2, <3>2
    <3>4. (n * k + 0) \div n = k
      BY <3>1, DivisionIsUnique
    <3> QED
      BY <3>3, <3>4
  <2> QED
    BY <2>1, <2>2, <2>3, <2>4
<1> QED
  BY <1>1, <1>2, <1>3 DEF Reaches

\* The number of triples, and of records, is the product of the numbers of their parts.
LEMMA TriplesCount ==
    ASSUME NEW A, NEW B, NEW C, IsFiniteSet(A), IsFiniteSet(B), IsFiniteSet(C)
    PROVE  /\ IsFiniteSet(A \X B \X C)
           /\ Cardinality(A \X B \X C) = Cardinality(A) * Cardinality(B) * Cardinality(C)
<1>1. /\ IsFiniteSet((A \X B) \X C)
      /\ Cardinality((A \X B) \X C) = Cardinality(A) * Cardinality(B) * Cardinality(C)
  <2>1. IsFiniteSet(A \X B) /\ Cardinality(A \X B) = Cardinality(A) * Cardinality(B)
    BY FS_Product
  <2>2. /\ IsFiniteSet((A \X B) \X C)
        /\ Cardinality((A \X B) \X C) = Cardinality(A \X B) * Cardinality(C)
    BY <2>1, FS_Product
  <2> QED
    BY <2>1, <2>2
<1> DEFINE f == [p \in (A \X B) \X C |-> <<p[1][1], p[1][2], p[2]>>]
<1>2. f \in [(A \X B) \X C -> A \X B \X C]
  OBVIOUS
<1>3. ASSUME NEW p \in (A \X B) \X C, NEW q \in (A \X B) \X C, f[p] = f[q]
      PROVE  p = q
  BY <1>3
<1>4. ASSUME NEW t \in A \X B \X C
      PROVE  \E p \in (A \X B) \X C : f[p] = t
  <2>1. <<<<t[1], t[2]>>, t[3]>> \in (A \X B) \X C
    OBVIOUS
  <2> QED
    BY <2>1
<1> HIDE DEF f
<1>5. f \in Bijection((A \X B) \X C, A \X B \X C)
  BY <1>2, <1>3, <1>4, Fun_IsBij
<1> QED
  BY <1>1, <1>5, FS_Bijection DEF ExistsBijection

LEMMA LocationsCount ==
    ASSUME NEW A, NEW B, IsFiniteSet(A), IsFiniteSet(B)
    PROVE  Cardinality([chunk : A, slab : B]) = Cardinality(B) * Cardinality(A)
<1>1. IsFiniteSet(B \X A) /\ Cardinality(B \X A) = Cardinality(B) * Cardinality(A)
  BY FS_Product
<1> DEFINE f == [p \in B \X A |-> [chunk |-> p[2], slab |-> p[1]]]
<1>2. f \in [B \X A -> [chunk : A, slab : B]]
  OBVIOUS
<1>3. ASSUME NEW p \in B \X A, NEW q \in B \X A, f[p] = f[q]
      PROVE  p = q
  BY <1>3
<1>4. ASSUME NEW t \in [chunk : A, slab : B]
      PROVE  \E p \in B \X A : f[p] = t
  <2>1. <<t.slab, t.chunk>> \in B \X A
    OBVIOUS
  <2> QED
    BY <2>1
<1> HIDE DEF f
<1>5. f \in Bijection(B \X A, [chunk : A, slab : B])
  BY <1>2, <1>3, <1>4, Fun_IsBij
<1> QED
  BY <1>1, <1>5, FS_Bijection DEF ExistsBijection

\* The lower corner is not above the other.
LEMMA CornersAreApart ==
    ASSUME NEW a \in Corners, NEW b \in Corners, NEW i \in 1 .. 3
    PROVE  /\ a[i] \in Int /\ b[i] \in Int /\ Lower(a, b, i) \in Int /\ Upper(a, b, i) \in Int
           /\ Lower(a, b, i) <= Upper(a, b, i)
<1>1. a[i] \in Int /\ b[i] \in Int
  <2>1. i = 1 \/ i = 2 \/ i = 3
    OBVIOUS
  <2> QED
    BY <2>1, CornersAreNumbers
<1> QED
  BY <1>1 DEF Lower, Upper

\* A range has as many blocks as it counts.
LEMMA BlocksCount ==
    ASSUME PositionsTypes
    PROVE  Cardinality(IterBlocks(from, to)) = Count(from, to)
<1>1. ASSUME NEW i \in 1 .. 3
      PROVE  /\ IsFiniteSet(Along(from, to, i))
             /\ Cardinality(Along(from, to, i)) = Length(from, to, i)
  <2>1. /\ Lower(from, to, i) \in Int /\ Upper(from, to, i) \in Int
        /\ Lower(from, to, i) <= Upper(from, to, i)
    BY CornersAreApart DEF PositionsTypes
  <2> QED
    BY <2>1, FS_Interval DEF Along, Length
<1>2. /\ IsFiniteSet(Along(from, to, 1)) /\ Cardinality(Along(from, to, 1)) = Length(from, to, 1)
      /\ IsFiniteSet(Along(from, to, 2)) /\ Cardinality(Along(from, to, 2)) = Length(from, to, 2)
      /\ IsFiniteSet(Along(from, to, 3)) /\ Cardinality(Along(from, to, 3)) = Length(from, to, 3)
  BY <1>1
<1> QED
  BY <1>2, TriplesCount DEF IterBlocks, Count

\* Without its far sides it still has a block.
LEMMA ExclusiveIsSome ==
    ASSUME PositionsTypes
    PROVE  IterBlocks(from, ExclusiveCorner(from, to)) # {}
<1> DEFINE e == ExclusiveCorner(from, to)
<1>1. ASSUME NEW i \in 1 .. 3
      PROVE  Lower(from, e, i) \in Along(from, e, i)
  <2>1. from[i] \in Int /\ Lower(from, to, i) \in Int /\ Upper(from, to, i) \in Int
    BY CornersAreApart DEF PositionsTypes
  <2>2. e[i] \in Int
    BY <2>1 DEF ExclusiveCorner
  <2> HIDE DEF e
  <2> QED
    BY <2>1, <2>2 DEF Along, Lower, Upper
<1> HIDE DEF e
<1>2. <<Lower(from, e, 1), Lower(from, e, 2), Lower(from, e, 3)>> \in IterBlocks(from, e)
  BY <1>1 DEF IterBlocks
<1> QED
  BY <1>2 DEF e

\* The slabs of a range are those of its blocks.
LEMMA SlabsCover ==
    ASSUME PositionsTypes
    PROVE  LET s == SlabLocationOf(Corner(from, to))
               t == SlabLocationOf(FarCorner(from, to))
           IN /\ AllSlabsInRange(s, t) = {SlabLocationOf(w) : w \in IterBlocks(from, to)}
              /\ Cardinality(AllSlabsInRange(s, t)) = SlabCount(s, t)
<1> DEFINE s == SlabLocationOf(Corner(from, to))
           t == SlabLocationOf(FarCorner(from, to))
<1>1. PICK a1 \in Int, a2 \in Int, a3 \in Int, b1 \in Int, b2 \in Int, b3 \in Int :
          /\ a1 = Lower(from, to, 1) /\ a2 = Lower(from, to, 2) /\ a3 = Lower(from, to, 3)
          /\ b1 = Upper(from, to, 1) /\ b2 = Upper(from, to, 2) /\ b3 = Upper(from, to, 3)
          /\ a1 <= b1 /\ a2 <= b2 /\ a3 <= b3
  <2>1. /\ Lower(from, to, 1) \in Int /\ Upper(from, to, 1) \in Int
        /\ Lower(from, to, 1) <= Upper(from, to, 1)
    BY CornersAreApart DEF PositionsTypes
  <2>2. /\ Lower(from, to, 2) \in Int /\ Upper(from, to, 2) \in Int
        /\ Lower(from, to, 2) <= Upper(from, to, 2)
    BY CornersAreApart DEF PositionsTypes
  <2>3. /\ Lower(from, to, 3) \in Int /\ Upper(from, to, 3) \in Int
        /\ Lower(from, to, 3) <= Upper(from, to, 3)
    BY CornersAreApart DEF PositionsTypes
  <2> QED
    BY <2>1, <2>2, <2>3
<1>2. /\ IterBlocks(from, to) = (a1 .. b1) \X (a2 .. b2) \X (a3 .. b3)
      /\ s = [chunk |-> <<a1 \div ChunkSide, a2 \div ChunkSide>>, slab |-> a3 \div SlabHeight]
      /\ t = [chunk |-> <<b1 \div ChunkSide, b2 \div ChunkSide>>, slab |-> b3 \div SlabHeight]
  BY <1>1 DEF IterBlocks, Along, Corner, FarCorner, SlabLocationOf, ChunkOf, SlabIndexOf
<1>3. ChunkSide \in Nat \ {0} /\ SlabHeight \in Nat \ {0}
  BY PositionsAssumption
<1> DEFINE c1 == a1 \div ChunkSide   d1 == b1 \div ChunkSide
           c2 == a2 \div ChunkSide   d2 == b2 \div ChunkSide
           c3 == a3 \div SlabHeight  d3 == b3 \div SlabHeight
<1>4. /\ c1 \in Int /\ d1 \in Int /\ c1 <= d1
      /\ \A v \in a1 .. b1 : v \div ChunkSide \in c1 .. d1
      /\ \A k \in c1 .. d1 : \E v \in a1 .. b1 : v \div ChunkSide = k
  <2>1. Reaches(ChunkSide, a1, b1, c1, d1)
    BY <1>1, <1>3, QuotientsAreReached
  <2> QED
    BY <2>1 DEF Reaches
<1>5. /\ c2 \in Int /\ d2 \in Int /\ c2 <= d2
      /\ \A v \in a2 .. b2 : v \div ChunkSide \in c2 .. d2
      /\ \A k \in c2 .. d2 : \E v \in a2 .. b2 : v \div ChunkSide = k
  <2>1. Reaches(ChunkSide, a2, b2, c2, d2)
    BY <1>1, <1>3, QuotientsAreReached
  <2> QED
    BY <2>1 DEF Reaches
<1>6. /\ c3 \in Int /\ d3 \in Int /\ c3 <= d3
      /\ \A v \in a3 .. b3 : v \div SlabHeight \in c3 .. d3
      /\ \A k \in c3 .. d3 : \E v \in a3 .. b3 : v \div SlabHeight = k
  <2>1. Reaches(SlabHeight, a3, b3, c3, d3)
    BY <1>1, <1>3, QuotientsAreReached
  <2> QED
    BY <2>1 DEF Reaches
<1>7. AllSlabsInRange(s, t) = [chunk : (c1 .. d1) \X (c2 .. d2), slab : c3 .. d3]
  <2>1. /\ s.chunk[1] = c1 /\ s.chunk[2] = c2 /\ s.slab = c3
        /\ t.chunk[1] = d1 /\ t.chunk[2] = d2 /\ t.slab = d3
    BY <1>2
  <2> HIDE DEF s, t, c1, c2, c3, d1, d2, d3
  <2> QED
    BY <2>1 DEF AllSlabsInRange
<1>8. SlabCount(s, t) = (d3 - c3 + 1) * ((d1 - c1 + 1) * (d2 - c2 + 1))
  BY <1>2 DEF SlabCount
<1> HIDE DEF s, t, c1, c2, c3, d1, d2, d3
<1>9. ASSUME NEW location \in [chunk : (c1 .. d1) \X (c2 .. d2), slab : c3 .. d3]
      PROVE  location \in {SlabLocationOf(w) : w \in IterBlocks(from, to)}
  <2>1. location.chunk \in (c1 .. d1) \X (c2 .. d2) /\ location.slab \in c3 .. d3
    OBVIOUS
  <2>2. /\ location.chunk[1] \in c1 .. d1 /\ location.chunk[2] \in c2 .. d2
        /\ location.chunk = <<location.chunk[1], location.chunk[2]>>
    BY <2>1
  <2>3. PICK v1 \in a1 .. b1, v2 \in a2 .. b2, v3 \in a3 .. b3 :
           /\ v1 \div ChunkSide = location.chunk[1] /\ v2 \div ChunkSide = location.chunk[2]
           /\ v3 \div SlabHeight = location.slab
    BY <1>4, <1>5, <1>6, <2>1, <2>2
  <2>4. <<v1, v2, v3>> \in IterBlocks(from, to)
    BY <1>2
  <2>5. SlabLocationOf(<<v1, v2, v3>>) = [chunk |-> location.chunk, slab |-> location.slab]
    BY <2>2, <2>3 DEF SlabLocationOf, ChunkOf, SlabIndexOf
  <2>6. location = [chunk |-> location.chunk, slab |-> location.slab]
    OBVIOUS
  <2> QED
    BY <2>4, <2>5, <2>6
<1>10. ASSUME NEW w \in IterBlocks(from, to)
       PROVE  SlabLocationOf(w) \in [chunk : (c1 .. d1) \X (c2 .. d2), slab : c3 .. d3]
  <2>1. w[1] \in a1 .. b1 /\ w[2] \in a2 .. b2 /\ w[3] \in a3 .. b3
    BY <1>2
  <2>2. /\ w[1] \div ChunkSide \in c1 .. d1 /\ w[2] \div ChunkSide \in c2 .. d2
        /\ w[3] \div SlabHeight \in c3 .. d3
    BY <1>4, <1>5, <1>6, <2>1
  <2> QED
    BY <2>2 DEF SlabLocationOf, ChunkOf, SlabIndexOf
<1>11. AllSlabsInRange(s, t) = {SlabLocationOf(w) : w \in IterBlocks(from, to)}
  BY <1>7, <1>9, <1>10
<1>12. /\ IsFiniteSet(c1 .. d1) /\ Cardinality(c1 .. d1) = d1 - c1 + 1
       /\ IsFiniteSet(c2 .. d2) /\ Cardinality(c2 .. d2) = d2 - c2 + 1
       /\ IsFiniteSet(c3 .. d3) /\ Cardinality(c3 .. d3) = d3 - c3 + 1
  <2>1. IsFiniteSet(c1 .. d1) /\ Cardinality(c1 .. d1) = d1 - c1 + 1
    BY <1>4, FS_Interval
  <2>2. IsFiniteSet(c2 .. d2) /\ Cardinality(c2 .. d2) = d2 - c2 + 1
    BY <1>5, FS_Interval
  <2>3. IsFiniteSet(c3 .. d3) /\ Cardinality(c3 .. d3) = d3 - c3 + 1
    BY <1>6, FS_Interval
  <2> QED
    BY <2>1, <2>2, <2>3
<1>13. /\ IsFiniteSet((c1 .. d1) \X (c2 .. d2))
       /\ Cardinality((c1 .. d1) \X (c2 .. d2)) = (d1 - c1 + 1) * (d2 - c2 + 1)
  <2>1. /\ IsFiniteSet((c1 .. d1) \X (c2 .. d2))
        /\ Cardinality((c1 .. d1) \X (c2 .. d2)) = Cardinality(c1 .. d1) * Cardinality(c2 .. d2)
    BY <1>12, FS_Product
  <2> QED
    BY <1>12, <2>1
<1>14. Cardinality(AllSlabsInRange(s, t)) = SlabCount(s, t)
  BY <1>7, <1>8, <1>12, <1>13, LocationsCount
<1> QED
  BY <1>11, <1>14 DEF s, t

\* Four sets that are not the same are four.
AllApart(A, B, C, D) == A # B /\ A # C /\ A # D /\ B # C /\ B # D /\ C # D

LEMMA FourCount ==
    ASSUME NEW A, NEW B, NEW C, NEW D, AllApart(A, B, C, D)
    PROVE  Cardinality({A, B, C, D}) = 4
<1> USE DEF AllApart
<1>1. IsFiniteSet({A}) /\ Cardinality({A}) = 1
  BY FS_Singleton
<1>2. IsFiniteSet({A} \cup {B}) /\ Cardinality({A} \cup {B}) = 2
  BY <1>1, FS_AddElement
<1>3. IsFiniteSet({A} \cup {B} \cup {C}) /\ Cardinality({A} \cup {B} \cup {C}) = 3
  BY <1>2, FS_AddElement
<1>4. Cardinality({A} \cup {B} \cup {C} \cup {D}) = 4
  BY <1>3, FS_AddElement
<1>5. {A, B, C, D} = {A} \cup {B} \cup {C} \cup {D}
  OBVIOUS
<1> QED
  BY <1>4, <1>5

\* Every block on a side of a range is on one side of the outline, and no side is another.
LEMMA OutlineIsRight ==
    ASSUME PositionsTypes, Outline(from, to) # {}
    PROVE  LET sides == {IterBlocks(r[1], r[2]) : r \in Outline(from, to)}
               p == Corner(from, to)
               q == FarCorner(from, to)
           IN /\ UNION sides = {w \in IterBlocks(from, to) :
                                  w[1] \in {p[1], q[1]} \/ w[2] \in {p[2], q[2]}}
              /\ \A a, b \in sides : a # b => a \cap b = {}
              /\ Cardinality(sides) = 4
<1> DEFINE sides == {IterBlocks(r[1], r[2]) : r \in Outline(from, to)}
           p == Corner(from, to)
           q == FarCorner(from, to)
<1>1. PICK p1 \in Int, p2 \in Int, p3 \in Int, q1 \in Int, q2 \in Int, q3 \in Int :
          /\ p1 = Lower(from, to, 1) /\ p2 = Lower(from, to, 2) /\ p3 = Lower(from, to, 3)
          /\ q1 = Upper(from, to, 1) /\ q2 = Upper(from, to, 2) /\ q3 = Upper(from, to, 3)
          /\ p1 <= q1 /\ p2 <= q2 /\ p3 <= q3
  <2>1. /\ Lower(from, to, 1) \in Int /\ Upper(from, to, 1) \in Int
        /\ Lower(from, to, 1) <= Upper(from, to, 1)
    BY CornersAreApart DEF PositionsTypes
  <2>2. /\ Lower(from, to, 2) \in Int /\ Upper(from, to, 2) \in Int
        /\ Lower(from, to, 2) <= Upper(from, to, 2)
    BY CornersAreApart DEF PositionsTypes
  <2>3. /\ Lower(from, to, 3) \in Int /\ Upper(from, to, 3) \in Int
        /\ Lower(from, to, 3) <= Upper(from, to, 3)
    BY CornersAreApart DEF PositionsTypes
  <2> QED
    BY <2>1, <2>2, <2>3
<1>2. /\ IterBlocks(from, to) = (p1 .. q1) \X (p2 .. q2) \X (p3 .. q3)
      /\ p = <<p1, p2, p3>> /\ q = <<q1, q2, q3>>
  BY <1>1 DEF IterBlocks, Along, Corner, FarCorner
<1>3. /\ q1 - p1 >= 2 /\ q2 - p2 >= 2
      /\ Outline(from, to) =
           {<<<<p1, p2, p3>>, <<q1, p2, q3>>>>, <<<<p1, p2 + 1, p3>>, <<p1, q2, q3>>>>,
            <<<<q1, p2 + 1, p3>>, <<q1, q2, q3>>>>, <<<<p1 + 1, q2, p3>>, <<q1 - 1, q2, q3>>>>}
  <2> DEFINE all == {<<p, <<q[1], p[2], q[3]>>>>,
                     <<<<p[1], p[2] + 1, p[3]>>, <<p[1], q[2], q[3]>>>>,
                     <<<<q[1], p[2] + 1, p[3]>>, q>>,
                     <<<<p[1] + 1, q[2], p[3]>>, <<q[1] - 1, q[2], q[3]>>>>}
  <2>1. Outline(from, to) = IF q[1] - p[1] < 2 \/ q[2] - p[2] < 2 THEN {} ELSE all
    BY DEF Outline
  <2>2. ~(q[1] - p[1] < 2 \/ q[2] - p[2] < 2) /\ Outline(from, to) = all
    BY <2>1
  <2> HIDE DEF all
  <2>3. p[1] = p1 /\ p[2] = p2 /\ p[3] = p3 /\ q[1] = q1 /\ q[2] = q2 /\ q[3] = q3
    BY <1>2
  <2> HIDE DEF p, q
  <2>4. all = {<<<<p1, p2, p3>>, <<q1, p2, q3>>>>, <<<<p1, p2 + 1, p3>>, <<p1, q2, q3>>>>,
               <<<<q1, p2 + 1, p3>>, <<q1, q2, q3>>>>,
               <<<<p1 + 1, q2, p3>>, <<q1 - 1, q2, q3>>>>}
    BY <1>2, <2>3 DEF all
  <2> QED
    BY <2>2, <2>3, <2>4
<1> DEFINE S1 == (p1 .. q1) \X (p2 .. p2) \X (p3 .. q3)
           S2 == (p1 .. p1) \X (p2 + 1 .. q2) \X (p3 .. q3)
           S3 == (q1 .. q1) \X (p2 + 1 .. q2) \X (p3 .. q3)
           S4 == (p1 + 1 .. q1 - 1) \X (q2 .. q2) \X (p3 .. q3)
<1>4. /\ IterBlocks(<<p1, p2, p3>>, <<q1, p2, q3>>) = S1
      /\ IterBlocks(<<p1, p2 + 1, p3>>, <<p1, q2, q3>>) = S2
      /\ IterBlocks(<<q1, p2 + 1, p3>>, <<q1, q2, q3>>) = S3
      /\ IterBlocks(<<p1 + 1, q2, p3>>, <<q1 - 1, q2, q3>>) = S4
  <2>1. /\ p1 <= p1 /\ q1 <= q1 /\ p2 <= p2 /\ q2 <= q2 /\ p2 + 1 <= q2 /\ p1 + 1 <= q1 - 1
        /\ p1 <= q1 /\ p2 <= q2 /\ p3 <= q3
        /\ p2 + 1 \in Int /\ p1 + 1 \in Int /\ q1 - 1 \in Int
    BY <1>1, <1>3
  <2> HIDE DEF p, q
  <2>2. IterBlocks(<<p1, p2, p3>>, <<q1, p2, q3>>) = S1
    BY <2>1 DEF IterBlocks, Along, Lower, Upper
  <2>3. IterBlocks(<<p1, p2 + 1, p3>>, <<p1, q2, q3>>) = S2
    BY <2>1 DEF IterBlocks, Along, Lower, Upper
  <2>4. IterBlocks(<<q1, p2 + 1, p3>>, <<q1, q2, q3>>) = S3
    BY <2>1 DEF IterBlocks, Along, Lower, Upper
  <2>5. IterBlocks(<<p1 + 1, q2, p3>>, <<q1 - 1, q2, q3>>) = S4
    BY <2>1 DEF IterBlocks, Along, Lower, Upper
  <2> QED
    BY <2>2, <2>3, <2>4, <2>5
<1>5. /\ S1 \cap S2 = {} /\ S1 \cap S3 = {} /\ S1 \cap S4 = {}
      /\ S2 \cap S3 = {} /\ S2 \cap S4 = {} /\ S3 \cap S4 = {}
  BY <1>1, <1>3
<1>6. S1 # {} /\ S2 # {} /\ S3 # {} /\ S4 # {}
  <2>1. /\ <<p1, p2, p3>> \in S1 /\ <<p1, q2, p3>> \in S2 /\ <<q1, q2, p3>> \in S3
        /\ <<p1 + 1, q2, p3>> \in S4
    BY <1>1, <1>3
  <2> QED
    BY <2>1
<1>7. \A w \in Int \X Int \X Int :
         w \in S1 \/ w \in S2 \/ w \in S3 \/ w \in S4 <=>
            w \in IterBlocks(from, to) /\ (w[1] \in {p1, q1} \/ w[2] \in {p2, q2})
  <2> TAKE w \in Int \X Int \X Int
  <2>1. PICK w1 \in Int, w2 \in Int, w3 \in Int : w = <<w1, w2, w3>>
    OBVIOUS
  <2> QED
    BY <1>1, <1>2, <1>3, <2>1
<1>8. /\ S1 \subseteq Int \X Int \X Int /\ S2 \subseteq Int \X Int \X Int
      /\ S3 \subseteq Int \X Int \X Int /\ S4 \subseteq Int \X Int \X Int
      /\ IterBlocks(from, to) \subseteq Int \X Int \X Int
  BY <1>2
<1> HIDE DEF S1, S2, S3, S4
<1>9. sides = {S1, S2, S3, S4}
  BY <1>3, <1>4
<1>10. S1 # S2 /\ S1 # S3 /\ S1 # S4 /\ S2 # S3 /\ S2 # S4 /\ S3 # S4
  BY <1>5, <1>6
<1>11. Cardinality(sides) = 4
  <2>1. AllApart(S1, S2, S3, S4)
    BY <1>10 DEF AllApart
  <2> QED
    BY <1>9, <2>1, FourCount
<1>12. \A a, b \in sides : a # b => a \cap b = {}
  BY <1>5, <1>9
<1>13. UNION sides = {w \in IterBlocks(from, to) : w[1] \in {p1, q1} \/ w[2] \in {p2, q2}}
  <2>1. UNION sides = S1 \cup S2 \cup S3 \cup S4
    BY <1>9
  <2> QED
    BY <1>7, <1>8, <2>1
<1>14. p[1] = p1 /\ p[2] = p2 /\ q[1] = q1 /\ q[2] = q2
  BY <1>2
<1> HIDE DEF sides, p, q
<1>15. UNION sides =
         {w \in IterBlocks(from, to) : w[1] \in {p[1], q[1]} \/ w[2] \in {p[2], q[2]}}
  BY <1>13, <1>14
<1> QED
  BY <1>11, <1>12, <1>15 DEF sides, p, q

\* All of that.
LEMMA RangesDoCover ==
    ASSUME PositionsTypes
    PROVE  RangesCover
  BY BlocksCount, ExclusiveIsSome, SlabsCover, OutlineIsRight DEF RangesCover

\* The corners are positions.
LEMMA PositionsInvariant == PositionsSpec => []PositionsTypes
<1>1. PositionsInit => PositionsTypes
  BY PositionsAssumption DEF PositionsInit, PositionsTypes, Corners
<1>2. PositionsTypes /\ [PositionsNext]_rangevars => PositionsTypes'
  BY DEF PositionsTypes, PositionsNext, Drag, rangevars, Corners
<1> QED
  BY <1>1, <1>2, PTL DEF PositionsSpec

\* Wherever the corners are dragged, on either side of the origin and for every size of chunks,
\* slabs and grids, positions, ranges and indices agree on which blocks they are about.
THEOREM PositionsDoAgree == PositionsSpec => []PositionsAgree
<1>1. PositionsTypes => PositionsAgree
  BY SlabsDoPartition, StepsDoAgree, RangesDoCover, GridsDoUnfold DEF PositionsAgree
<1> QED
  BY <1>1, PositionsInvariant, PTL
=============================================================================
