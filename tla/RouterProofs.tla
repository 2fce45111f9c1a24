---------------------------- MODULE RouterProofs ----------------------------
(***************************************************************************)
(* Proofs about NotificationRouter, for any destinations, subscriptions,   *)
(* batch sizes, windows, retries and crashes.                              *)
(***************************************************************************)
EXTENDS NotificationRouter, Basics

\* Events handed in by the calls up to c.
Reached(c) == IF c < 1 THEN 0 ELSE IF c = 1 THEN 1 ELSE Len(Script)

\* The first event that d has still to be shown: each call shows every destination
\* the events that follow those of the call before.
Horizon(d) ==
    IF d < dest THEN Reached(call) + 1
    ELSE IF d = dest THEN Reached(call) + 1 - Len(todo)
    ELSE Reached(call - 1) + 1

\* What is left of the call's events is their end.
WorkInv ==
    /\ Len(todo) <= Reached(call) - Reached(call - 1)
    /\ \A i \in 1 .. Len(todo) : todo[i] = Reached(call) - Len(todo) + i

\* A queue holds results of one bar that the destination has been shown.
QueueInv ==
    \A d \in Destinations : \A e \in InRange(pending[d]) :
        /\ IsResult(e)
        /\ e < Horizon(d)
        /\ \A f \in InRange(pending[d]) : Script[e].bar = Script[f].bar

\* A message of this life is about events shown before, and before those queued.
LogInv ==
    \A d \in Destinations : \A i \in DOMAIN received[d] :
        /\ received[d][i].life <= crashes
        /\ received[d][i].life = crashes =>
             \A e \in InRange(received[d][i].events) :
                 e < Horizon(d) /\ \A f \in InRange(pending[d]) : e < f

Busy == stage \in {"send", "record"}
Uniform(events) ==
    /\ Len(events) <= MaximumEvents
    /\ \A e, f \in InRange(events) : Script[e].bar = Script[f].bar
    /\ Len(events) > 1 => \A e \in InRange(events) : IsResult(e)

\* While a batch is sent the queue is empty, and a result that waits to be queued
\* is still to be shown.
HeldInv ==
    /\ stage # "route" => call # Closed /\ pending[dest] = <<>>
    /\ stage = "append" \/ (Busy /\ after = "append") =>
         Batching /\ todo # <<>> /\ IsResult(Event)

\* A batch follows what this life has sent, unless that was an attempt with it; none
\* of its events was recorded within the window when it was formed.
BatchInv ==
    Busy =>
        /\ Uniform(batch)
        /\ \A e \in InRange(batch) :
             /\ e < Horizon(dest)
             /\ recorded[dest][KeyOf(e)] # Never =>
                  seen - recorded[dest][KeyOf(e)] >= WindowSeconds
        /\ \A i \in DOMAIN received[dest] : received[dest][i].life = crashes =>
             \/ received[dest][i].events = batch
             \/ \A e \in InRange(received[dest][i].events) :
                \A f \in InRange(batch) : e < f

\* What is about to be recorded has arrived.
ArrivedInv ==
    stage = "record" =>
        \E i \in DOMAIN received[dest] :
            received[dest][i] = [life |-> crashes, events |-> batch]

\* Where an event that was shown to d can be.
Waiting(d) ==
    InRange(pending[d]) \cup (IF d = dest /\ Busy THEN InRange(batch) ELSE {})
CoverInv ==
    ~unreadable /\ troubled = {} =>
        \A d \in Destinations :
            /\ \A e \in Events : Wants(d, e) /\ e < Horizon(d) =>
                 e \in Accounted(d) \cup Waiting(d)
            /\ call = Closed \/ (call = 3 /\ d < dest) => pending[d] = <<>>

RouteInv == WorkInv /\ QueueInv /\ LogInv /\ HeldInv /\ BatchInv /\ ArrivedInv /\ CoverInv
SentInv == OrderKept /\ BatchesAreUniform /\ RecordedWasReceived
IInv == TypeOK /\ RouteInv /\ SentInv

-----------------------------------------------------------------------------
(* The script and the horizon.                                              *)

LEMMA FirstIsDestination == 1 \in Destinations
<1>1. Cardinality(Destinations) \in Nat
  BY FS_CardinalityType, RouterAssumption
<1>2. QED BY <1>1, RouterAssumption

LEMMA DestinationsAre == Destinations \subseteq Nat \ {0}
<1>1. Cardinality(Destinations) \in Nat
  BY FS_CardinalityType, RouterAssumption
<1>2. QED BY <1>1, RouterAssumption

\* The first event is of the run itself, and a run that fails has no results.
LEMMA ScriptIs ==
    ASSUME results \in Seq(Decisions), succeeds \in BOOLEAN
    PROVE  /\ Len(Script) \in Nat /\ Len(Script) >= 2
           /\ Events = 1 .. Len(Script)
           /\ ~IsResult(1)
           /\ ~succeeds => Len(Script) = 2 /\ ~IsResult(2)
           /\ \A e \in Events : KeyOf(e) \in AllKeys
<1> DEFINE Types == EventTypes \ {"decision"}
           Entry == [type : EventTypes, key : AllKeys, bar : Bars \cup {"none"}]
<1>1. \A t \in Types : Lifecycle(t) \in Entry /\ Lifecycle(t).type = t
  BY DEF Lifecycle, AllKeys
<1>2. Decisions \subseteq Entry
  BY DEF Decisions, AllKeys, EventTypes
<1>3. "run_started" \in Types /\ "run_succeeded" \in Types /\ "run_failed" \in Types
  BY DEF EventTypes
<1>4. \A x \in Entry : x.key \in AllKeys
  OBVIOUS
<1>5. PICK a \in Entry : a = Lifecycle("run_started") /\ a.type = "run_started"
  BY <1>1, <1>3
<1>6. PICK b \in Entry : b = Lifecycle("run_succeeded")
  BY <1>1, <1>3
<1>7. PICK c \in Entry : c = Lifecycle("run_failed") /\ c.type = "run_failed"
  BY <1>1, <1>3
<1> HIDE DEF Entry, Types
<1>8. results \in Seq(Entry) /\ Len(results) \in Nat
  BY <1>2
<1>9. CASE succeeds
  <2>1. Script = <<a>> \o results \o <<b>>
    BY <1>5, <1>6, <1>9 DEF Script
  <2>2. Script \in Seq(Entry) /\ Len(Script) = Len(results) + 2 /\ Script[1] = a
    BY <1>8, <2>1
  <2>3. \A e \in 1 .. Len(Script) : Script[e] \in Entry
    BY <2>2
  <2>4. QED BY <1>4, <1>5, <1>8, <1>9, <2>2, <2>3 DEF Events, IsResult, KeyOf
<1>10. CASE ~succeeds
  <2>1. Script = <<a, c>>
    BY <1>5, <1>7, <1>10 DEF Script
  <2>2. Len(Script) = 2 /\ Script[1] = a /\ Script[2] = c
    BY <2>1
  <2>3. QED BY <1>4, <1>5, <1>7, <2>2 DEF Events, IsResult, KeyOf
<1>11. QED BY <1>9, <1>10

\* The script is chosen once.
LEMMA SameScript ==
    ASSUME UNCHANGED runVars
    PROVE  /\ Script' = Script /\ Events' = Events
           /\ \A e : (KeyOf(e))' = KeyOf(e) /\ (IsResult(e))' = IsResult(e)
           /\ \A d, e : (Wants(d, e))' = Wants(d, e)
           /\ \A c : (Reached(c))' = Reached(c)
           /\ \A c : (CallEvents(c))' = CallEvents(c)
           /\ \A s : (Uniform(s))' = Uniform(s)
<1>1. Script' = Script
  BY DEF runVars, Script
<1>2. QED BY <1>1 DEF Events, KeyOf, IsResult, Wants, Reached, CallEvents, Uniform

LEMMA CallsAre ==
    ASSUME results \in Seq(Decisions), succeeds \in BOOLEAN, NEW c \in 1 .. Closed
    PROVE  /\ CallEvents(c) \in Seq(Events)
           /\ Len(CallEvents(c)) = Reached(c) - Reached(c - 1)
           /\ \A i \in 1 .. Len(CallEvents(c)) :
                CallEvents(c)[i] = Reached(c) - Len(CallEvents(c)) + i
<1> DEFINE n == Len(Script)
<1>1. n \in Nat /\ n >= 2 /\ Events = 1 .. n
  BY ScriptIs
<1>2. c \in Nat /\ c >= 1 /\ c <= 4
  BY DEF Closed
<1>3. CASE c = 1
  <2>1. CallEvents(c) = <<1>> /\ Reached(c) = 1 /\ Reached(c - 1) = 0
    BY <1>3 DEF CallEvents, Reached
  <2>2. QED BY <1>1, <2>1
<1>4. CASE c = 2
  <2>1. /\ CallEvents(c) = [i \in 1 .. n - 1 |-> i + 1]
        /\ Reached(c) = n /\ Reached(c - 1) = 1
    BY <1>4 DEF CallEvents, Reached
  <2>2. CallEvents(c) \in [1 .. n - 1 -> Events] /\ n - 1 \in Nat
    BY <1>1, <2>1
  <2>3. CallEvents(c) \in Seq(Events) /\ Len(CallEvents(c)) = n - 1
    BY <2>2
  <2>4. QED BY <1>1, <2>1, <2>3
<1>5. CASE c > 2
  <2>1. CallEvents(c) = <<>> /\ Reached(c) = n /\ Reached(c - 1) = n
    BY <1>2, <1>5 DEF CallEvents, Reached
  <2>2. QED BY <1>1, <2>1
<1>6. QED BY <1>2, <1>3, <1>4, <1>5

\* The horizon is where the destination is; the next event to see is at it.
LEMMA HorizonIs ==
    ASSUME TypeOK, WorkInv
    PROVE  /\ \A c \in Int : Reached(c) \in Nat /\ Reached(c) <= Len(Script)
           /\ \A c, b \in Int : b <= c => Reached(b) <= Reached(c)
           /\ \A d \in Destinations :
                /\ Horizon(d) \in Nat
                /\ Reached(call - 1) + 1 <= Horizon(d) /\ Horizon(d) <= Reached(call) + 1
           /\ todo # <<>> => Event = Horizon(dest) /\ Event \in Events
           /\ Len(todo) \in Nat /\ (todo = <<>> <=> Len(todo) = 0)
           /\ \A e \in Events : e \in Nat
<1>0. Len(Script) \in Nat /\ Len(Script) >= 2 /\ Events = 1 .. Len(Script)
  BY ScriptIs DEF TypeOK, RunTypes
<1>1. \A c \in Int : Reached(c) \in Nat /\ Reached(c) <= Len(Script)
  BY <1>0 DEF Reached
<1>2. \A c, b \in Int : b <= c => Reached(b) <= Reached(c)
  BY <1>0 DEF Reached
<1>3. todo \in Seq(Events) /\ Len(todo) \in Nat /\ (todo = <<>> <=> Len(todo) = 0)
  BY DEF TypeOK, WorkTypes
<1>4. call \in Int /\ dest \in Nat /\ \A d \in Destinations : d \in Nat
  BY DestinationsAre DEF TypeOK, WorkTypes, Closed
<1>5. Reached(call) \in Nat /\ Reached(call - 1) \in Nat /\ Reached(call - 1) <= Reached(call)
  BY <1>1, <1>2, <1>4
<1>6. Len(todo) <= Reached(call) - Reached(call - 1)
  BY DEF WorkInv
<1>7. \A d \in Destinations :
        /\ Horizon(d) \in Nat
        /\ Reached(call - 1) + 1 <= Horizon(d) /\ Horizon(d) <= Reached(call) + 1
  BY <1>3, <1>4, <1>5, <1>6 DEF Horizon
<1>8. ASSUME todo # <<>> PROVE Event = Horizon(dest) /\ Event \in Events
  <2>1. 1 \in 1 .. Len(todo)
    BY <1>3, <1>8
  <2>2. todo[1] = Reached(call) - Len(todo) + 1 /\ todo[1] \in Events
    BY <2>1, <1>3 DEF WorkInv
  <2>3. QED BY <2>2, <1>3, <1>4, <1>5 DEF Horizon, Event
<1>9. QED BY <1>0, <1>1, <1>2, <1>3, <1>7, <1>8

-----------------------------------------------------------------------------
(* The loop of _flush_destination keeps exactly the events still new.       *)

LEMMA EligibleIs ==
    ASSUME NEW queue \in Seq(Events)
    PROVE  /\ Eligible(queue) \in Seq(Events)
           /\ Len(Eligible(queue)) <= Len(queue)
           /\ InRange(Eligible(queue)) = {e \in InRange(queue) : StillNew(e)}
<1> DEFINE n == Len(queue)
           Turn(f, i) == IF i = 0 THEN <<>>
                         ELSE IF StillNew(queue[i]) THEN Append(f[i - 1], queue[i])
                         ELSE f[i - 1]
           Loop(f, m) == f = [i \in 0 .. m |-> Turn(f, i)]
           Possible == {m \in Nat : \E f : Loop(f, m)}
           kept == CHOOSE f : Loop(f, n)
           First(i) == {e \in {queue[j] : j \in 1 .. i} : StillNew(e)}
           Right(i) == /\ kept[i] \in Seq(Events) /\ Len(kept[i]) <= i
                       /\ InRange(kept[i]) = First(i)
           Good == {i \in Nat : i <= n => Right(i)}
<1>1. n \in Nat /\ \A i \in 1 .. n : queue[i] \in Events
  OBVIOUS
<1>2. 0 \in Possible
  <2> DEFINE f == [i \in 0 .. 0 |-> <<>>]
  <2>1. \A i \in 0 .. 0 : Turn(f, i) = <<>>
    OBVIOUS
  <2> HIDE DEF Turn
  <2>2. Loop(f, 0)
    BY <2>1
  <2>3. QED BY <2>2
<1>3. ASSUME NEW m \in Nat, m \in Possible PROVE m + 1 \in Possible
  <2>1. PICK f : Loop(f, m)
    BY <1>3
  <2> DEFINE g == [i \in 0 .. m + 1 |-> IF i <= m THEN f[i] ELSE Turn(f, i)]
  <2>2. \A i \in 0 .. m : g[i] = f[i] /\ f[i] = Turn(f, i)
    <3>1. \A i \in 0 .. m : f[i] = Turn(f, i)
      <4> HIDE DEF Turn, g
      <4>1. QED BY <2>1
    <3>2. \A i \in 0 .. m : g[i] = f[i]
      <4> HIDE DEF Turn
      <4>1. \A i \in 0 .. m : i \in 0 .. m + 1 /\ i <= m
        OBVIOUS
      <4>2. QED BY <4>1
    <3> HIDE DEF Turn, g
    <3>3. QED BY <3>1, <3>2
  <2>3. \A i \in 0 .. m + 1 : i = 0 \/ i - 1 \in 0 .. m
    OBVIOUS
  <2>4. ASSUME NEW i \in 0 .. m + 1 PROVE g[i] = Turn(g, i)
    <3>1. Turn(g, i) = Turn(f, i)
      BY <2>2, <2>3
    <3>2. g[i] = Turn(f, i)
      <4>1. g[i] = IF i <= m THEN f[i] ELSE Turn(f, i)
        <5> HIDE DEF Turn
        <5>1. QED OBVIOUS
      <4>2. i <= m => f[i] = Turn(f, i)
        <5> HIDE DEF Turn, g
        <5>1. QED BY <2>2
      <4> HIDE DEF Turn, g
      <4>3. QED BY <4>1, <4>2
    <3>3. QED BY <3>1, <3>2
  <2>5. g = [i \in 0 .. m + 1 |-> g[i]]
    OBVIOUS
  <2> HIDE DEF g, Turn
  <2>6. Loop(g, m + 1)
    BY <2>4, <2>5
  <2>7. QED BY <2>6
<1>4. n \in Possible
  <2> HIDE DEF Possible, n
  <2>1. Nat \subseteq Possible
    BY <1>2, <1>3, Induction
  <2>2. QED BY <1>1, <2>1
<1>5. Loop(kept, n)
  BY <1>4
<1>6. Eligible(queue) = kept[n]
  BY DEF Eligible
<1> HIDE DEF kept
<1>7. kept[0] = <<>> /\ \A i \in 0 .. n : i # 0 =>
         kept[i] = IF StillNew(queue[i]) THEN Append(kept[i - 1], queue[i]) ELSE kept[i - 1]
  <2>1. \A i \in 0 .. n : kept[i] = Turn(kept, i)
    <3> HIDE DEF Turn, n
    <3>1. QED BY <1>5
  <2>2. 0 \in 0 .. n
    BY <1>1
  <2>3. QED BY <2>1, <2>2
<1>8. 0 \in Good
  <2>1. InRange(<<>>) = {} /\ First(0) = {} /\ Len(<<>>) = 0
    BY DEF InRange
  <2>2. Right(0)
    <3>1. <<>> \in Seq(Events) /\ Len(<<>>) <= 0 /\ kept[0] = <<>>
      BY <1>7
    <3>2. InRange(kept[0]) = First(0)
      <4> HIDE DEF First
      <4>1. QED BY <2>1, <3>1
    <3> HIDE DEF First
    <3>3. QED BY <3>1, <3>2
  <2> HIDE DEF Right
  <2>3. QED BY <2>2
<1>9. ASSUME NEW i \in Nat, i \in Good PROVE i + 1 \in Good
  <2>1. SUFFICES ASSUME i + 1 <= n PROVE Right(i + 1)
    OBVIOUS
  <2>2. Right(i) /\ i + 1 \in 1 .. n /\ i + 1 \in 0 .. n /\ i + 1 # 0 /\ (i + 1) - 1 = i
    BY <1>1, <1>9, <2>1
  <2>3. 1 .. i + 1 = (1 .. i) \cup {i + 1}
    OBVIOUS
  <2>4. {queue[j] : j \in 1 .. i + 1} = {queue[j] : j \in 1 .. i} \cup {queue[i + 1]}
    BY <2>3
  <2> DEFINE x == queue[i + 1]
             s == kept[i]
  <2>5. x \in Events /\ s \in Seq(Events) /\ Len(s) <= i
    BY <1>1, <2>2
  <2>6. CASE StillNew(x)
    <3>1. kept[i + 1] = Append(s, x)
      BY <1>7, <2>2, <2>6
    <3>2. First(i + 1) = First(i) \cup {x}
      BY <2>4, <2>6
    <3> HIDE DEF x, s, First
    <3>3. InRange(Append(s, x)) = InRange(s) \cup {x}
      <4>1. /\ DOMAIN s = 1 .. Len(s) /\ DOMAIN Append(s, x) = 1 .. Len(s) + 1 /\ Len(s) \in Nat
            /\ Append(s, x)[Len(s) + 1] = x
            /\ \A j \in 1 .. Len(s) : Append(s, x)[j] = s[j]
        BY <2>5
      <4>2. QED BY <4>1 DEF InRange
    <3>4. Append(s, x) \in Seq(Events) /\ Len(Append(s, x)) <= i + 1
      BY <2>5
    <3>5. InRange(s) = First(i)
      BY <2>2 DEF s
    <3>6. QED BY <3>1, <3>2, <3>3, <3>4, <3>5
  <2>7. CASE ~StillNew(x)
    <3>1. kept[i + 1] = s
      BY <1>7, <2>2, <2>7
    <3>2. First(i + 1) = First(i)
      BY <2>4, <2>7
    <3> HIDE DEF First
    <3>3. Len(s) <= i + 1
      BY <2>5
    <3>4. QED BY <2>2, <3>1, <3>2, <3>3
  <2>8. QED BY <2>6, <2>7
<1>10. Right(n)
  <2> HIDE DEF Good, Right
  <2>1. Nat \subseteq Good
    BY <1>8, <1>9, Induction
  <2>2. QED BY <1>1, <2>1 DEF Good
<1>11. First(n) = {e \in InRange(queue) : StillNew(e)}
  BY DEF InRange
<1>12. QED BY <1>6, <1>10, <1>11

-----------------------------------------------------------------------------
(* Types.                                                                   *)

LEMMA StepKeepsScript ==
    ASSUME [Next]_vars
    PROVE  UNCHANGED runVars
BY DEF Next, vars, runVars, Route, Attempt, SkipEvent, FlushFirst, DeliverNow,
   DropDuplicate, FlushBefore, AppendResult, AppendAfterFlush, Enqueue, FlushFull,
   FlushAtClose, Flush, NextDestination, StateUnreadable, AttemptAccepted,
   AttemptRefused, AttemptUnclear, AttemptRaises, Record, Tick, Crash

\* What is left alone keeps its type.
LEMMA TypesKept ==
    ASSUME TypeOK, UNCHANGED runVars
    PROVE  /\ Script' = Script /\ Events' = Events
           /\ UNCHANGED <<now, recorded, crashes>> => RunTypes'
           /\ UNCHANGED <<call, dest, todo>> => WorkTypes'
           /\ UNCHANGED <<stage, sendVars>> => SendTypes'
           /\ UNCHANGED queueVars => QueueTypes'
           /\ UNCHANGED <<received, reportVars>> => ReportTypes'
<1>1. Script' = Script /\ Events' = Events
  BY SameScript
<1>2. UNCHANGED <<now, recorded, crashes>> => RunTypes'
  BY DEF TypeOK, RunTypes, runVars
<1>3. UNCHANGED <<call, dest, todo>> => WorkTypes'
  BY <1>1 DEF TypeOK, WorkTypes
<1>4. UNCHANGED <<stage, sendVars>> => SendTypes'
  BY <1>1 DEF TypeOK, SendTypes, sendVars
<1>5. UNCHANGED queueVars => QueueTypes'
  BY <1>1 DEF TypeOK, QueueTypes, queueVars
<1>6. UNCHANGED <<received, reportVars>> => ReportTypes'
  BY <1>1 DEF TypeOK, ReportTypes, reportVars, Messages
<1>7. QED BY <1>1, <1>2, <1>3, <1>4, <1>5, <1>6

LEMMA FreshTypes ==
    ASSUME TypeOK, UNCHANGED runVars, NEW c \in 1 .. Closed, Fresh(c)
    PROVE  WorkTypes' /\ SendTypes'
<1>1. CallEvents(c) \in Seq(Events)
  BY CallsAre DEF TypeOK, RunTypes
<1>2. Events' = Events
  BY SameScript
<1>3. WorkTypes'
  BY <1>1, <1>2, FirstIsDestination DEF Fresh, WorkTypes
<1>4. SendTypes'
  BY <1>2, RouterAssumption DEF Fresh, SendTypes, Time
<1>5. QED BY <1>3, <1>4

\* What a flush does with the queue.
LEMMA FlushIs ==
    ASSUME TypeOK, NEW next \in {"route", "append"}, Flush(next)
    PROVE  /\ pending[dest] # <<>>
           /\ pending' = [pending EXCEPT ![dest] = <<>>]
           /\ deadline' = [deadline EXCEPT ![dest] = Never]
           /\ seen' = now
           /\ suppressed' = [suppressed EXCEPT ![dest] =
                @ \cup {e \in InRange(pending[dest]) : ~StillNew(e)}]
           /\ UNCHANGED <<runVars, now, recorded, call, dest, todo, received, failed,
                          troubled, unreadable, crashes>>
           /\ \/ /\ \A e \in InRange(pending[dest]) : ~StillNew(e)
                 /\ stage' = next /\ UNCHANGED <<after, batch, tries>>
              \/ /\ stage' = "send" /\ after' = next /\ tries' = 0
                 /\ batch' \in Seq(Events) /\ batch' # <<>>
                 /\ Len(batch') <= Len(pending[dest])
                 /\ InRange(batch') = {e \in InRange(pending[dest]) : StillNew(e)}
<1> DEFINE queue == pending[dest]
           eligible == Eligible(queue)
<1>1. queue \in Seq(Events)
  BY DEF TypeOK, QueueTypes, WorkTypes
<1>2. /\ eligible \in Seq(Events) /\ Len(eligible) <= Len(queue)
      /\ InRange(eligible) = {e \in InRange(queue) : StillNew(e)}
  <2> HIDE DEF queue
  <2>1. QED BY <1>1, EligibleIs
<1>3. InRange(queue) \ InRange(eligible) = {e \in InRange(queue) : ~StillNew(e)}
  BY <1>2
<1>4. eligible = <<>> => \A e \in InRange(queue) : ~StillNew(e)
  <2>1. InRange(<<>>) = {}
    BY DEF InRange
  <2>2. QED BY <1>2, <2>1
<1> HIDE DEF eligible
<1>5. /\ queue # <<>>
      /\ pending' = [pending EXCEPT ![dest] = <<>>]
      /\ deadline' = [deadline EXCEPT ![dest] = Never]
      /\ Suppress(InRange(queue) \ InRange(eligible))
      /\ IF eligible = <<>>
         THEN stage' = next /\ seen' = now /\ UNCHANGED <<after, batch, tries>>
         ELSE Send(eligible, next)
      /\ UNCHANGED <<runVars, now, recorded, call, dest, todo, received, failed,
                     troubled, unreadable, crashes>>
  BY DEF Flush, eligible
<1>6. suppressed' = [suppressed EXCEPT ![dest] =
                @ \cup {e \in InRange(queue) : ~StillNew(e)}]
  BY <1>3, <1>5 DEF Suppress
<1>7. CASE eligible = <<>>
  BY <1>4, <1>5, <1>6, <1>7
<1>8. CASE eligible # <<>>
  BY <1>2, <1>5, <1>6, <1>8 DEF Send
<1>9. QED BY <1>7, <1>8

\* A queue taken for flushing.
Emptied ==
    /\ pending' = [pending EXCEPT ![dest] = <<>>]
    /\ deadline' = [deadline EXCEPT ![dest] = Never]
LEMMA EmptiedTypes ==
    ASSUME TypeOK, UNCHANGED runVars, Emptied
    PROVE  QueueTypes'
<1>1. Events' = Events
  BY SameScript
<1>2. pending' \in [Destinations -> Seq(Events)]
  <2>1. <<>> \in Seq(Events) /\ pending \in [Destinations -> Seq(Events)]
    BY DEF TypeOK, QueueTypes
  <2>2. QED BY <2>1 DEF Emptied
<1>3. deadline' \in [Destinations -> Nat \cup {Never}]
  BY DEF Emptied, TypeOK, QueueTypes
<1>4. \A d \in Destinations :
        \/ pending'[d] = <<>> /\ Len(pending'[d]) <= MaximumEvents
        \/ pending'[d] = pending[d] /\ deadline'[d] = deadline[d]
  BY RouterAssumption DEF Emptied, TypeOK, QueueTypes
<1>5. QED BY <1>1, <1>2, <1>3, <1>4 DEF TypeOK, QueueTypes

LEMMA FlushTypes ==
    ASSUME TypeOK, stage = "route", NEW next \in {"route", "append"}, Flush(next)
    PROVE  TypeOK'
<1>1. UNCHANGED runVars /\ Emptied
  BY FlushIs DEF Emptied
<1>2. Events' = Events /\ RunTypes' /\ WorkTypes' /\ QueueTypes'
  BY <1>1, TypesKept, EmptiedTypes, FlushIs
<1>3. ReportTypes'
  <2> DEFINE dropped == {e \in InRange(pending[dest]) : ~StillNew(e)}
  <2>1. dropped \subseteq Events
    BY DEF InRange, TypeOK, QueueTypes, WorkTypes
  <2>2. suppressed' = [suppressed EXCEPT ![dest] = @ \cup dropped]
    BY FlushIs
  <2> HIDE DEF dropped
  <2>3. suppressed' \in [Destinations -> SUBSET Events]
    BY <2>1, <2>2 DEF TypeOK, ReportTypes
  <2>4. UNCHANGED <<received, failed, troubled, unreadable>>
    BY FlushIs
  <2>5. QED BY <1>2, <2>3, <2>4 DEF TypeOK, ReportTypes, Messages
<1>4. SendTypes'
  <2>1. seen' \in Time
    BY FlushIs DEF TypeOK, RunTypes
  <2>2. 0 \in 0 .. MaximumAttempts /\ 0 < MaximumAttempts
    BY RouterAssumption
  <2>3. CASE stage' = next /\ UNCHANGED <<after, batch, tries>>
    BY <1>2, <2>1, <2>3 DEF TypeOK, SendTypes
  <2>4. CASE /\ stage' = "send" /\ after' = next /\ tries' = 0
             /\ batch' \in Seq(Events) /\ batch' # <<>>
    BY <1>2, <2>1, <2>2, <2>4 DEF SendTypes
  <2>5. QED BY <2>3, <2>4, FlushIs
<1>5. QED BY <1>2, <1>3, <1>4 DEF TypeOK

LEMMA EnqueueTypes ==
    ASSUME TypeOK, NEW read \in Time, Enqueue(read), todo # <<>>,
           Len(pending[dest]) < MaximumEvents, ~Busy
    PROVE  TypeOK'
<1>0. UNCHANGED runVars /\ Events' = Events
  BY SameScript DEF Enqueue
<1>1. RunTypes' /\ ReportTypes'
  BY <1>0, TypesKept DEF Enqueue
<1>2. WorkTypes' /\ Event \in Events
  BY <1>0 DEF Enqueue, TypeOK, WorkTypes, Event
<1>3. SendTypes'
  BY <1>0 DEF Enqueue, TypeOK, SendTypes, sendVars, Busy
<1> DEFINE longer == Append(pending[dest], Event)
<1>4. longer \in Seq(Events) /\ Len(longer) <= MaximumEvents
  BY <1>2, RouterAssumption DEF TypeOK, QueueTypes, WorkTypes
<1>5. pending' = [pending EXCEPT ![dest] = longer]
  BY DEF Enqueue
<1> HIDE DEF longer
<1>6. pending' \in [Destinations -> Seq(Events)]
  BY <1>4, <1>5 DEF TypeOK, QueueTypes
<1>7. read + FlushSeconds \in Nat
  BY RouterAssumption DEF Time
<1>8. QueueTypes'
  BY <1>0, <1>4, <1>5, <1>6, <1>7 DEF Enqueue, TypeOK, QueueTypes
<1>9. QED BY <1>1, <1>2, <1>3, <1>8 DEF TypeOK

LEMMA RouteTypes ==
    ASSUME TypeOK, HeldInv, Route
    PROVE  TypeOK'
<1>0. UNCHANGED runVars /\ Events' = Events
  <2>1. UNCHANGED runVars
    BY StepKeepsScript DEF Next
  <2>2. QED BY <2>1, SameScript
<1>1. todo # <<>> => Tail(todo) \in Seq(Events) /\ Event \in Events
  BY DEF TypeOK, WorkTypes, Event
<1>2. CASE FlushFirst \/ FlushBefore \/ FlushFull \/ FlushAtClose
  <2>1. stage = "route" /\ (Flush("route") \/ Flush("append"))
    BY <1>2 DEF FlushFirst, FlushBefore, FlushFull, FlushAtClose, AtEvent, NewResult, Routing
  <2>2. QED BY <2>1, FlushTypes
<1>3. CASE SkipEvent
  <2>1. WorkTypes'
    BY <1>0, <1>1, <1>3 DEF SkipEvent, TypeOK, WorkTypes
  <2>2. QED BY <1>0, <1>3, <2>1, TypesKept DEF SkipEvent, TypeOK
<1>4. CASE DropDuplicate
  <2>1. WorkTypes' /\ Event \in Events
    BY <1>0, <1>1, <1>4 DEF DropDuplicate, AtEvent, TypeOK, WorkTypes
  <2>2. ReportTypes'
    BY <1>0, <1>4, <2>1 DEF DropDuplicate, Suppress, TypeOK, ReportTypes, Messages
  <2>3. QED BY <1>0, <1>4, <2>1, <2>2, TypesKept DEF DropDuplicate, TypeOK
<1>5. CASE DeliverNow
  <2>1. WorkTypes' /\ Event \in Events
    BY <1>0, <1>1, <1>5 DEF DeliverNow, SentAtOnce, AtEvent, TypeOK, WorkTypes
  <2>2. <<Event>> \in Seq(Events) /\ <<Event>> # <<>>
    BY <2>1
  <2>3. SendTypes'
    BY <1>0, <1>5, <2>2, RouterAssumption DEF DeliverNow, Send, TypeOK, SendTypes, RunTypes
  <2>4. QED BY <1>0, <1>5, <2>1, <2>3, TypesKept DEF DeliverNow, TypeOK
<1>6. CASE AppendResult
  <2>1. todo # <<>> /\ ~Busy /\ ~QueueFull /\ Enqueue(now)
    BY <1>6 DEF AppendResult, NewResult, AtEvent, Routing, Busy
  <2>2. Len(pending[dest]) < MaximumEvents /\ now \in Time
    BY <2>1, RouterAssumption DEF QueueFull, TypeOK, QueueTypes, RunTypes, WorkTypes
  <2>3. QED BY <2>1, <2>2, EnqueueTypes
<1>7. CASE AppendAfterFlush
  <2>1. todo # <<>> /\ ~Busy /\ pending[dest] = <<>> /\ Enqueue(seen)
    BY <1>7 DEF AppendAfterFlush, HeldInv, Busy
  <2>2. Len(pending[dest]) < MaximumEvents /\ seen \in Time
    BY <2>1, RouterAssumption DEF TypeOK, SendTypes
  <2>3. QED BY <2>1, <2>2, EnqueueTypes
<1>8. CASE NextDestination
  <2>1. CASE dest + 1 \in Destinations
    <3>1. CallEvents(call) \in Seq(Events)
      BY CallsAre DEF TypeOK, RunTypes, WorkTypes
    <3>2. WorkTypes'
      BY <1>0, <1>8, <2>1, <3>1 DEF NextDestination, TypeOK, WorkTypes
    <3>3. QED BY <1>0, <1>8, <2>1, <3>2, TypesKept DEF NextDestination, TypeOK
  <2>2. CASE dest + 1 \notin Destinations
    <3>1. call + 1 \in 1 .. Closed /\ Fresh(call + 1)
      BY <1>8, <2>2 DEF NextDestination, Routing, TypeOK, WorkTypes, Closed
    <3>2. QED BY <1>0, <1>8, <3>1, FreshTypes, TypesKept DEF NextDestination, TypeOK
  <2>3. QED BY <2>1, <2>2
<1>9. CASE StateUnreadable
  <2>1. call + 1 \in 1 .. Closed /\ Fresh(call + 1)
    BY <1>9 DEF StateUnreadable, ReadsForEvent, ReadsForFlush, AtEvent, Routing, TypeOK,
       WorkTypes, Closed
  <2>2. QueueTypes'
    BY <1>0, <1>9, TypesKept, EmptiedTypes DEF StateUnreadable, Emptied
  <2>3. ReportTypes'
    BY <1>0, <1>9 DEF StateUnreadable, TypeOK, ReportTypes, Messages
  <2>4. QED BY <1>0, <1>9, <2>1, <2>2, <2>3, FreshTypes, TypesKept DEF StateUnreadable, TypeOK
<1>10. QED BY <1>2, <1>3, <1>4, <1>5, <1>6, <1>7, <1>8, <1>9 DEF Route

\* A message that reaches the endpoint lengthens its log.
LEMMA ReachesIs ==
    ASSUME TypeOK, Reaches
    PROVE  /\ received' \in [Destinations -> Seq(Messages)]
           /\ \A d \in Destinations \ {dest} : received'[d] = received[d]
           /\ Len(received[dest]) \in Nat
           /\ DOMAIN received[dest] = 1 .. Len(received[dest])
           /\ Len(received'[dest]) = Len(received[dest]) + 1
           /\ DOMAIN received'[dest] = 1 .. Len(received[dest]) + 1
           /\ received'[dest][Len(received[dest]) + 1] = [life |-> crashes, events |-> batch]
           /\ \A i \in 1 .. Len(received[dest]) : received'[dest][i] = received[dest][i]
<1> DEFINE m == [life |-> crashes, events |-> batch]
           s == received[dest]
           t == Append(s, m)
<1>1. m \in Messages
  BY DEF TypeOK, Messages, RunTypes, SendTypes
<1>2. received' = [received EXCEPT ![dest] = t]
  BY DEF Reaches
<1>3. s \in Seq(Messages)
  BY DEF TypeOK, ReportTypes, WorkTypes
<1> HIDE DEF m, s
<1>4. /\ t \in Seq(Messages) /\ Len(s) \in Nat
      /\ DOMAIN s = 1 .. Len(s) /\ Len(t) = Len(s) + 1 /\ DOMAIN t = 1 .. Len(s) + 1
      /\ t[Len(s) + 1] = m /\ \A i \in 1 .. Len(s) : t[i] = s[i]
  BY <1>1, <1>3
<1> HIDE DEF t
<1>5. /\ received' \in [Destinations -> Seq(Messages)] /\ received'[dest] = t
      /\ \A d \in Destinations \ {dest} : received'[d] = received[d]
  BY <1>2, <1>4 DEF TypeOK, ReportTypes, WorkTypes
<1>6. QED BY <1>4, <1>5 DEF m, s

LEMMA AttemptTypes ==
    ASSUME TypeOK, HeldInv, Attempt \/ Record
    PROVE  TypeOK'
<1>0. UNCHANGED runVars /\ Events' = Events /\ Messages' = Messages
  <2>1. UNCHANGED runVars
    BY StepKeepsScript DEF Next
  <2>2. QED BY <2>1, SameScript DEF Messages
<1>1. Reaches \/ UNCHANGED received => received' \in [Destinations -> Seq(Messages)]
  BY ReachesIs DEF TypeOK, ReportTypes
<1>2. Batched \subseteq Events
  BY DEF Batched, InRange, TypeOK, SendTypes
<1>3. ReportFailure /\ UNCHANGED <<after, seen>> /\ tries' \in 0 .. MaximumAttempts =>
        failed' \in [Destinations -> SUBSET Events] /\ SendTypes'
  <2>1. <<>> \in Seq(Events)
    OBVIOUS
  <2>2. ReportFailure => failed' \in [Destinations -> SUBSET Events]
    BY <1>2 DEF ReportFailure, TypeOK, ReportTypes
  <2>3. QED BY <1>0, <2>1, <2>2 DEF ReportFailure, TypeOK, SendTypes
<1>4. CASE AttemptAccepted
  <2>1. SendTypes'
    BY <1>0, <1>4 DEF AttemptAccepted, TypeOK, SendTypes, sendVars
  <2>2. ReportTypes'
    BY <1>0, <1>1, <1>4 DEF AttemptAccepted, TypeOK, ReportTypes, reportVars
  <2>3. QED BY <1>0, <1>4, <2>1, <2>2, TypesKept DEF AttemptAccepted, TypeOK
<1>5. CASE AttemptRefused
  <2>1. failed' \in [Destinations -> SUBSET Events] /\ SendTypes'
    BY <1>3, <1>5 DEF AttemptRefused, TypeOK, SendTypes
  <2>2. ReportTypes'
    BY <1>0, <1>5, <2>1 DEF AttemptRefused, TypeOK, ReportTypes
  <2>3. QED BY <1>0, <1>5, <2>1, <2>2, TypesKept DEF AttemptRefused, TypeOK
<1>6. CASE AttemptUnclear
  <2>1. received' \in [Destinations -> Seq(Messages)]
    BY <1>1, <1>6 DEF AttemptUnclear
  <2>2. tries' \in 0 .. MaximumAttempts
    BY <1>6, RouterAssumption DEF AttemptUnclear, TypeOK, SendTypes
  <2>3. failed' \in [Destinations -> SUBSET Events] /\ SendTypes'
    <3>1. CASE tries' < MaximumAttempts
      BY <1>0, <1>6, <2>2, <3>1 DEF AttemptUnclear, TypeOK, SendTypes, ReportTypes
    <3>2. CASE ~(tries' < MaximumAttempts)
      BY <1>3, <1>6, <2>2, <3>2 DEF AttemptUnclear
    <3>3. QED BY <3>1, <3>2
  <2>4. ReportTypes'
    BY <1>0, <1>6, <2>1, <2>3 DEF AttemptUnclear, TypeOK, ReportTypes
  <2>5. QED BY <1>0, <1>6, <2>3, <2>4, TypesKept DEF AttemptUnclear, TypeOK
<1>7. CASE AttemptRaises
  <2>1. call + 1 \in 1 .. Closed /\ Fresh(call + 1)
    BY <1>7 DEF AttemptRaises, HeldInv, TypeOK, WorkTypes, Closed
  <2>2. received' \in [Destinations -> Seq(Messages)]
    BY <1>1, <1>7 DEF AttemptRaises
  <2>3. ReportTypes'
    BY <1>0, <1>7, <2>2 DEF AttemptRaises, TypeOK, ReportTypes, WorkTypes
  <2>4. QED BY <1>0, <1>7, <2>1, <2>3, FreshTypes, TypesKept DEF AttemptRaises, TypeOK
<1>8. CASE Record
  <2>1. CASE ReportFailure /\ UNCHANGED recorded
    <3>1. failed' \in [Destinations -> SUBSET Events] /\ SendTypes'
      BY <1>3, <1>8, <2>1 DEF Record, TypeOK, SendTypes
    <3>2. ReportTypes'
      BY <1>0, <1>8, <3>1 DEF Record, TypeOK, ReportTypes
    <3>3. QED BY <1>0, <1>8, <2>1, <3>1, <3>2, TypesKept DEF Record, TypeOK
  <2>2. CASE /\ recorded' = [recorded EXCEPT ![dest] =
                 [k \in AllKeys |-> IF k \in RecordedKeys(dest) THEN seen ELSE @[k]]]
             /\ stage' = after /\ batch' = <<>> /\ UNCHANGED failed
    <3>1. recorded' \in [Destinations -> [AllKeys -> Time \cup {Never}]]
      BY <2>2 DEF TypeOK, RunTypes, SendTypes, WorkTypes
    <3>2. RunTypes'
      BY <1>0, <1>8, <3>1 DEF Record, TypeOK, RunTypes, runVars
    <3>3. SendTypes'
      BY <1>0, <1>8, <2>2 DEF Record, TypeOK, SendTypes
    <3>4. ReportTypes'
      BY <1>0, <1>8, <2>2 DEF Record, TypeOK, ReportTypes
    <3>5. QED BY <1>0, <1>8, <3>2, <3>3, <3>4, TypesKept DEF Record, TypeOK
  <2>3. QED BY <1>8, <2>1, <2>2 DEF Record
<1>9. QED BY <1>4, <1>5, <1>6, <1>7, <1>8 DEF Attempt

LEMMA TypeStep ==
    ASSUME TypeOK, HeldInv, [Next]_vars
    PROVE  TypeOK'
<1>0. UNCHANGED runVars /\ Events' = Events
  BY StepKeepsScript, SameScript
<1>1. CASE Tick
  <2>1. RunTypes'
    BY <1>0, <1>1, RouterAssumption DEF Tick, TypeOK, RunTypes, Time, runVars
  <2>2. QED BY <1>0, <1>1, <2>1, TypesKept DEF Tick, TypeOK
<1>2. CASE Crash
  <2>1. Fresh(1) /\ 1 \in 1 .. Closed
    BY <1>2 DEF Crash, Closed
  <2>2. RunTypes'
    BY <1>0, <1>2, RouterAssumption DEF Crash, TypeOK, RunTypes, runVars
  <2>3. QueueTypes'
    BY <1>0, <1>2, RouterAssumption DEF Crash, QueueTypes
  <2>4. ReportTypes'
    BY <1>0, <1>2 DEF Crash, TypeOK, ReportTypes, Quiet, Messages
  <2>5. QED BY <1>0, <2>1, <2>2, <2>3, <2>4, FreshTypes DEF TypeOK
<1>3. CASE UNCHANGED vars
  BY <1>0, <1>3, TypesKept DEF vars, TypeOK
<1>4. QED BY <1>1, <1>2, <1>3, RouteTypes, AttemptTypes DEF Next

-----------------------------------------------------------------------------
(* How the work moves on.                                                   *)

LEMMA StayWork ==
    ASSUME WorkInv, UNCHANGED runVars, UNCHANGED <<call, dest, todo>>
    PROVE  WorkInv' /\ \A d : (Horizon(d))' = Horizon(d)
BY SameScript DEF WorkInv, Horizon, Reached

LEMMA PassWork ==
    ASSUME TypeOK, WorkInv, UNCHANGED runVars, UNCHANGED <<call, dest>>,
           todo # <<>>, todo' = Tail(todo)
    PROVE  /\ WorkInv'
           /\ \A d \in Destinations : (Horizon(d))' = IF d = dest THEN Horizon(d) + 1 ELSE Horizon(d)
<1>1. /\ todo \in Seq(Events) /\ Len(todo) \in Nat /\ Len(todo) > 0
      /\ Len(todo') = Len(todo) - 1 /\ \A i \in 1 .. Len(todo) - 1 : todo'[i] = todo[i + 1]
  BY DEF TypeOK, WorkTypes
<1>2. Reached(call) \in Nat /\ Reached(call - 1) \in Nat
  BY HorizonIs DEF TypeOK, WorkTypes
<1>3. \A c : (Reached(c))' = Reached(c)
  BY SameScript
<1>4. (Reached(call))' = Reached(call) /\ (Reached(call - 1))' = Reached(call - 1)
  BY <1>3
<1>5. WorkInv'
  BY <1>1, <1>2, <1>4 DEF WorkInv
<1>6. dest \in Nat /\ \A d \in Destinations : d \in Nat
  BY DestinationsAre DEF TypeOK, WorkTypes
<1>7. \A d \in Destinations : (Horizon(d))' = IF d = dest THEN Horizon(d) + 1 ELSE Horizon(d)
  BY <1>1, <1>2, <1>4, <1>6 DEF Horizon
<1>8. QED BY <1>5, <1>7

LEMMA FreshWork ==
    ASSUME TypeOK, UNCHANGED runVars, NEW c \in 1 .. Closed, Fresh(c)
    PROVE  WorkInv' /\ \A d \in Destinations : (Horizon(d))' = Reached(c - 1) + 1
<1>1. call' = c /\ dest' = 1 /\ todo' = CallEvents(c)
  BY DEF Fresh
<1>2. /\ CallEvents(c) \in Seq(Events)
      /\ Len(CallEvents(c)) = Reached(c) - Reached(c - 1)
      /\ \A i \in 1 .. Len(CallEvents(c)) :
           CallEvents(c)[i] = Reached(c) - Len(CallEvents(c)) + i
  BY CallsAre DEF TypeOK, RunTypes
<1>3. \A x : (Reached(x))' = Reached(x)
  BY SameScript
<1>4. (Reached(call))' = Reached(c) /\ (Reached(call - 1))' = Reached(c - 1)
  BY <1>1, <1>3 DEF Reached
<1>5. Reached(c) \in Nat /\ Reached(c - 1) \in Nat
  BY ScriptIs DEF Reached, TypeOK, RunTypes
<1>6. WorkInv'
  BY <1>1, <1>2, <1>4, <1>5 DEF WorkInv
<1>7. \A d \in Destinations : (Horizon(d))' = Reached(c - 1) + 1
  BY <1>1, <1>2, <1>4, <1>5, DestinationsAre DEF Horizon
<1>8. QED BY <1>6, <1>7

\* A destination takes over where the call before left it.
LEMMA NextWork ==
    ASSUME TypeOK, WorkInv, NextDestination
    PROVE  WorkInv' /\ \A d \in Destinations : (Horizon(d))' = Horizon(d)
<1>1. todo = <<>> /\ Len(todo) = 0 /\ UNCHANGED runVars /\ call \in 1 .. Closed /\ call # Closed
  BY DEF NextDestination, DestinationDone, Routing, TypeOK, WorkTypes
<1>2. Reached(call) \in Nat /\ Reached(call - 1) \in Nat
  BY HorizonIs, <1>1
<1>3. dest \in Nat /\ \A d \in Destinations : d \in Nat
  BY DestinationsAre DEF TypeOK, WorkTypes
<1>4. CASE dest + 1 \in Destinations
  <2>1. call' = call /\ dest' = dest + 1 /\ todo' = CallEvents(call)
    BY <1>4 DEF NextDestination
  <2>2. /\ CallEvents(call) \in Seq(Events)
        /\ Len(CallEvents(call)) = Reached(call) - Reached(call - 1)
        /\ \A i \in 1 .. Len(CallEvents(call)) :
             CallEvents(call)[i] = Reached(call) - Len(CallEvents(call)) + i
    BY <1>1, CallsAre DEF TypeOK, RunTypes
  <2>3. \A x : (Reached(x))' = Reached(x)
    BY <1>1, SameScript
  <2>4. (Reached(call))' = Reached(call) /\ (Reached(call - 1))' = Reached(call - 1)
    BY <2>1, <2>3 DEF Reached
  <2>5. WorkInv'
    BY <1>2, <2>1, <2>2, <2>4 DEF WorkInv
  <2>6. \A d \in Destinations : (Horizon(d))' = Horizon(d)
    BY <1>1, <1>2, <1>3, <2>1, <2>2, <2>4 DEF Horizon
  <2>7. QED BY <2>5, <2>6
<1>5. CASE dest + 1 \notin Destinations
  <2>1. call + 1 \in 1 .. Closed /\ Fresh(call + 1)
    BY <1>1, <1>5 DEF NextDestination, Closed
  <2>2. WorkInv' /\ \A d \in Destinations : (Horizon(d))' = Reached((call + 1) - 1) + 1
    BY <1>1, <2>1, FreshWork
  <2>3. Reached((call + 1) - 1) = Reached(call)
    BY <1>1 DEF Reached, Closed
  <2>4. \A d \in Destinations : d <= dest
    <3>1. Cardinality(Destinations) \in Nat
      BY FS_CardinalityType, RouterAssumption
    <3>2. QED BY <1>3, <1>5, <3>1, RouterAssumption DEF TypeOK, WorkTypes
  <2>5. \A d \in Destinations : Horizon(d) = Reached(call) + 1
    BY <1>1, <1>2, <1>3, <2>4 DEF Horizon
  <2>6. QED BY <2>2, <2>3, <2>5
<1>6. QED BY <1>4, <1>5

\* Results join the queue of the destination.
Appends == AppendResult \/ AppendAfterFlush
LEMMA AppendIs ==
    ASSUME TypeOK, QueueInv, HeldInv, Appends
    PROVE  /\ todo # <<>> /\ todo' = Tail(todo) /\ UNCHANGED <<call, dest, runVars>>
           /\ IsResult(Event) /\ stage' = "route"
           /\ pending' = [pending EXCEPT ![dest] = Append(@, Event)]
           /\ \A f \in InRange(pending[dest]) : Script[f].bar = Script[Event].bar
           /\ UNCHANGED <<now, recorded, batch, received, reportVars, crashes>>
<1>1. CASE AppendAfterFlush
  <2>1. pending[dest] = <<>> /\ todo # <<>> /\ IsResult(Event)
    BY <1>1 DEF AppendAfterFlush, HeldInv
  <2>2. InRange(pending[dest]) = {}
    BY <2>1 DEF InRange
  <2>3. QED BY <1>1, <2>1, <2>2 DEF AppendAfterFlush, Enqueue, sendVars
<1>2. CASE AppendResult
  <2>1. todo # <<>> /\ IsResult(Event) /\ ~MustGoFirst(dest, Event)
    BY <1>2 DEF AppendResult, NewResult, AtEvent
  <2>2. ASSUME NEW f \in InRange(pending[dest]) PROVE Script[f].bar = Script[Event].bar
    <3>1. pending[dest] # <<>> /\ pending[dest] \in Seq(Events)
      BY DEF InRange, TypeOK, QueueTypes, WorkTypes
    <3>2. pending[dest][1] \in InRange(pending[dest])
      BY <3>1 DEF InRange
    <3>3. Script[pending[dest][1]].bar = Script[Event].bar
      BY <2>1, <3>1 DEF MustGoFirst
    <3>4. QED BY <3>2, <3>3 DEF QueueInv, TypeOK, WorkTypes
  <2>3. QED BY <1>2, <2>1, <2>2 DEF AppendResult, Enqueue, sendVars
<1>3. QED BY <1>1, <1>2 DEF Appends

\* The horizon never moves back while the process lives.
LEMMA WorkStep ==
    ASSUME TypeOK, WorkInv, QueueInv, HeldInv, [Next]_vars
    PROVE  /\ WorkInv'
           /\ ~Crash => \A d \in Destinations :
                (Horizon(d))' \in Nat /\ Horizon(d) <= (Horizon(d))'
<1>0. UNCHANGED runVars /\ \A d \in Destinations : Horizon(d) \in Nat
  BY StepKeepsScript, HorizonIs
<1>1. CASE UNCHANGED <<call, dest, todo>>
  BY <1>0, <1>1, StayWork
<1>2. CASE todo # <<>> /\ todo' = Tail(todo) /\ UNCHANGED <<call, dest>>
  BY <1>0, <1>2, PassWork
<1>3. CASE NextDestination
  BY <1>0, <1>3, NextWork
<1>4. CASE call # Closed /\ Fresh(call + 1)
  <2>1. call + 1 \in 1 .. Closed /\ call \in Nat
    BY <1>4 DEF TypeOK, WorkTypes, Closed
  <2>2. WorkInv' /\ \A d \in Destinations : (Horizon(d))' = Reached((call + 1) - 1) + 1
    BY <1>0, <1>4, <2>1, FreshWork
  <2>3. Reached((call + 1) - 1) = Reached(call)
    BY <2>1 DEF Reached
  <2>4. Reached(call) \in Nat
    BY <2>1, HorizonIs
  <2>5. \A d \in Destinations : Horizon(d) <= Reached(call) + 1
    BY HorizonIs
  <2>6. QED BY <1>0, <2>2, <2>3, <2>4, <2>5
<1>5. CASE Crash
  <2>1. Fresh(1) /\ 1 \in 1 .. Closed
    BY <1>5 DEF Crash, Closed
  <2>2. QED BY <1>0, <1>5, <2>1, FreshWork
<1>6. CASE Route
  <2>1. Appends => todo # <<>> /\ todo' = Tail(todo) /\ UNCHANGED <<call, dest>>
    BY AppendIs
  <2>2. CASE SkipEvent \/ DropDuplicate \/ DeliverNow
    BY <1>2, <2>2 DEF SkipEvent, DropDuplicate, DeliverNow, SentAtOnce, AtEvent
  <2>3. CASE FlushFirst \/ FlushBefore \/ FlushFull \/ FlushAtClose
    BY <1>1, <2>3 DEF FlushFirst, FlushBefore, FlushFull, FlushAtClose, Flush
  <2>4. CASE StateUnreadable
    BY <1>4, <2>4 DEF StateUnreadable, ReadsForEvent, ReadsForFlush, AtEvent, Routing
  <2>5. QED BY <1>2, <1>3, <1>6, <2>1, <2>2, <2>3, <2>4 DEF Route, Appends
<1>7. CASE Attempt \/ Record
  <2>1. CASE AttemptRaises
    BY <1>4, <2>1 DEF AttemptRaises, HeldInv
  <2>2. QED BY <1>1, <1>7, <2>1 DEF Attempt, AttemptAccepted, AttemptRefused, AttemptUnclear,
           Record
<1>8. CASE Tick
  BY <1>1, <1>8 DEF Tick
<1>9. CASE UNCHANGED vars
  BY <1>1, <1>9 DEF vars
<1>10. QED BY <1>5, <1>6, <1>7, <1>8, <1>9 DEF Next

\* An event of a queue was in it, or has just been handed in.
LEMMA QueuedIs ==
    ASSUME TypeOK, QueueInv, HeldInv, [Next]_vars, NEW d \in Destinations,
           NEW f, f \in InRange(pending'[d])
    PROVE  /\ ~Crash
           /\ \/ f \in InRange(pending[d])
              \/ Appends /\ d = dest /\ f = Event
<1>1. ASSUME pending'[d] = pending[d] \/ pending'[d] = <<>>, ~Crash
      PROVE  ~Crash /\ f \in InRange(pending[d])
  BY <1>1 DEF InRange
<1>2. CASE Crash
  BY <1>2 DEF Crash, InRange
<1>3. CASE Appends
  <2>1. pending' = [pending EXCEPT ![dest] = Append(@, Event)] /\ UNCHANGED crashes
    BY <1>3, AppendIs
  <2>2. ~Crash
    BY <2>1 DEF Crash, TypeOK, RunTypes
  <2>3. CASE d # dest
    BY <2>1, <2>2, <2>3 DEF TypeOK, QueueTypes
  <2>4. CASE d = dest
    <3> DEFINE s == pending[dest]
               t == Append(s, Event)
    <3>1. s \in Seq(Events) /\ pending'[d] = t
      BY <2>1, <2>4 DEF TypeOK, QueueTypes
    <3> HIDE DEF s
    <3>2. DOMAIN t = 1 .. Len(s) + 1 /\ Len(s) \in Nat /\ t[Len(s) + 1] = Event
          /\ \A i \in 1 .. Len(s) : t[i] = s[i] /\ i \in DOMAIN s
      BY <3>1
    <3>3. f \in InRange(s) \/ f = Event
      BY <3>1, <3>2 DEF InRange
    <3>4. QED BY <1>3, <2>2, <2>4, <3>3 DEF s
  <2>5. QED BY <2>3, <2>4
<1>4. CASE pending' = pending
  BY <1>1, <1>2, <1>4
<1>5. CASE pending' = [pending EXCEPT ![dest] = <<>>]
  BY <1>1, <1>2, <1>5 DEF TypeOK, QueueTypes
<1>6. CASE Route
  <2>1. CASE FlushFirst \/ FlushBefore \/ FlushFull \/ FlushAtClose
    BY <1>5, <2>1 DEF FlushFirst, FlushBefore, FlushFull, FlushAtClose, Flush
  <2>2. CASE StateUnreadable
    BY <1>4, <1>5, <2>2 DEF StateUnreadable, queueVars
  <2>3. CASE SkipEvent \/ DropDuplicate \/ DeliverNow \/ NextDestination
    BY <1>4, <2>3 DEF SkipEvent, DropDuplicate, DeliverNow, NextDestination, queueVars
  <2>4. QED BY <1>3, <1>6, <2>1, <2>2, <2>3 DEF Route, Appends
<1>7. CASE Attempt \/ Record \/ Tick \/ UNCHANGED vars
  BY <1>4, <1>7 DEF Attempt, AttemptAccepted, AttemptRefused, AttemptUnclear, AttemptRaises,
     Record, Tick, vars, queueVars
<1>8. QED BY <1>2, <1>6, <1>7 DEF Next

\* A message in a log was there, or is the attempt just made.
LEMMA MessageIs ==
    ASSUME TypeOK, [Next]_vars, NEW d \in Destinations, NEW i, i \in DOMAIN received'[d]
    PROVE  \/ i \in DOMAIN received[d] /\ received'[d][i] = received[d][i]
           \/ /\ Reaches /\ stage = "send" /\ d = dest
              /\ UNCHANGED <<recorded, queueVars, crashes, now>>
              /\ i = Len(received[d]) + 1
              /\ received'[d][i] = [life |-> crashes, events |-> batch]
<1>1. CASE UNCHANGED received
  BY <1>1
<1>2. CASE Reaches /\ stage = "send" /\ UNCHANGED <<recorded, queueVars, crashes, now>>
  BY <1>2, ReachesIs
<1>3. CASE Route
  BY <1>1, <1>3 DEF Route, SkipEvent, FlushFirst, DeliverNow, DropDuplicate, FlushBefore,
     AppendResult, AppendAfterFlush, Enqueue, FlushFull, FlushAtClose, Flush,
     NextDestination, StateUnreadable
<1>4. CASE Attempt
  BY <1>1, <1>2, <1>4 DEF Attempt, AttemptAccepted, AttemptRefused, AttemptUnclear,
     AttemptRaises
<1>5. CASE Record \/ Tick \/ Crash \/ UNCHANGED vars
  BY <1>1, <1>5 DEF Record, Tick, Crash, vars
<1>6. QED BY <1>3, <1>4, <1>5 DEF Next

-----------------------------------------------------------------------------
(* The queues, the logs and the batch.                                      *)

LEMMA QueueStep ==
    ASSUME TypeOK, WorkInv, QueueInv, HeldInv, [Next]_vars
    PROVE  QueueInv'
<1>0. UNCHANGED runVars /\ Script' = Script /\ \A e : (IsResult(e))' = IsResult(e)
  BY StepKeepsScript, SameScript
<1>1. SUFFICES ASSUME NEW d \in Destinations, NEW e, e \in InRange(pending'[d]),
                      NEW f, f \in InRange(pending'[d])
               PROVE  /\ IsResult(e) /\ e < (Horizon(d))'
                      /\ Script[e].bar = Script[f].bar
  BY <1>0 DEF QueueInv, InRange
<1>2. /\ ~Crash /\ (Horizon(d))' \in Nat /\ Horizon(d) <= (Horizon(d))'
      /\ e \in InRange(pending[d]) \/ (Appends /\ d = dest /\ e = Event)
      /\ f \in InRange(pending[d]) \/ (Appends /\ d = dest /\ f = Event)
  <2>1. ~Crash /\ (e \in InRange(pending[d]) \/ (Appends /\ d = dest /\ e = Event))
    BY <1>1, QueuedIs
  <2>2. f \in InRange(pending[d]) \/ (Appends /\ d = dest /\ f = Event)
    BY <1>1, QueuedIs
  <2>3. (Horizon(d))' \in Nat /\ Horizon(d) <= (Horizon(d))'
    BY <2>1, WorkStep
  <2>4. QED BY <2>1, <2>2, <2>3
<1>3. Horizon(d) \in Nat /\ InRange(pending[d]) \subseteq Nat
  <2>1. InRange(pending[d]) \subseteq Events
    BY DEF InRange, TypeOK, QueueTypes
  <2>2. QED BY <2>1, HorizonIs
<1>4. CASE e \in InRange(pending[d])
  <2>1. IsResult(e) /\ e < Horizon(d)
    BY <1>4 DEF QueueInv
  <2>2. Script[e].bar = Script[f].bar
    BY <1>2, <1>4, AppendIs DEF QueueInv
  <2>3. QED BY <1>2, <1>3, <1>4, <2>1, <2>2
<1>5. CASE Appends /\ d = dest /\ e = Event
  <2>1. todo # <<>> /\ todo' = Tail(todo) /\ UNCHANGED <<call, dest>> /\ IsResult(Event)
    BY <1>5, AppendIs
  <2>2. (Horizon(d))' = Horizon(d) + 1
    BY <1>0, <1>5, <2>1, PassWork
  <2>3. e = Horizon(d)
    BY <1>5, <2>1, HorizonIs
  <2>4. Script[e].bar = Script[f].bar
    BY <1>2, <1>5, AppendIs
  <2>5. QED BY <1>3, <1>5, <2>1, <2>2, <2>3, <2>4
<1>6. QED BY <1>2, <1>4, <1>5

LEMMA LogStep ==
    ASSUME TypeOK, WorkInv, QueueInv, LogInv, HeldInv, BatchInv, [Next]_vars
    PROVE  LogInv'
<1>1. SUFFICES ASSUME NEW d \in Destinations, NEW i, i \in DOMAIN received'[d]
               PROVE  /\ received'[d][i].life <= crashes'
                      /\ received'[d][i].life = crashes' =>
                           \A e \in InRange(received'[d][i].events) :
                             e < (Horizon(d))' /\ \A f \in InRange(pending'[d]) : e < f
  BY DEF LogInv
<1>2. crashes \in Nat /\ crashes' = (IF Crash THEN crashes + 1 ELSE crashes)
  <2>1. CASE Crash
    BY <2>1 DEF Crash, TypeOK, RunTypes
  <2>2. CASE ~Crash
    <3>1. UNCHANGED crashes
      BY <2>2 DEF Next, vars, Route, Attempt, SkipEvent, FlushFirst, DeliverNow, DropDuplicate,
         FlushBefore, AppendResult, AppendAfterFlush, Enqueue, FlushFull, FlushAtClose, Flush,
         NextDestination, StateUnreadable, AttemptAccepted, AttemptRefused, AttemptUnclear,
         AttemptRaises, Record, Tick
    <3>2. QED BY <2>2, <3>1 DEF TypeOK, RunTypes
  <2>3. QED BY <2>1, <2>2
<1>3. CASE i \in DOMAIN received[d] /\ received'[d][i] = received[d][i]
  <2>1. /\ received[d][i].life <= crashes
        /\ received[d][i].life = crashes =>
             \A e \in InRange(received[d][i].events) :
               e < Horizon(d) /\ \A f \in InRange(pending[d]) : e < f
    BY <1>3 DEF LogInv
  <2>2. received[d][i] \in Messages
    BY <1>3 DEF TypeOK, ReportTypes
  <2>3. received[d][i].life \in Nat /\ InRange(received[d][i].events) \subseteq Nat
    <3>1. /\ received[d][i].life \in Nat
          /\ InRange(received[d][i].events) \subseteq Events
      BY <2>2, RouterAssumption DEF Messages, InRange
    <3>2. QED BY <3>1, HorizonIs
  <2>4. CASE Crash
    BY <1>2, <1>3, <2>1, <2>3, <2>4
  <2>5. ASSUME ~Crash, received[d][i].life = crashes,
               NEW e \in InRange(received[d][i].events)
        PROVE  e < (Horizon(d))' /\ \A f \in InRange(pending'[d]) : e < f
    <3>1. e < Horizon(d) /\ e \in Nat /\ Horizon(d) \in Nat
      BY <2>1, <2>3, <2>5, HorizonIs
    <3>2. (Horizon(d))' \in Nat /\ Horizon(d) <= (Horizon(d))'
      BY <2>5, WorkStep
    <3>3. ASSUME NEW f \in InRange(pending'[d]) PROVE e < f
      <4>1. CASE f \in InRange(pending[d])
        BY <2>1, <2>5, <4>1
      <4>2. CASE Appends /\ d = dest /\ f = Event
        BY <3>1, <4>2, AppendIs, HorizonIs
      <4>3. QED BY <3>3, <4>1, <4>2, QueuedIs
    <3>4. e < (Horizon(d))'
      BY <3>1, <3>2
    <3>5. QED BY <3>3, <3>4
  <2>6. QED BY <1>2, <1>3, <2>1, <2>4, <2>5
<1>4. CASE /\ Reaches /\ stage = "send" /\ d = dest
           /\ UNCHANGED <<recorded, queueVars, crashes, now>>
           /\ received'[d][i] = [life |-> crashes, events |-> batch]
  <2>1. pending[d] = <<>> /\ pending'[d] = <<>>
    BY <1>4 DEF HeldInv, queueVars
  <2>2. InRange(pending'[d]) = {}
    BY <2>1 DEF InRange
  <2>3. ~Crash
    BY <1>2, <1>4
  <2>4. ASSUME NEW e \in InRange(batch) PROVE e < (Horizon(d))'
    <3>1. e < Horizon(d) /\ e \in Nat
      <4>1. e \in Events
        BY DEF InRange, TypeOK, SendTypes
      <4>2. QED BY <1>4, <4>1, HorizonIs DEF BatchInv, Busy
    <3>2. Horizon(d) \in Nat /\ (Horizon(d))' \in Nat /\ Horizon(d) <= (Horizon(d))'
      BY <2>3, WorkStep, HorizonIs
    <3>3. QED BY <3>1, <3>2
  <2>5. QED BY <1>2, <1>4, <2>2, <2>3, <2>4
<1>5. \/ i \in DOMAIN received[d] /\ received'[d][i] = received[d][i]
      \/ /\ Reaches /\ stage = "send" /\ d = dest
         /\ UNCHANGED <<recorded, queueVars, crashes, now>>
         /\ received'[d][i] = [life |-> crashes, events |-> batch]
  BY <1>1, MessageIs
<1>6. QED BY <1>3, <1>4, <1>5

\* Before the results nothing waits in a queue, nor in a run that has none.
LEMMA NothingQueued ==
    ASSUME TypeOK, WorkInv, QueueInv, SentAtOnce
    PROVE  pending[dest] = <<>>
<1>1. CASE Batching
  BY <1>1 DEF SentAtOnce
<1>2. CASE ~Batching
  <2>1. todo # <<>> /\ call \in 1 .. Closed /\ dest \in Destinations
    BY DEF SentAtOnce, AtEvent, TypeOK, WorkTypes
  <2>2. Len(todo) \in Nat /\ Len(todo) # 0 /\ Len(todo) <= Reached(call) - Reached(call - 1)
    BY <2>1, HorizonIs DEF WorkInv
  <2>3. call = 1 \/ (call = 2 /\ ~succeeds)
    BY <1>2, <2>1, <2>2, ScriptIs DEF Batching, Closed, Reached, TypeOK, RunTypes
  <2>4. SUFFICES ASSUME pending[dest] # <<>> PROVE FALSE
    OBVIOUS
  <2>5. PICK e \in Events : e \in InRange(pending[dest])
    <3>1. pending[dest] \in Seq(Events)
      BY <2>1 DEF TypeOK, QueueTypes
    <3>2. 1 \in DOMAIN pending[dest] /\ pending[dest][1] \in Events
      BY <2>4, <3>1
    <3>3. QED BY <3>2 DEF InRange
  <2>6. IsResult(e) /\ e < Horizon(dest)
    BY <2>1, <2>5 DEF QueueInv
  <2>7. Horizon(dest) \in Events
    BY <2>1, HorizonIs
  <2>8. call = 1 => Horizon(dest) <= 1
    <3>0. dest \in Nat
      BY <2>1, DestinationsAre
    <3>1. Horizon(dest) = Reached(call) + 1 - Len(todo) /\ Horizon(dest) \in Nat
      BY <2>1, <3>0, HorizonIs DEF Horizon
    <3>2. call = 1 => Reached(call) = 1
      BY DEF Reached
    <3>3. QED BY <2>2, <3>1, <3>2
  <2>9. ~IsResult(1) /\ (~succeeds => Len(Script) = 2) /\ Events = 1 .. Len(Script)
    BY ScriptIs DEF TypeOK, RunTypes
  <2>10. e \in Nat /\ e >= 1 /\ Horizon(dest) \in Nat /\ e # 1
    BY <2>5, <2>6, <2>7, <2>9, ScriptIs DEF TypeOK, RunTypes
  <2>11. Horizon(dest) >= 3
    BY <2>6, <2>10
  <2>12. call = 1 => FALSE
    BY <2>8, <2>10, <2>11
  <2>13. ~succeeds => FALSE
    <3>1. ~succeeds => Horizon(dest) \in 1 .. 2
      BY <2>7, <2>9
    <3>2. QED BY <2>11, <3>1
  <2>14. QED BY <2>3, <2>12, <2>13
<1>3. QED BY <1>1, <1>2

LEMMA HeldStep ==
    ASSUME TypeOK, WorkInv, QueueInv, HeldInv, [Next]_vars
    PROVE  HeldInv'
<1>0. UNCHANGED runVars /\ \A e : (IsResult(e))' = IsResult(e)
  BY StepKeepsScript, SameScript
<1>1. CASE stage' = "route"
  BY <1>1 DEF HeldInv, Busy
<1>2. ASSUME UNCHANGED <<call, dest, todo, pending>>, ~(stage = "route"),
             UNCHANGED after, stage' \in {stage, "send", "record", after},
             stage = "append" => stage' = "append"
      PROVE  HeldInv'
  BY <1>0, <1>2 DEF HeldInv, Busy, Batching, Event, runVars, TypeOK, SendTypes
<1>3. ASSUME NEW next \in {"route", "append"}, Flush(next), call # Closed,
             next = "append" => Batching /\ todo # <<>> /\ IsResult(Event), stage = "route"
      PROVE  HeldInv'
  <2>1. UNCHANGED <<call, dest, todo>> /\ pending'[dest] = <<>>
    BY <1>3, FlushIs DEF TypeOK, QueueTypes, WorkTypes
  <2>2. stage' = next \/ (stage' = "send" /\ after' = next)
    BY <1>3, FlushIs
  <2>3. QED BY <1>0, <1>3, <2>1, <2>2 DEF HeldInv, Busy, Batching, Event, runVars
<1>4. CASE FlushFirst \/ FlushBefore \/ FlushFull \/ FlushAtClose
  <2>1. call # Closed /\ stage = "route"
    BY <1>4 DEF FlushFirst, FlushBefore, FlushFull, FlushAtClose, NewResult, AtEvent, Routing
  <2>2. Flush("route") \/ (Flush("append") /\ Batching /\ todo # <<>> /\ IsResult(Event))
    BY <1>4 DEF FlushFirst, FlushBefore, FlushFull, FlushAtClose, NewResult, AtEvent
  <2>3. QED BY <1>3, <2>1, <2>2
<1>5. CASE DeliverNow
  <2>1. stage' = "send" /\ after' = "route" /\ UNCHANGED <<call, dest, pending>> /\ call # Closed
    BY <1>5 DEF DeliverNow, Send, SentAtOnce, AtEvent, Routing, queueVars
  <2>2. pending[dest] = <<>>
    BY <1>5, NothingQueued DEF DeliverNow
  <2>3. QED BY <2>1, <2>2 DEF HeldInv, Busy
<1>6. CASE SkipEvent \/ DropDuplicate
  BY <1>1, <1>6 DEF SkipEvent, DropDuplicate, SentAtOnce, AtEvent, Routing
<1>7. CASE NextDestination
  BY <1>1, <1>7 DEF NextDestination, Routing, Fresh
<1>8. CASE StateUnreadable \/ AttemptRaises \/ Crash
  BY <1>1, <1>8 DEF StateUnreadable, AttemptRaises, Crash, Fresh
<1>9. CASE Appends
  BY <1>1, <1>9, AppendIs
<1>10. CASE AttemptAccepted \/ AttemptRefused \/ AttemptUnclear \/ Record
  <2>1. stage \in {"send", "record"} /\ UNCHANGED <<call, dest, todo, pending, after>>
    BY <1>10 DEF AttemptAccepted, AttemptRefused, AttemptUnclear, Record, sendVars, queueVars
  <2>2. stage' \in {stage, "record", after}
    BY <1>10 DEF AttemptAccepted, AttemptRefused, AttemptUnclear, Record, ReportFailure
  <2>3. QED BY <1>2, <2>1, <2>2
<1>11. CASE Tick \/ UNCHANGED vars
  <2>1. UNCHANGED <<call, dest, todo, pending, after, stage>>
    BY <1>11 DEF Tick, vars, sendVars, queueVars
  <2>2. QED BY <1>1, <1>2, <2>1
<1>12. QED BY <1>4, <1>5, <1>6, <1>7, <1>8, <1>9, <1>10, <1>11 DEF Next, Route, Attempt, Appends

\* A batch that has been formed: new events, later than all that was sent.
LEMMA BatchFormed ==
    ASSUME TypeOK, UNCHANGED <<runVars, recorded, received, dest, crashes>>,
           stage' = "send", seen' = now, NEW b \in Seq(Events), batch' = b, Uniform(b),
           \A e \in InRange(b) : ~Duplicate(dest, e) /\ e < (Horizon(dest))',
           \A i \in DOMAIN received[dest] : received[dest][i].life = crashes =>
              \A e \in InRange(received[dest][i].events), f \in InRange(b) : e < f
    PROVE  BatchInv'
<1>0. \A e : (KeyOf(e))' = KeyOf(e)
  BY SameScript
<1>1. ASSUME NEW e \in InRange(b), recorded[dest][KeyOf(e)] # Never
      PROVE  now - recorded[dest][KeyOf(e)] >= WindowSeconds
  <2>1. e \in Events
    BY <1>1 DEF InRange
  <2>2. KeyOf(e) \in AllKeys
    BY <2>1, ScriptIs DEF TypeOK, RunTypes
  <2>3. recorded[dest][KeyOf(e)] \in Time
    BY <1>1, <2>2 DEF TypeOK, RunTypes, WorkTypes
  <2>4. ~(now - recorded[dest][KeyOf(e)] < WindowSeconds) /\ now \in Time
    BY <1>1 DEF Duplicate, TypeOK, RunTypes
  <2>5. QED BY <2>3, <2>4, RouterAssumption DEF Time
<1>2. (Uniform(batch))'
  <2>1. (Uniform(b))'
    BY SameScript
  <2>2. QED BY <2>1 DEF Uniform
<1>3. QED BY <1>0, <1>1, <1>2 DEF BatchInv

LEMMA BatchFlushed ==
    ASSUME TypeOK, WorkInv, QueueInv, LogInv, NEW next \in {"route", "append"}, Flush(next)
    PROVE  BatchInv'
<1>1. UNCHANGED <<runVars, recorded, received, call, dest, todo, crashes>> /\ seen' = now
  BY FlushIs
<1>2. CASE stage' = next
  BY <1>2 DEF BatchInv, Busy
<1>3. CASE /\ stage' = "send" /\ batch' \in Seq(Events)
           /\ Len(batch') <= Len(pending[dest])
           /\ InRange(batch') = {e \in InRange(pending[dest]) : StillNew(e)}
  <2> DEFINE queue == InRange(pending[dest])
  <2>1. /\ Len(pending[dest]) \in Nat /\ Len(pending[dest]) <= MaximumEvents
        /\ dest \in Destinations
    BY DEF TypeOK, QueueTypes, WorkTypes
  <2>2. \A e \in queue : /\ IsResult(e) /\ e < Horizon(dest)
                         /\ \A f \in queue : Script[e].bar = Script[f].bar
    BY <2>1 DEF QueueInv
  <2>3. InRange(batch') \subseteq queue
    BY <1>3
  <2> HIDE DEF queue
  <2>4. Len(batch') \in Nat /\ Len(batch') <= MaximumEvents
    BY <1>3, <2>1, RouterAssumption
  <2>5. Uniform(batch')
    BY <2>2, <2>3, <2>4 DEF Uniform
  <2>8. (Horizon(dest))' = Horizon(dest)
    BY <1>1, StayWork
  <2>9. \A e \in InRange(batch') : ~Duplicate(dest, e) /\ e < (Horizon(dest))'
    BY <1>3, <2>2, <2>3, <2>8 DEF StillNew
  <2>10. \A i \in DOMAIN received[dest] : received[dest][i].life = crashes =>
            \A e \in InRange(received[dest][i].events), f \in InRange(batch') : e < f
    BY <2>1, <2>3 DEF LogInv, queue
  <2>11. QED BY <1>1, <1>3, <2>5, <2>9, <2>10, BatchFormed
<1>4. QED BY <1>2, <1>3, FlushIs

LEMMA BatchDelivered ==
    ASSUME TypeOK, WorkInv, LogInv, DeliverNow
    PROVE  BatchInv'
<1>1. /\ UNCHANGED <<runVars, recorded, received, call, dest, crashes>>
      /\ todo # <<>> /\ todo' = Tail(todo) /\ ~Duplicate(dest, Event)
      /\ stage' = "send" /\ seen' = now /\ batch' = <<Event>> /\ dest \in Destinations
  BY DEF DeliverNow, Send, SentAtOnce, AtEvent, TypeOK, WorkTypes
<1>2. PICK x \in Events : x = Event /\ x = Horizon(dest) /\ x \in Nat
  BY <1>1, HorizonIs
<1>3. batch' = <<x>> /\ batch' \in Seq(Events) /\ Len(batch') = 1
  BY <1>1, <1>2
<1>4. InRange(batch') = {x}
  BY <1>3 DEF InRange
<1>5. (Horizon(dest))' = x + 1
  <2>1. \A d \in Destinations : (Horizon(d))' = IF d = dest THEN Horizon(d) + 1 ELSE Horizon(d)
    BY <1>1, PassWork
  <2>2. \A d \in Destinations : d = dest => (Horizon(d))' = x + 1
    BY <1>2, <2>1
  <2>3. QED BY <1>1, <2>2 DEF Horizon
<1>6. Uniform(batch')
  BY <1>3, <1>4, RouterAssumption DEF Uniform
<1>8. \A e \in InRange(batch') : ~Duplicate(dest, e) /\ e < (Horizon(dest))'
  BY <1>1, <1>2, <1>4, <1>5
<1>9. \A i \in DOMAIN received[dest] : received[dest][i].life = crashes =>
         \A e \in InRange(received[dest][i].events), f \in InRange(batch') : e < f
  BY <1>1, <1>2, <1>4 DEF LogInv
<1>10. QED BY <1>1, <1>3, <1>6, <1>8, <1>9, BatchFormed

LEMMA BatchStep ==
    ASSUME TypeOK, WorkInv, QueueInv, LogInv, HeldInv, BatchInv, [Next]_vars
    PROVE  BatchInv'
<1>0. UNCHANGED runVars
  BY StepKeepsScript
<1>1. CASE stage' \notin {"send", "record"}
  BY <1>1 DEF BatchInv, Busy
<1>2. CASE FlushFirst \/ FlushBefore \/ FlushFull \/ FlushAtClose
  BY <1>2, BatchFlushed DEF FlushFirst, FlushBefore, FlushFull, FlushAtClose
<1>3. CASE DeliverNow
  BY <1>3, BatchDelivered
<1>4. ASSUME Busy, UNCHANGED <<recorded, call, dest, todo, crashes, batch, seen>>
      PROVE  BatchInv'
  <2>1. /\ \A e : (KeyOf(e))' = KeyOf(e)
        /\ (Uniform(batch))' = Uniform(batch) /\ (Horizon(dest))' = Horizon(dest)
    BY <1>0, <1>4, SameScript, StayWork DEF Horizon, Uniform
  <2>2. ASSUME NEW i \in DOMAIN received'[dest], received'[dest][i].life = crashes
        PROVE  \/ received'[dest][i].events = batch
               \/ \A e \in InRange(received'[dest][i].events) :
                  \A f \in InRange(batch) : e < f
    <3>1. dest \in Destinations
      BY DEF TypeOK, WorkTypes
    <3>2. CASE i \in DOMAIN received[dest] /\ received'[dest][i] = received[dest][i]
      BY <1>4, <2>2, <3>2 DEF BatchInv
    <3>3. CASE received'[dest][i] = [life |-> crashes, events |-> batch]
      BY <3>3
    <3>4. QED BY <2>2, <3>1, <3>2, <3>3, MessageIs
  <2>3. QED BY <1>4, <2>1, <2>2 DEF BatchInv
<1>5. CASE SkipEvent \/ DropDuplicate
  BY <1>1, <1>5 DEF SkipEvent, DropDuplicate, SentAtOnce, AtEvent, Routing
<1>6. CASE NextDestination \/ StateUnreadable \/ AttemptRaises \/ Crash
  BY <1>1, <1>6 DEF NextDestination, Routing, StateUnreadable, AttemptRaises, Crash, Fresh
<1>7. CASE Appends
  BY <1>1, <1>7, AppendIs
<1>8. CASE AttemptRefused \/ Record
  <2>1. stage' = after
    BY <1>8 DEF AttemptRefused, Record, ReportFailure
  <2>2. QED BY <1>1, <2>1 DEF TypeOK, SendTypes
<1>9. CASE AttemptAccepted
  BY <1>4, <1>9 DEF AttemptAccepted, sendVars, Busy
<1>10. CASE AttemptUnclear
  <2>1. CASE tries' < MaximumAttempts
    BY <1>4, <1>10, <2>1 DEF AttemptUnclear, Busy
  <2>2. CASE ~(tries' < MaximumAttempts)
    BY <1>1, <1>10, <2>2 DEF AttemptUnclear, ReportFailure, TypeOK, SendTypes
  <2>3. QED BY <2>1, <2>2
<1>11. CASE Tick \/ UNCHANGED vars
  BY <1>1, <1>4, <1>11 DEF Tick, vars, sendVars, Busy
<1>12. QED BY <1>2, <1>3, <1>5, <1>6, <1>7, <1>8, <1>9, <1>10, <1>11
         DEF Next, Route, Attempt, Appends

LEMMA ArrivedStep ==
    ASSUME TypeOK, ArrivedInv, [Next]_vars
    PROVE  ArrivedInv'
<1>1. CASE stage' # "record"
  BY <1>1 DEF ArrivedInv
<1>2. CASE AttemptAccepted
  <2>1. Reaches /\ UNCHANGED <<dest, batch, crashes>> /\ dest \in Destinations
    BY <1>2 DEF AttemptAccepted, sendVars, TypeOK, WorkTypes
  <2>2. Len(received[dest]) + 1 \in 1 .. Len(received[dest]) + 1
    BY <2>1, ReachesIs
  <2>3. QED BY <2>1, <2>2, ReachesIs DEF ArrivedInv
<1>3. CASE UNCHANGED <<stage, dest, batch, crashes, received>>
  BY <1>3 DEF ArrivedInv
<1>4. CASE Route
  <2>1. CASE FlushFirst \/ FlushBefore \/ FlushFull \/ FlushAtClose
    BY <1>1, <2>1, FlushIs DEF FlushFirst, FlushBefore, FlushFull, FlushAtClose
  <2>2. CASE ~(FlushFirst \/ FlushBefore \/ FlushFull \/ FlushAtClose)
    BY <1>1, <1>4, <2>2 DEF Route, SkipEvent, DeliverNow, Send, DropDuplicate, SentAtOnce, AtEvent,
       AppendResult, AppendAfterFlush, Enqueue, NextDestination, StateUnreadable, Fresh, Routing
  <2>3. QED BY <2>1, <2>2
<1>5. CASE AttemptRefused \/ AttemptUnclear \/ AttemptRaises \/ Record
  <2>1. stage' # "record"
    BY <1>5 DEF AttemptRefused, AttemptUnclear, AttemptRaises, Record, ReportFailure, Fresh,
       TypeOK, SendTypes
  <2>2. QED BY <1>1, <2>1
<1>6. CASE Crash
  BY <1>1, <1>6 DEF Crash, Fresh
<1>7. CASE Tick \/ UNCHANGED vars
  BY <1>3, <1>7 DEF Tick, vars, sendVars
<1>8. QED BY <1>2, <1>4, <1>5, <1>6, <1>7 DEF Next, Attempt

-----------------------------------------------------------------------------
(* Every event that was shown is accounted for.                             *)

LEMMA AccountIs ==
    ASSUME NEW d, NEW e
    PROVE  e \in Accounted(d) <=>
             \/ e \in failed[d] \/ e \in suppressed[d]
             \/ \E i \in DOMAIN received[d] :
                  received[d][i].life = crashes /\ e \in InRange(received[d][i].events)
BY DEF Accounted

\* Reports and logs only grow while the process lives, the logs beyond that.
LEMMA ReportsGrow ==
    ASSUME TypeOK, QueueInv, HeldInv, [Next]_vars, NEW d \in Destinations
    PROVE  /\ \A i \in DOMAIN received[d] :
                i \in DOMAIN received'[d] /\ received'[d][i] = received[d][i]
           /\ ~Crash =>
                /\ failed[d] \subseteq failed'[d] /\ suppressed[d] \subseteq suppressed'[d]
                /\ unreadable => unreadable'
                /\ troubled \subseteq troubled'
                /\ UNCHANGED crashes
<1>1. ASSUME UNCHANGED received \/ Reaches
      PROVE  \A i \in DOMAIN received[d] :
                i \in DOMAIN received'[d] /\ received'[d][i] = received[d][i]
  <2>1. CASE d = dest /\ Reaches
    BY <2>1, ReachesIs
  <2>2. CASE d # dest /\ Reaches
    BY <2>2, ReachesIs
  <2>3. QED BY <1>1, <2>1, <2>2
<1>2. ReportFailure => failed[d] \subseteq failed'[d]
  BY DEF ReportFailure, TypeOK, ReportTypes, WorkTypes
<1>3. CASE Route
  <2>1. UNCHANGED <<received, failed, troubled, crashes>> /\ (unreadable => unreadable')
    BY <1>3, AppendIs DEF Route, SkipEvent, FlushFirst, DeliverNow, DropDuplicate, FlushBefore,
       Appends, FlushFull, FlushAtClose, Flush, NextDestination, StateUnreadable, reportVars
  <2>2. ASSUME NEW more, suppressed' = [suppressed EXCEPT ![dest] = @ \cup more]
        PROVE  suppressed[d] \subseteq suppressed'[d]
    BY <2>2 DEF TypeOK, ReportTypes
  <2>3. suppressed[d] \subseteq suppressed'[d]
    <3>1. CASE FlushFirst \/ FlushBefore \/ FlushFull \/ FlushAtClose
      BY <3>1, <2>2, FlushIs DEF FlushFirst, FlushBefore, FlushFull, FlushAtClose
    <3>2. CASE DropDuplicate
      BY <3>2, <2>2 DEF DropDuplicate, Suppress
    <3>3. CASE SkipEvent \/ DeliverNow \/ Appends \/ NextDestination \/ StateUnreadable
      BY <3>3, AppendIs DEF SkipEvent, DeliverNow, NextDestination, StateUnreadable, reportVars
    <3>4. QED BY <1>3, <3>1, <3>2, <3>3 DEF Route, Appends
  <2>4. QED BY <1>1, <2>1, <2>3
<1>4. CASE Attempt \/ Record
  <2>1. UNCHANGED received \/ Reaches
    BY <1>4 DEF Attempt, AttemptAccepted, AttemptRefused, AttemptUnclear, AttemptRaises, Record
  <2>2. UNCHANGED failed \/ ReportFailure
    BY <1>4 DEF Attempt, AttemptAccepted, AttemptRefused, AttemptUnclear, AttemptRaises, Record,
       reportVars
  <2>3. UNCHANGED <<suppressed, unreadable, crashes>> /\ troubled \subseteq troubled'
    BY <1>4 DEF Attempt, AttemptAccepted, AttemptRefused, AttemptUnclear, AttemptRaises, Record,
       reportVars
  <2>4. QED BY <1>1, <1>2, <2>1, <2>2, <2>3
<1>5. CASE Tick \/ UNCHANGED vars
  BY <1>1, <1>5 DEF Tick, vars, reportVars
<1>6. CASE Crash
  BY <1>1, <1>6 DEF Crash
<1>7. QED BY <1>3, <1>4, <1>5, <1>6 DEF Next

LEMMA AccountGrows ==
    ASSUME TypeOK, QueueInv, HeldInv, [Next]_vars, ~Crash, NEW d \in Destinations,
           NEW e \in Accounted(d)
    PROVE  e \in (Accounted(d))'
<1>1. /\ \A i \in DOMAIN received[d] : i \in DOMAIN received'[d] /\ received'[d][i] = received[d][i]
      /\ failed[d] \subseteq failed'[d] /\ suppressed[d] \subseteq suppressed'[d]
      /\ UNCHANGED crashes
  BY ReportsGrow
<1>2. CASE e \in failed[d] \/ e \in suppressed[d]
  BY <1>1, <1>2 DEF Accounted
<1>3. CASE \E i \in DOMAIN received[d] :
             received[d][i].life = crashes /\ e \in InRange(received[d][i].events)
  <2>1. PICK i \in DOMAIN received[d] :
             received[d][i].life = crashes /\ e \in InRange(received[d][i].events)
    BY <1>3
  <2>2. /\ i \in DOMAIN received'[d] /\ received'[d][i].life = crashes'
        /\ e \in InRange(received'[d][i].events)
    BY <1>1, <2>1
  <2>3. QED BY <2>2 DEF Accounted
<1>4. QED BY <1>2, <1>3, AccountIs

\* What waits goes on waiting or is accounted for.
LEMMA WaitingStays ==
    ASSUME TypeOK, QueueInv, HeldInv, ArrivedInv, [Next]_vars, ~Crash,
           ~unreadable', troubled' = {}, NEW d \in Destinations, NEW e \in Waiting(d)
    PROVE  e \in (Accounted(d))' \/ e \in (Waiting(d))'
<1>0. dest \in Destinations
  BY DEF TypeOK, WorkTypes
<1>1. CASE UNCHANGED <<pending, dest, stage, batch>>
  BY <1>1 DEF Waiting, Busy
<1>2. ASSUME stage = "route", stage' = "route" \/ UNCHANGED dest, UNCHANGED pending
      PROVE  e \in (Waiting(d))'
  BY <1>2 DEF Waiting, Busy
<1>3. CASE FlushFirst \/ FlushBefore \/ FlushFull \/ FlushAtClose
  <2>1. PICK next \in {"route", "append"} : Flush(next) /\ stage = "route"
    BY <1>3 DEF FlushFirst, FlushBefore, FlushFull, FlushAtClose, AtEvent, NewResult, Routing
  <2>2. e \in InRange(pending[d])
    BY <2>1 DEF Waiting, Busy
  <2>3. CASE d # dest
    <3>1. pending'[d] = pending[d]
      BY <2>1, <2>3, FlushIs DEF TypeOK, QueueTypes
    <3>2. QED BY <2>2, <3>1 DEF Waiting
  <2>4. CASE d = dest /\ ~StillNew(e)
    <3>1. suppressed' = [suppressed EXCEPT ![dest] =
                @ \cup {x \in InRange(pending[dest]) : ~StillNew(x)}]
      BY <2>1, FlushIs
    <3>2. e \in suppressed'[d]
      BY <1>0, <2>2, <2>4, <3>1 DEF TypeOK, ReportTypes
    <3>3. QED BY <3>2 DEF Accounted
  <2>5. CASE d = dest /\ StillNew(e)
    <3>1. stage' = "send" /\ UNCHANGED dest /\ e \in InRange(batch')
      BY <2>1, <2>2, <2>5, FlushIs
    <3>2. QED BY <2>5, <3>1 DEF Waiting, Busy
  <2>6. QED BY <2>3, <2>4, <2>5
<1>4. CASE SkipEvent \/ DropDuplicate \/ DeliverNow
  <2>1. stage = "route" /\ UNCHANGED <<dest, pending>>
    BY <1>4 DEF SkipEvent, DropDuplicate, DeliverNow, SentAtOnce, AtEvent, Routing, queueVars
  <2>2. QED BY <1>2, <2>1
<1>5. CASE NextDestination
  <2>1. stage = "route" /\ stage' = "route" /\ UNCHANGED pending
    BY <1>5 DEF NextDestination, Routing, Fresh, queueVars
  <2>2. QED BY <1>2, <2>1
<1>6. CASE StateUnreadable \/ AttemptRaises
  BY <1>6 DEF StateUnreadable, AttemptRaises
<1>7. CASE Appends
  <2>1. ~Busy /\ pending' = [pending EXCEPT ![dest] = Append(@, Event)]
    BY <1>7, AppendIs DEF Appends, AppendResult, AppendAfterFlush, NewResult, AtEvent, Routing,
       Busy
  <2>2. e \in InRange(pending[d])
    BY <2>1 DEF Waiting
  <2>3. CASE d # dest
    <3>1. pending'[d] = pending[d]
      BY <2>1, <2>3 DEF TypeOK, QueueTypes
    <3>2. QED BY <2>2, <3>1 DEF Waiting
  <2>4. CASE d = dest
    <3> DEFINE s == pending[d]
               t == Append(s, Event)
    <3>1. s \in Seq(Events) /\ pending'[d] = t
      BY <2>1, <2>4 DEF TypeOK, QueueTypes
    <3>2. e \in InRange(s)
      BY <2>2
    <3> HIDE DEF s
    <3>3. \A i \in DOMAIN s : i \in DOMAIN t /\ t[i] = s[i]
      BY <3>1
    <3>4. e \in InRange(t)
      BY <3>2, <3>3 DEF InRange
    <3>5. QED BY <3>1, <3>4 DEF Waiting
  <2>5. QED BY <2>3, <2>4
<1>8. CASE AttemptAccepted
  BY <1>8 DEF AttemptAccepted, sendVars, queueVars, Waiting, Busy
<1>9. ASSUME ReportFailure, UNCHANGED <<dest, pending>>
      PROVE  e \in (Accounted(d))' \/ e \in (Waiting(d))'
  <2>1. CASE e \in InRange(pending[d])
    BY <1>9, <2>1 DEF Waiting
  <2>2. CASE d = dest /\ e \in InRange(batch)
    <3>1. e \in failed'[d]
      BY <1>0, <1>9, <2>2 DEF ReportFailure, Batched, TypeOK, ReportTypes
    <3>2. QED BY <3>1 DEF Accounted
  <2>3. QED BY <2>1, <2>2 DEF Waiting
<1>10. CASE AttemptRefused
  BY <1>9, <1>10 DEF AttemptRefused, queueVars
<1>11. CASE AttemptUnclear
  <2>1. UNCHANGED <<dest, pending>> /\ (ReportFailure \/ UNCHANGED <<stage, batch>>)
    BY <1>11 DEF AttemptUnclear, queueVars
  <2>2. QED BY <1>1, <1>9, <2>1
<1>12. CASE Record
  <2>1. UNCHANGED <<dest, pending, received, crashes>> /\ stage = "record"
    BY <1>12 DEF Record, queueVars
  <2>2. CASE e \in InRange(pending[d])
    BY <2>1, <2>2 DEF Waiting
  <2>3. CASE d = dest /\ e \in InRange(batch)
    <3>1. PICK i \in DOMAIN received[d] :
            received[d][i] = [life |-> crashes, events |-> batch]
      BY <2>1, <2>3 DEF ArrivedInv
    <3>2. e \in Accounted(d)
      BY <2>3, <3>1, AccountIs
    <3>3. QED BY <3>2, AccountGrows
  <2>4. QED BY <2>2, <2>3 DEF Waiting
<1>13. CASE Tick \/ UNCHANGED vars
  BY <1>1, <1>13 DEF Tick, vars, sendVars, queueVars
<1>14. QED BY <1>3, <1>4, <1>5, <1>6, <1>7, <1>8, <1>10, <1>11, <1>12, <1>13
         DEF Next, Route, Attempt, Appends

\* An event a destination passes is suppressed, sent, queued or not for it.
LEMMA PassedIsCovered ==
    ASSUME TypeOK, WorkInv, QueueInv, HeldInv, [Next]_vars, ~Crash,
           ~unreadable', troubled' = {}, NEW d \in Destinations, NEW e \in Events,
           Wants(d, e), ~(e < Horizon(d)), e < (Horizon(d))'
    PROVE  e \in (Accounted(d))' \/ e \in (Waiting(d))'
<1>0. UNCHANGED runVars /\ dest \in Destinations /\ e \in Nat /\ Horizon(d) \in Nat
  BY StepKeepsScript, HorizonIs DEF TypeOK, WorkTypes
<1>1. CASE UNCHANGED <<call, dest, todo>>
  BY <1>0, <1>1, StayWork
<1>2. CASE NextDestination
  BY <1>2, NextWork
<1>3. ASSUME todo # <<>>, todo' = Tail(todo), UNCHANGED <<call, dest>>
      PROVE  d = dest /\ e = Event
  <2>1. (Horizon(d))' = IF d = dest THEN Horizon(d) + 1 ELSE Horizon(d)
    BY <1>0, <1>3, PassWork
  <2>2. d = dest /\ e = Horizon(d)
    BY <1>0, <2>1
  <2>3. QED BY <1>3, <2>2, HorizonIs
<1>4. CASE SkipEvent
  <2>1. todo # <<>> /\ todo' = Tail(todo) /\ UNCHANGED <<call, dest>> /\ ~Wants(dest, Event)
    BY <1>4 DEF SkipEvent
  <2>2. QED BY <1>3, <2>1
<1>5. CASE DropDuplicate
  <2>1. todo # <<>> /\ todo' = Tail(todo) /\ UNCHANGED <<call, dest>>
    BY <1>5 DEF DropDuplicate, AtEvent
  <2>2. suppressed' = [suppressed EXCEPT ![dest] = @ \cup {Event}]
    BY <1>5 DEF DropDuplicate, Suppress
  <2>3. e \in suppressed'[d]
    BY <1>0, <1>3, <2>1, <2>2 DEF TypeOK, ReportTypes
  <2>4. QED BY <2>3 DEF Accounted
<1>6. CASE DeliverNow
  <2>1. todo # <<>> /\ todo' = Tail(todo) /\ UNCHANGED <<call, dest>>
    BY <1>6 DEF DeliverNow, SentAtOnce, AtEvent
  <2>2. PICK x : x = Event
    OBVIOUS
  <2>3. stage' = "send" /\ batch' = <<x>>
    BY <1>6, <2>2 DEF DeliverNow, Send
  <2>4. x \in InRange(batch')
    BY <2>3 DEF InRange
  <2>5. QED BY <1>3, <2>1, <2>2, <2>3, <2>4 DEF Waiting, Busy
<1>7. CASE Appends
  <2>1. /\ todo # <<>> /\ todo' = Tail(todo) /\ UNCHANGED <<call, dest>>
        /\ pending' = [pending EXCEPT ![dest] = Append(@, Event)]
    BY <1>7, AppendIs
  <2> DEFINE s == pending[d]
             t == Append(s, e)
  <2>2. s \in Seq(Events) /\ pending'[d] = t
    BY <1>3, <2>1 DEF TypeOK, QueueTypes
  <2> HIDE DEF s
  <2>3. Len(s) + 1 \in DOMAIN t /\ t[Len(s) + 1] = e
    BY <2>2
  <2>4. e \in InRange(t)
    BY <2>3 DEF InRange
  <2>5. QED BY <2>2, <2>4 DEF Waiting
<1>8. CASE FlushFirst \/ FlushBefore \/ FlushFull \/ FlushAtClose
  BY <1>1, <1>8 DEF FlushFirst, FlushBefore, FlushFull, FlushAtClose, Flush
<1>9. CASE StateUnreadable \/ AttemptRaises
  BY <1>9 DEF StateUnreadable, AttemptRaises
<1>10. CASE AttemptAccepted \/ AttemptRefused \/ AttemptUnclear \/ Record \/ Tick \/ UNCHANGED vars
  BY <1>1, <1>10 DEF AttemptAccepted, AttemptRefused, AttemptUnclear, Record, Tick, vars
<1>11. QED BY <1>2, <1>4, <1>5, <1>6, <1>7, <1>8, <1>9, <1>10 DEF Next, Route, Attempt, Appends

\* Where close() has been, no queue is left.
LEMMA ClosedIsEmpty ==
    ASSUME TypeOK, WorkInv, QueueInv, HeldInv, CoverInv, [Next]_vars, ~Crash,
           ~unreadable', troubled' = {}, NEW d \in Destinations,
           call' = Closed \/ (call' = 3 /\ d < dest')
    PROVE  pending'[d] = <<>>
<1>0. ~unreadable /\ troubled = {} /\ dest \in Destinations /\ call \in 1 .. Closed
  BY ReportsGrow DEF TypeOK, WorkTypes
<1>1. call = Closed \/ (call = 3 /\ d < dest) => pending[d] = <<>>
  BY <1>0 DEF CoverInv
<1>2. call > 2 => todo = <<>>
  <2>1. call > 2 => Reached(call) = Len(Script) /\ Reached(call - 1) = Len(Script)
    BY <1>0 DEF Reached, Closed
  <2>2. QED BY <2>1, HorizonIs, ScriptIs DEF WorkInv, TypeOK, RunTypes
<1>3. CASE UNCHANGED <<call, dest>>
  <2>1. pending[d] = <<>> /\ todo = <<>>
    BY <1>1, <1>2, <1>3 DEF Closed
  <2>2. \A f : f \notin InRange(pending'[d])
    BY <2>1, QueuedIs, AppendIs DEF InRange
  <2>3. PICK s : s = pending'[d]
    OBVIOUS
  <2>4. s \in Seq(Events')
    BY <2>3, TypeStep DEF TypeOK, QueueTypes
  <2>5. s # <<>> => s[1] \in InRange(s)
    BY <2>4 DEF InRange
  <2>6. QED BY <2>2, <2>3, <2>5
<1>4. CASE NextDestination
  <2>1. UNCHANGED pending /\ (Closing => pending[dest] = <<>>) /\ call # Closed
    BY <1>4 DEF NextDestination, DestinationDone, Routing, queueVars
  <2>2. dest \in Nat /\ d \in Nat
    BY <1>0, DestinationsAre
  <2>3. CASE dest + 1 \in Destinations
    <3>1. call' = call /\ dest' = dest + 1
      BY <1>4, <2>3 DEF NextDestination
    <3>2. call = 3 /\ (d < dest \/ d = dest)
      BY <2>1, <2>2, <3>1
    <3>3. QED BY <1>1, <2>1, <3>2 DEF Closing
  <2>4. CASE dest + 1 \notin Destinations
    <3>1. call' = call + 1 /\ dest' = 1
      BY <1>4, <2>4 DEF NextDestination, Fresh
    <3>2. call = 3
      <4>1. ~(d < 1)
        BY DestinationsAre
      <4>2. QED BY <1>0, <3>1, <4>1 DEF Closed
    <3>3. d < dest \/ d = dest
      <4>1. Cardinality(Destinations) \in Nat
        BY FS_CardinalityType, RouterAssumption
      <4>2. QED BY <1>0, <2>2, <2>4, <4>1, RouterAssumption
    <3>4. QED BY <1>1, <2>1, <3>2, <3>3 DEF Closing
  <2>5. QED BY <2>3, <2>4
<1>5. CASE Route
  <2>1. CASE Appends
    BY <1>3, <2>1, AppendIs
  <2>2. CASE ~NextDestination /\ ~Appends
    BY <1>0, <1>3, <1>5, <2>2 DEF Route, Appends, SkipEvent, FlushFirst, DeliverNow, DropDuplicate,
       FlushBefore, FlushFull, FlushAtClose, Flush, StateUnreadable
  <2>3. QED BY <1>4, <2>1, <2>2
<1>6. CASE Attempt \/ Record \/ Tick \/ UNCHANGED vars
  BY <1>3, <1>6 DEF Attempt, AttemptAccepted, AttemptRefused, AttemptUnclear, AttemptRaises,
     Record, Tick, vars
<1>7. QED BY <1>5, <1>6 DEF Next

LEMMA CoverStep ==
    ASSUME TypeOK, WorkInv, QueueInv, HeldInv, ArrivedInv, CoverInv, [Next]_vars
    PROVE  CoverInv'
<1>0. UNCHANGED runVars /\ Events' = Events /\ \A d, e : (Wants(d, e))' = Wants(d, e)
  BY StepKeepsScript, SameScript
<1>1. CASE Crash
  <2>1. Fresh(1) /\ 1 \in 1 .. Closed
    BY <1>1 DEF Crash, Closed
  <2>2. \A d \in Destinations : (Horizon(d))' = 1
    BY <1>0, <2>1, FreshWork DEF Reached
  <2>3. \A e \in Events : ~(e < 1)
    BY ScriptIs DEF TypeOK, RunTypes
  <2>4. call' # Closed /\ call' # 3
    BY <2>1 DEF Fresh, Closed
  <2>5. QED BY <1>0, <2>2, <2>3, <2>4 DEF CoverInv
<1>2. CASE ~Crash
  <2>1. SUFFICES ASSUME ~unreadable', troubled' = {}, NEW d \in Destinations
                 PROVE  /\ \A e \in Events : Wants(d, e) /\ e < (Horizon(d))' =>
                             e \in (Accounted(d))' \/ e \in (Waiting(d))'
                        /\ call' = Closed \/ (call' = 3 /\ d < dest') => pending'[d] = <<>>
    BY <1>0 DEF CoverInv
  <2>2. ~unreadable /\ troubled = {}
    BY <1>2, <2>1, ReportsGrow
  <2>3. ASSUME NEW e \in Events, Wants(d, e), e < (Horizon(d))'
        PROVE  e \in (Accounted(d))' \/ e \in (Waiting(d))'
    <3>1. CASE e < Horizon(d)
      <4>1. e \in Accounted(d) \/ e \in Waiting(d)
        BY <2>2, <2>3, <3>1 DEF CoverInv
      <4>2. QED BY <1>2, <2>1, <4>1, AccountGrows, WaitingStays
    <3>2. CASE ~(e < Horizon(d))
      BY <1>2, <2>1, <2>3, <3>2, PassedIsCovered
    <3>3. QED BY <3>1, <3>2
  <2>4. QED BY <1>2, <2>1, <2>3, ClosedIsEmpty
<1>3. QED BY <1>1, <1>2

-----------------------------------------------------------------------------
(* What the endpoints are sent.                                             *)

LEMMA OrderStep ==
    ASSUME TypeOK, QueueInv, HeldInv, BatchInv, OrderKept, [Next]_vars
    PROVE  OrderKept'
<1>1. SUFFICES ASSUME NEW d \in Destinations, NEW j \in DOMAIN received'[d], NEW i \in 1 .. j - 1,
                      received'[d][i].life = received'[d][j].life
               PROVE  \/ received'[d][i] = received'[d][j]
                      \/ \A e \in InRange(received'[d][i].events) :
                         \A f \in InRange(received'[d][j].events) : e < f
  BY DEF OrderKept
<1>2. received[d] \in Seq(Messages)
  BY DEF TypeOK, ReportTypes
<1>3. CASE j \in DOMAIN received[d] /\ received'[d][j] = received[d][j]
  <2>1. i \in DOMAIN received[d]
    BY <1>2, <1>3
  <2>2. received'[d][i] = received[d][i]
    BY <2>1, ReportsGrow
  <2>3. QED BY <1>1, <1>3, <2>1, <2>2 DEF OrderKept
<1>4. CASE /\ Reaches /\ stage = "send" /\ d = dest /\ j = Len(received[d]) + 1
           /\ received'[d][j] = [life |-> crashes, events |-> batch]
  <2>1. i \in DOMAIN received[d] /\ received'[d][i] = received[d][i]
    BY <1>4, ReachesIs
  <2>2. received[d][i].life = crashes
    BY <1>1, <1>4, <2>1
  <2>3. \/ received[d][i].events = batch
        \/ \A e \in InRange(received[d][i].events) : \A f \in InRange(batch) : e < f
    BY <1>4, <2>1, <2>2 DEF BatchInv, Busy
  <2>4. received[d][i] \in Messages
    BY <1>2, <2>1
  <2>5. received[d][i].events = batch => received[d][i] = [life |-> crashes, events |-> batch]
    BY <2>2, <2>4 DEF Messages
  <2>6. QED BY <1>4, <2>1, <2>3, <2>5
<1>5. QED BY <1>3, <1>4, MessageIs

LEMMA UniformStep ==
    ASSUME TypeOK, BatchInv, BatchesAreUniform, [Next]_vars
    PROVE  BatchesAreUniform'
<1>0. \A s : (Uniform(s))' = Uniform(s)
  BY StepKeepsScript, SameScript
<1>1. \A d \in Destinations : \A i \in DOMAIN received'[d] : Uniform(received'[d][i].events)
  <2>1. SUFFICES ASSUME NEW d \in Destinations, NEW i \in DOMAIN received'[d]
                 PROVE  Uniform(received'[d][i].events)
    OBVIOUS
  <2>2. CASE i \in DOMAIN received[d] /\ received'[d][i] = received[d][i]
    BY <2>2 DEF BatchesAreUniform, Uniform
  <2>3. CASE stage = "send" /\ received'[d][i] = [life |-> crashes, events |-> batch]
    BY <2>3 DEF BatchInv, Busy
  <2>4. QED BY <2>2, <2>3, MessageIs
<1>2. Script' = Script /\ \A e : (IsResult(e))' = IsResult(e)
  BY StepKeepsScript, SameScript
<1>3. QED BY <1>1, <1>2 DEF BatchesAreUniform, Uniform

\* What is recorded are the keys of a batch that has arrived.
LEMMA RecordedStep ==
    ASSUME TypeOK, QueueInv, HeldInv, ArrivedInv, RecordedWasReceived, [Next]_vars
    PROVE  RecordedWasReceived'
<1>0. \A e : (KeyOf(e))' = KeyOf(e)
  BY StepKeepsScript, SameScript
<1>1. SUFFICES ASSUME NEW d \in Destinations, NEW k \in AllKeys, recorded'[d][k] # Never
               PROVE  \E i \in DOMAIN received[d] :
                        \E e \in InRange(received[d][i].events) : KeyOf(e) = k
  <2>1. \A d \in Destinations : \A i \in DOMAIN received[d] :
          i \in DOMAIN received'[d] /\ received'[d][i] = received[d][i]
    BY ReportsGrow
  <2>2. SUFFICES ASSUME NEW d \in Destinations, NEW k \in AllKeys, recorded'[d][k] # Never
                 PROVE  \E i \in DOMAIN received'[d] :
                          \E e \in InRange(received'[d][i].events) : KeyOf(e) = k
    BY <1>0 DEF RecordedWasReceived
  <2>3. PICK i \in DOMAIN received[d] :
          \E e \in InRange(received[d][i].events) : KeyOf(e) = k
    BY <1>1, <2>2
  <2>4. QED BY <2>1, <2>3
<1>2. CASE recorded'[d][k] = recorded[d][k]
  BY <1>1, <1>2 DEF RecordedWasReceived
<1>3. CASE recorded'[d][k] # recorded[d][k]
  <2>1. Record
    <3>1. CASE Route
      BY <1>3, <3>1, AppendIs DEF Route, SkipEvent, FlushFirst, DeliverNow, DropDuplicate,
         FlushBefore, Appends, FlushFull, FlushAtClose, Flush, NextDestination, StateUnreadable
    <3>2. QED BY <1>3, <3>1 DEF Next, vars, Attempt, AttemptAccepted, AttemptRefused, AttemptUnclear,
             AttemptRaises, Tick, Crash
  <2>2. recorded' = [recorded EXCEPT ![dest] =
                 [x \in AllKeys |-> IF x \in RecordedKeys(dest) THEN seen ELSE @[x]]]
    BY <1>3, <2>1 DEF Record
  <2>3. d = dest /\ k \in RecordedKeys(dest)
    BY <1>3, <2>2 DEF TypeOK, RunTypes, WorkTypes
  <2>4. PICK e \in InRange(batch) : KeyOf(e) = k
    BY <2>3 DEF RecordedKeys, Batched
  <2>5. PICK i \in DOMAIN received[dest] : received[dest][i] = [life |-> crashes, events |-> batch]
    BY <2>1 DEF Record, ArrivedInv
  <2>6. QED BY <2>3, <2>4, <2>5
<1>4. QED BY <1>2, <1>3

-----------------------------------------------------------------------------
LEMMA InitHolds == Init => IInv
<1> SUFFICES ASSUME Init PROVE IInv
  OBVIOUS
<1>1. results \in Seq(Decisions) /\ succeeds \in BOOLEAN
  <2>1. PICK n \in 1 .. MaxResults : results \in [1 .. n -> Decisions]
    BY DEF Init
  <2>2. n \in Nat
    BY <2>1, RouterAssumption
  <2>3. QED BY <2>1, <2>2 DEF Init
<1>2. Events = 1 .. Len(Script) /\ Len(Script) \in Nat /\ Len(Script) >= 2
  BY <1>1, ScriptIs
<1>3. RunTypes
  BY <1>1, RouterAssumption DEF Init, RunTypes, Time
<1>4. WorkTypes
  <2>1. 1 \in Events
    BY <1>2
  <2>2. <<1>> \in Seq(Events)
    BY <2>1
  <2>3. QED BY <2>2, FirstIsDestination DEF Init, WorkTypes, Closed
<1>5. SendTypes
  BY RouterAssumption DEF Init, SendTypes, Time
<1>6. QueueTypes
  BY RouterAssumption DEF Init, QueueTypes
<1>7. ReportTypes
  <2>1. <<>> \in Seq(Messages)
    OBVIOUS
  <2>2. received \in [Destinations -> Seq(Messages)]
    BY <2>1 DEF Init
  <2>3. QED BY <2>2 DEF Init, ReportTypes, Quiet
<1>8. \A d \in Destinations : InRange(pending[d]) = {} /\ DOMAIN received[d] = {}
  BY DEF Init, InRange
<1>9. WorkInv
  BY DEF Init, WorkInv, Reached
<1>10. TypeOK
  BY <1>3, <1>4, <1>5, <1>6, <1>7 DEF TypeOK
<1>11. \A d \in Destinations : Horizon(d) = 1
  BY DestinationsAre DEF Init, Horizon, Reached
<1>12. QueueInv /\ LogInv
  BY <1>8 DEF QueueInv, LogInv
<1>13. HeldInv /\ BatchInv /\ ArrivedInv
  BY DEF Init, HeldInv, BatchInv, ArrivedInv, Busy
<1>14. CoverInv
  <2>1. \A e \in Events : ~(e < 1)
    BY <1>2
  <2>2. \A d \in Destinations : pending[d] = <<>>
    BY DEF Init
  <2>3. QED BY <1>11, <2>1, <2>2 DEF CoverInv
<1>15. OrderKept /\ BatchesAreUniform
  BY <1>8 DEF OrderKept, BatchesAreUniform
<1>16. RecordedWasReceived
  BY DEF Init, RecordedWasReceived
<1>17. QED BY <1>9, <1>10, <1>12, <1>13, <1>14, <1>15, <1>16 DEF IInv, RouteInv, SentInv

LEMMA StepKeeps == IInv /\ [Next]_vars => IInv'
<1> SUFFICES ASSUME IInv, [Next]_vars PROVE IInv'
  OBVIOUS
<1>1. TypeOK' /\ WorkInv' /\ QueueInv' /\ LogInv' /\ HeldInv'
  BY TypeStep, WorkStep, QueueStep, LogStep, HeldStep DEF IInv, RouteInv
<1>2. BatchInv' /\ ArrivedInv' /\ CoverInv'
  BY BatchStep, ArrivedStep, CoverStep DEF IInv, RouteInv
<1>3. OrderKept' /\ BatchesAreUniform' /\ RecordedWasReceived'
  BY OrderStep, UniformStep, RecordedStep DEF IInv, RouteInv, SentInv
<1>4. QED BY <1>1, <1>2, <1>3 DEF IInv, RouteInv, SentInv

-----------------------------------------------------------------------------
\* The invariant: each destination has been shown the events up to its horizon, and
\* whatever it was shown is reported, sent, queued or in the batch, in order.
THEOREM Invariance == Spec => []IInv
<1>1. Init => IInv
  BY InitHolds
<1>2. IInv /\ [Next]_vars => IInv'
  BY StepKeeps
<1>3. QED BY <1>1, <1>2, PTL DEF Spec

\* Queues, batches, logs, deadlines and attempts stay within their types and bounds:
\* no queue outgrows maximum_events, no batch is tried more than maximum_attempts.
THEOREM TypeCorrect == Spec => []TypeOK
<1>1. IInv => TypeOK
  BY DEF IInv
<1>2. QED BY <1>1, Invariance, PTL

\* No endpoint is sent events of a run out of order by one process, however queues,
\* events sent at once, retries and given-up calls alternate.  (deliver_all, close)
THEOREM OrderIsKept == Spec => []OrderKept
<1>1. IInv => OrderKept
  BY DEF IInv, SentInv
<1>2. QED BY <1>1, Invariance, PTL

\* A message holds at most maximum_events results, all of one closed bar, or a
\* lifecycle event alone.  (deliver_all, _terminal_boundary)
THEOREM UniformBatches == Spec => []BatchesAreUniform
<1>1. IInv => BatchesAreUniform
  BY DEF IInv, SentInv
<1>2. QED BY <1>1, Invariance, PTL

\* A key is recorded as delivered only if this endpoint was sent an event of that key:
\* no suppression, in this life or after a crash, hides an event the endpoint has not
\* had.  (_record_outcome, _delivered_at)
THEOREM SuppressionIsEarned == Spec => []RecordedWasReceived
<1>1. IInv => RecordedWasReceived
  BY DEF IInv, SentInv
<1>2. QED BY <1>1, Invariance, PTL

\* When close() has returned and nothing was raised, every event a destination enables
\* reached it, failed or was suppressed: no queue is forgotten.  (close)
THEOREM NothingVanishes == Spec => []NoEventVanishes
<1>1. IInv => NoEventVanishes
  <2>1. SUFFICES ASSUME IInv, call = Closed, ~unreadable, troubled = {},
                        NEW d \in Destinations, NEW e \in Events, Wants(d, e)
                 PROVE  e \in Accounted(d)
    BY DEF NoEventVanishes
  <2>2. TypeOK /\ WorkInv /\ HeldInv /\ CoverInv
    BY <2>1 DEF IInv, RouteInv
  <2>3. Reached(call - 1) = Len(Script)
    BY <2>1 DEF Reached, Closed
  <2>4. Horizon(d) \in Nat /\ Reached(call - 1) + 1 <= Horizon(d)
    BY <2>2, HorizonIs
  <2>5. e < Horizon(d)
    BY <2>2, <2>3, <2>4, ScriptIs DEF TypeOK, RunTypes
  <2>6. e \in Accounted(d) \cup Waiting(d)
    BY <2>1, <2>2, <2>5 DEF CoverInv
  <2>7. pending[d] = <<>> /\ ~Busy
    BY <2>1, <2>2 DEF CoverInv, HeldInv, Busy
  <2>8. Waiting(d) = {}
    BY <2>7 DEF Waiting, InRange
  <2>9. QED BY <2>6, <2>8
<1>2. QED BY <1>1, Invariance, PTL

\* What is sent was not recorded within the window before its batch was formed, even if
\* it waited in a queue while its key was recorded.  (_flush_destination)
THEOREM NoRepeat == Spec => NoRepeatInWindow
<1> DEFINE Fair == \A d \in Destinations : received'[d] # received[d] =>
                     LET sent == received'[d][Len(received'[d])].events IN
                     \A e \in InRange(sent) :
                       recorded[d][KeyOf(e)] # Never =>
                         seen - recorded[d][KeyOf(e)] >= WindowSeconds
<1>1. IInv /\ [Next]_vars => Fair
  <2>1. SUFFICES ASSUME IInv, [Next]_vars, NEW d \in Destinations, received'[d] # received[d],
                        NEW e \in InRange(received'[d][Len(received'[d])].events),
                        recorded[d][KeyOf(e)] # Never
                 PROVE  seen - recorded[d][KeyOf(e)] >= WindowSeconds
    OBVIOUS
  <2>2. TypeOK /\ BatchInv
    BY <2>1 DEF IInv, RouteInv
  <2>3. Reaches /\ stage = "send"
    <3>1. CASE Route
      BY <2>1, <2>2, <3>1 DEF Route, SkipEvent, FlushFirst, DeliverNow, DropDuplicate, FlushBefore,
         AppendResult, AppendAfterFlush, Enqueue, FlushFull, FlushAtClose, Flush,
         NextDestination, StateUnreadable
    <3>2. QED BY <2>1, <3>1 DEF Next, vars, Attempt, AttemptAccepted, AttemptRefused, AttemptUnclear,
             AttemptRaises, Record, Tick, Crash
  <2>4. d = dest
    BY <2>1, <2>2, <2>3, ReachesIs
  <2>5. received'[d][Len(received'[d])] = [life |-> crashes, events |-> batch]
    BY <2>2, <2>3, <2>4, ReachesIs
  <2>6. e \in InRange(batch)
    BY <2>1, <2>5
  <2>7. QED BY <2>1, <2>2, <2>3, <2>4, <2>6 DEF BatchInv, Busy
<1>2. QED BY <1>1, Invariance, PTL DEF Spec, NoRepeatInWindow
=============================================================================
