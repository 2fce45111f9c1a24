------------------------- MODULE NotificationRouter -------------------------
(***************************************************************************)
(* The notification router of one engine process, its webhook adapters and *)
(* the delivery state it keeps in the runs table.                          *)
(*                                                                         *)
(* The engine makes three calls: deliver(run_started), then either         *)
(* deliver_all(results and run_succeeded) or deliver(run_failed), then     *)
(* close().  Each call walks the destinations in identifier order.  Result *)
(* events are queued per destination; lifecycle events are sent at once,   *)
(* after the queue.  A process may die anywhere; the same run repeated by  *)
(* a fresh process finds only the durable deduplication state.             *)
(*                                                                         *)
(* An event is its position in Script, the order in which it is handed in. *)
(***************************************************************************)
EXTENDS Integers, Sequences, FiniteSets

CONSTANTS
    Destinations,     \* a set 1 .. n: destination identifiers in sorted order
    Keys,             \* values of the deduplication key of a result
    Bars,             \* closed bars of results
    Subscribed,       \* pairs of a destination and an event type it enables
    MaximumEvents,    \* batching.maximum_events
    FlushSeconds,     \* batching.flush_seconds
    WindowSeconds,    \* deduplication.window_seconds
    MaximumAttempts,  \* retries.maximum_attempts
    MaxResults,       \* bound: result events of a run
    MaxTime,          \* bound: the clock runs over 0 .. MaxTime
    MaxCrashes,       \* bound: processes that die
    Never             \* the None of an optional time

EventTypes == {"run_started", "decision", "run_succeeded", "run_failed"}
Time == 0 .. MaxTime

ASSUME RouterAssumption ==
    /\ IsFiniteSet(Destinations)
    /\ Destinations # {} /\ Destinations = 1 .. Cardinality(Destinations)
    /\ Subscribed \subseteq Destinations \X EventTypes
    /\ MaximumEvents \in Nat \ {0}
    /\ FlushSeconds \in Nat \ {0}
    /\ WindowSeconds \in Nat \ {0}
    /\ MaximumAttempts \in Nat \ {0}
    /\ MaxResults \in Nat \ {0}
    /\ MaxTime \in Nat
    /\ MaxCrashes \in Nat
    /\ Never \notin Time

VARIABLES
    results,    \* the decisions of the run, and whether it succeeds
    succeeds,
    now,        \* clock_seconds
    recorded,   \* durable: time of the last recorded delivery of each key
    call,       \* which of the three calls is being made; Closed after them
    dest,       \* the destination it has come to
    todo,       \* events of the call this destination has still to see
    stage,      \* routing, appending a result, sending or recording a batch
    after,      \* the stage that follows the batch
    seen,       \* clock reading of the router for this event or batch
    batch,      \* events being sent
    tries,      \* attempts made with it
    pending,    \* queue of each destination
    deadline,   \* when the queue is due
    received,   \* what each endpoint has been sent, in order
    failed,     \* events reported as FAILURE, by destination
    suppressed, \* events reported as DEDUPLICATED
    troubled,   \* destinations whose adapter raised an unexpected exception
    unreadable, \* the deduplication state could not be read
    crashes

runVars == <<results, succeeds>>
queueVars == <<pending, deadline>>
sendVars == <<after, seen, batch, tries>>
reportVars == <<failed, suppressed, troubled, unreadable>>
vars == <<runVars, now, recorded, call, dest, todo, stage, sendVars, queueVars,
          received, reportVars, crashes>>

-----------------------------------------------------------------------------
Decision(key, bar) == [type |-> "decision", key |-> key, bar |-> bar]
Decisions == [type : {"decision"}, key : Keys, bar : Bars]
Lifecycle(type) == [type |-> type, key |-> type, bar |-> "none"]

Script ==
    IF succeeds
    THEN <<Lifecycle("run_started")>> \o results \o <<Lifecycle("run_succeeded")>>
    ELSE <<Lifecycle("run_started"), Lifecycle("run_failed")>>
Events == 1 .. Len(Script)
AllKeys == Keys \cup (EventTypes \ {"decision"})
KeyOf(e) == Script[e].key
IsResult(e) == Script[e].type = "decision"
Wants(d, e) == <<d, Script[e].type>> \in Subscribed

Closed == 4
CallEvents(c) ==
    CASE c = 1 -> <<1>>
      [] c = 2 -> [i \in 1 .. Len(Script) - 1 |-> i + 1]
      [] OTHER -> <<>>

\* deliver() for a single event, deliver_all() for more.
Batching == call = 2 /\ succeeds
Closing == call = 3

InRange(seq) == {seq[i] : i \in DOMAIN seq}
Quiet == [d \in Destinations |-> {}]

Fresh(c) ==
    /\ call' = c
    /\ dest' = 1
    /\ todo' = CallEvents(c)
    /\ stage' = "route"
    /\ batch' = <<>>
    /\ tries' = 0
    /\ after' = "route"
    /\ seen' = 0

Init ==
    /\ results \in UNION {[1 .. n -> Decisions] : n \in 1 .. MaxResults}
    /\ succeeds \in BOOLEAN
    /\ now = 0
    /\ recorded = [d \in Destinations |-> [k \in AllKeys |-> Never]]
    /\ call = 1 /\ dest = 1 /\ todo = <<1>>
    /\ stage = "route" /\ after = "route" /\ seen = 0
    /\ batch = <<>> /\ tries = 0
    /\ pending = [d \in Destinations |-> <<>>]
    /\ deadline = [d \in Destinations |-> Never]
    /\ received = [d \in Destinations |-> <<>>]
    /\ failed = Quiet /\ suppressed = Quiet
    /\ troubled = {} /\ unreadable = FALSE
    /\ crashes = 0

-----------------------------------------------------------------------------
\* Delivered to d less than a window ago, as far as the durable state tells.
Duplicate(d, e) ==
    /\ recorded[d][KeyOf(e)] # Never
    /\ now - recorded[d][KeyOf(e)] < WindowSeconds

Event == todo[1]
Routing == stage = "route" /\ call # Closed
QueueFull == Len(pending[dest]) >= MaximumEvents
AtEvent == Routing /\ ~QueueFull /\ todo # <<>> /\ Wants(dest, Event)

Send(events, next) ==
    /\ batch' = events
    /\ tries' = 0
    /\ seen' = now
    /\ after' = next
    /\ stage' = "send"

Suppress(events) ==
    suppressed' = [suppressed EXCEPT ![dest] = @ \cup events]

\* _flush_destination: the queue is emptied first; events that have become
\* duplicates while they waited are dropped from the batch.
SendsAll(e) == TRUE
StillNew(e) == ~Duplicate(dest, e)
Eligible(queue) ==
    LET kept[i \in 0 .. Len(queue)] ==
            IF i = 0 THEN <<>>
            ELSE IF StillNew(queue[i]) THEN Append(kept[i - 1], queue[i])
            ELSE kept[i - 1]
    IN  kept[Len(queue)]

Flush(next) ==
    LET queue == pending[dest]
        eligible == Eligible(queue) IN
    /\ queue # <<>>
    /\ pending' = [pending EXCEPT ![dest] = <<>>]
    /\ deadline' = [deadline EXCEPT ![dest] = Never]
    /\ Suppress(InRange(queue) \ InRange(eligible))
    /\ IF eligible = <<>>
       THEN stage' = next /\ seen' = now /\ UNCHANGED <<after, batch, tries>>
       ELSE Send(eligible, next)
    /\ UNCHANGED <<runVars, now, recorded, call, dest, todo, received, failed,
                   troubled, unreadable, crashes>>

\* An event the destination has not enabled.
SkipEvent ==
    /\ Routing
    /\ ~QueueFull
    /\ todo # <<>>
    /\ ~Wants(dest, Event)
    /\ todo' = Tail(todo)
    /\ UNCHANGED <<runVars, now, recorded, call, dest, stage, sendVars,
                   queueVars, received, reportVars, crashes>>

\* A lifecycle event in a batch of events lets the queue go first.
FlushFirst ==
    /\ AtEvent
    /\ Batching
    /\ ~IsResult(Event)
    /\ Flush("route")

\* _deliver_to_destination: an event that is not queued.
JumpsQueue == AtEvent /\ (Batching => ~IsResult(Event))
SentAtOnce ==
    /\ AtEvent
    /\ Batching => ~IsResult(Event) /\ pending[dest] = <<>>

DeliverNow ==
    /\ SentAtOnce
    /\ ~Duplicate(dest, Event)
    /\ Send(<<Event>>, "route")
    /\ todo' = Tail(todo)
    /\ UNCHANGED <<runVars, now, recorded, call, dest, queueVars, received,
                   reportVars, crashes>>

DropDuplicate ==
    /\ AtEvent
    /\ SentAtOnce \/ (Batching /\ IsResult(Event))
    /\ Duplicate(dest, Event)
    /\ Suppress({Event})
    /\ todo' = Tail(todo)
    /\ UNCHANGED <<runVars, now, recorded, call, dest, stage, sendVars,
                   queueVars, received, failed, troubled, unreadable, crashes>>

\* A result that is new starts the work on the queue it will join.
NewResult == AtEvent /\ Batching /\ IsResult(Event) /\ ~Duplicate(dest, Event)

DeadlineOnly(d, e) == deadline[d] # Never /\ now >= deadline[d]

\* The queue is due, or holds results of another closed bar.
MustGoFirst(d, e) ==
    \/ deadline[d] # Never /\ now >= deadline[d]
    \/ pending[d] # <<>> /\ Script[pending[d][1]].bar # Script[e].bar

FlushBefore ==
    /\ NewResult
    /\ MustGoFirst(dest, Event)
    /\ Flush("append")

\* The deadline of a new queue counts from the reading made before any flush,
\* which is this step's when nothing had to be flushed.
Enqueue(read) ==
    /\ pending' = [pending EXCEPT ![dest] = Append(@, Event)]
    /\ deadline' = IF pending[dest] = <<>>
                   THEN [deadline EXCEPT ![dest] = read + FlushSeconds]
                   ELSE deadline
    /\ todo' = Tail(todo)
    /\ stage' = "route"
    /\ UNCHANGED <<runVars, now, recorded, call, dest, sendVars, received,
                   reportVars, crashes>>

AppendResult ==
    /\ NewResult
    /\ ~MustGoFirst(dest, Event)
    /\ Enqueue(now)

AppendAfterFlush ==
    /\ stage = "append"
    /\ Enqueue(seen)

FlushFull ==
    /\ Routing
    /\ QueueFull
    /\ Flush("route")

\* close() flushes what is left.
FlushAtClose ==
    /\ Routing
    /\ Closing
    /\ ~QueueFull
    /\ Flush("route")

LeavesQueue == ~QueueFull /\ todo = <<>>
AwaitsQueue == todo = <<>> /\ pending[dest] = <<>>
DestinationDone ==
    /\ ~QueueFull
    /\ todo = <<>>
    /\ Closing => pending[dest] = <<>>

NextDestination ==
    /\ Routing
    /\ DestinationDone
    /\ IF dest + 1 \in Destinations
       THEN /\ dest' = dest + 1
            /\ todo' = CallEvents(call)
            /\ UNCHANGED <<call, stage, sendVars>>
       ELSE Fresh(call + 1)
    /\ UNCHANGED <<runVars, now, recorded, queueVars, received, reportVars,
                   crashes>>

\* The deduplication state is malformed or the database refuses to answer: the
\* exception leaves the whole call.  A queue taken for flushing is gone.
ReadsForEvent == AtEvent /\ (Batching /\ ~IsResult(Event) => pending[dest] = <<>>)
ReadsForFlush ==
    /\ Routing
    /\ pending[dest] # <<>>
    /\ \/ QueueFull
       \/ Closing
       \/ AtEvent /\ Batching /\ (IsResult(Event) => MustGoFirst(dest, Event))

StateUnreadable ==
    /\ \/ ReadsForEvent /\ UNCHANGED queueVars
       \/ /\ ReadsForFlush
          /\ pending' = [pending EXCEPT ![dest] = <<>>]
          /\ deadline' = [deadline EXCEPT ![dest] = Never]
    /\ unreadable' = TRUE
    /\ Fresh(call + 1)
    /\ UNCHANGED <<runVars, now, recorded, received, failed, suppressed,
                   troubled, crashes>>

-----------------------------------------------------------------------------
(* The adapter: one POST per attempt.                                       *)

Reaches ==
    received' = [received EXCEPT
                   ![dest] = Append(@, [life |-> crashes, events |-> batch])]
Batched == InRange(batch)

KeepsBatch ==
    /\ failed' = [failed EXCEPT ![dest] = @ \cup Batched]
    /\ stage' = after
    /\ batch' = batch
ReportFailure ==
    /\ failed' = [failed EXCEPT ![dest] = @ \cup Batched]
    /\ stage' = after
    /\ batch' = <<>>

\* The endpoint has the message and says so.
AttemptAccepted ==
    /\ stage = "send"
    /\ Reaches
    /\ stage' = "record"
    /\ UNCHANGED <<runVars, now, recorded, call, dest, todo, sendVars,
                   queueVars, reportVars, crashes>>

\* A permanent answer, or an adapter that cannot be built or cannot render.
AttemptRefused ==
    /\ stage = "send"
    /\ ReportFailure
    /\ UNCHANGED <<runVars, now, recorded, call, dest, todo, after, seen, tries,
                   queueVars, received, suppressed, troubled, unreadable, crashes>>

\* A time-out or a temporary answer: the message may have arrived all the same.
AttemptUnclear ==
    /\ stage = "send"
    /\ tries' = tries + 1
    /\ Reaches \/ UNCHANGED received
    /\ IF tries' < MaximumAttempts
       THEN UNCHANGED <<failed, stage, batch>>
       ELSE ReportFailure
    /\ UNCHANGED <<runVars, now, recorded, call, dest, todo, after, seen,
                   queueVars, suppressed, troubled, unreadable, crashes>>

\* An answer that is not HTTP raises http.client.HTTPException, which neither
\* the adapter nor the router catches: the engine gives up the call.
AttemptRaises ==
    /\ stage = "send"
    /\ Reaches \/ UNCHANGED received
    /\ troubled' = troubled \cup {dest}
    /\ Fresh(call + 1)
    /\ UNCHANGED <<runVars, now, recorded, queueVars, failed, suppressed,
                   unreadable, crashes>>

\* One transaction stores the outcome and the keys of the whole batch; when it
\* fails the success becomes a reported failure.
RecordsQueue(d) == {KeyOf(e) : e \in Batched \cup InRange(pending[d]) \cup InRange(todo)}
RecordedKeys(d) == {KeyOf(e) : e \in Batched}

Record ==
    /\ stage = "record"
    /\ \/ /\ recorded' = [recorded EXCEPT ![dest] =
                 [k \in AllKeys |-> IF k \in RecordedKeys(dest) THEN seen ELSE @[k]]]
          /\ stage' = after
          /\ batch' = <<>>
          /\ UNCHANGED failed
       \/ /\ ReportFailure
          /\ UNCHANGED recorded
    /\ UNCHANGED <<runVars, now, call, dest, todo, after, seen, tries, queueVars,
                   received, suppressed, troubled, unreadable, crashes>>

-----------------------------------------------------------------------------
Tick ==
    /\ now < MaxTime
    /\ now' = now + 1
    /\ UNCHANGED <<runVars, recorded, call, dest, todo, stage, sendVars,
                   queueVars, received, reportVars, crashes>>

\* The process dies, and the run is repeated with what is durable.
Crash ==
    /\ call # Closed
    /\ crashes < MaxCrashes
    /\ crashes' = crashes + 1
    /\ Fresh(1)
    /\ pending' = [d \in Destinations |-> <<>>]
    /\ deadline' = [d \in Destinations |-> Never]
    /\ failed' = Quiet /\ suppressed' = Quiet
    /\ troubled' = {} /\ unreadable' = FALSE
    /\ UNCHANGED <<runVars, now, recorded, received>>

Route ==
    \/ SkipEvent \/ FlushFirst \/ DeliverNow \/ DropDuplicate \/ FlushBefore
    \/ AppendResult \/ AppendAfterFlush \/ FlushFull \/ FlushAtClose
    \/ NextDestination \/ StateUnreadable
Attempt == AttemptAccepted \/ AttemptRefused \/ AttemptUnclear \/ AttemptRaises

Next == Route \/ Attempt \/ Record \/ Tick \/ Crash

Spec == Init /\ [][Next]_vars

\* The process runs on until it dies; sockets and the database have timeouts.
FairSpec == Spec /\ WF_vars(Route \/ Attempt \/ Record)

-----------------------------------------------------------------------------
Messages == [life : 0 .. MaxCrashes, events : Seq(Events)]

RunTypes ==
    /\ results \in Seq(Decisions)
    /\ succeeds \in BOOLEAN
    /\ now \in Time
    /\ recorded \in [Destinations -> [AllKeys -> Time \cup {Never}]]
    /\ crashes \in 0 .. MaxCrashes
WorkTypes ==
    /\ call \in 1 .. Closed
    /\ dest \in Destinations
    /\ todo \in Seq(Events)
SendTypes ==
    /\ stage \in {"route", "append", "send", "record"}
    /\ after \in {"route", "append"}
    /\ seen \in Time
    /\ batch \in Seq(Events)
    /\ batch # <<>> <=> stage \in {"send", "record"}
    /\ tries \in 0 .. MaximumAttempts
    /\ stage = "send" => tries < MaximumAttempts
QueueTypes ==
    /\ pending \in [Destinations -> Seq(Events)]
    /\ deadline \in [Destinations -> Nat \cup {Never}]
    /\ \A d \in Destinations :
         /\ Len(pending[d]) <= MaximumEvents
         /\ pending[d] # <<>> => deadline[d] \in Nat
ReportTypes ==
    /\ received \in [Destinations -> Seq(Messages)]
    /\ failed \in [Destinations -> SUBSET Events]
    /\ suppressed \in [Destinations -> SUBSET Events]
    /\ troubled \subseteq Destinations
    /\ unreadable \in BOOLEAN

TypeOK == RunTypes /\ WorkTypes /\ SendTypes /\ QueueTypes /\ ReportTypes

\* An endpoint never sees events of a run out of order: within one process each
\* message repeats the one before it or carries later events only.  Queues,
\* events sent at once and retries all feed it.
OrderKept ==
    \A d \in Destinations : \A j \in DOMAIN received[d] : \A i \in 1 .. j - 1 :
        received[d][i].life = received[d][j].life =>
            \/ received[d][i] = received[d][j]
            \/ \A e \in InRange(received[d][i].events) :
               \A f \in InRange(received[d][j].events) : e < f

\* A message holds at most maximum_events results, all of one closed bar, or a
\* lifecycle event alone.
BatchesAreUniform ==
    \A d \in Destinations : \A i \in DOMAIN received[d] :
        LET sent == received[d][i].events IN
        /\ Len(sent) <= MaximumEvents
        /\ \A e, f \in InRange(sent) : Script[e].bar = Script[f].bar
        /\ Len(sent) > 1 => \A e \in InRange(sent) : IsResult(e)

\* The deduplication state never runs ahead of the endpoint: a key is recorded
\* only if this endpoint was sent an event of that key, in this process or a
\* dead one, so no suppression hides an event the endpoint has not had.
RecordedWasReceived ==
    \A d \in Destinations : \A k \in AllKeys :
        recorded[d][k] # Never =>
            \E i \in DOMAIN received[d] : \E e \in InRange(received[d][i].events) :
                KeyOf(e) = k

\* What is sent was not recorded within the window before the batch was formed,
\* even if the event waited in a queue while its key was recorded.
NoRepeatInWindow ==
    [][\A d \in Destinations : received'[d] # received[d] =>
         LET sent == received'[d][Len(received'[d])].events IN
         \A e \in InRange(sent) :
             recorded[d][KeyOf(e)] # Never =>
                 seen - recorded[d][KeyOf(e)] >= WindowSeconds]_vars

\* When close() has returned, every event a destination has enabled reached it,
\* was reported as failed or was suppressed as a duplicate: no queue is
\* forgotten, whatever was flushed and when.
Accounted(d) ==
    failed[d] \cup suppressed[d] \cup
    UNION {InRange(received[d][i].events) :
             i \in {j \in DOMAIN received[d] : received[d][j].life = crashes}}

NoEventVanishes ==
    call = Closed /\ ~unreadable /\ troubled = {} =>
        \A d \in Destinations : \A e \in Events : Wants(d, e) => e \in Accounted(d)

\* README.md: "A failed destination does not prevent another destination from
\* receiving the event."
FailureIsIsolated ==
    call = Closed /\ ~unreadable =>
        \A d \in Destinations \ troubled : \A e \in Events :
            Wants(d, e) => e \in Accounted(d)

\* Retries are bounded and close() leaves nothing behind: the process gets
\* through its calls.
RunCloses == <>(call = Closed)
=============================================================================
