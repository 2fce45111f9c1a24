------------------------- MODULE ExecutionSimulator -------------------------
(***************************************************************************)
(* The execution of replayed READY decisions against the one-minute        *)
(* candles of one instrument: the loop of _run_instrument, one candle per  *)
(* round, in the order of its statements.                                  *)
(*                                                                         *)
(*   candle -> entry -> exit -> decide -> candle ... -> done               *)
(*                                                                         *)
(* Candles and decisions are chosen as they come; a decision stands for    *)
(* its hash, which does not tell when it was made.  Times are minutes,     *)
(* prices are numbers on a grid and rates are fractions of Scale.          *)
(***************************************************************************)
EXTENDS Integers, Sequences, FiniteSets, FiniteSetsExt

CONSTANTS
    Candles,     \* candles that may come
    Decisions,   \* READY decisions that may be made
    BarMinutes,  \* length of an execution bar
    ExpiryBars,  \* entry.expiry_execution_bars
    MaxHolding,  \* execution.maximum_holding_minutes
    Fee,         \* costs.taker_fee_bps
    Slippage,    \* costs.adverse_slippage_bps
    Scale,       \* what 10000 basis points are
    MaxCandles,  \* bound: candles of the period
    None         \* the None of an optional trade

Prices == Nat \ {0}

ASSUME CandleAssumption ==
    \A c \in Candles :
        /\ c \in [open : Prices, high : Prices, low : Prices, close : Prices]
        /\ c.low <= c.open /\ c.open <= c.high
        /\ c.low <= c.close /\ c.close <= c.high

\* What the risk indicator lets pass: stop and target on either side.
ASSUME DecisionAssumption ==
    \A d \in Decisions :
        /\ d \in [direction : {"LONG", "SHORT"}, entry : Prices, stop : Nat,
                  target : Nat]
        /\ d.direction = "LONG" => d.stop < d.entry /\ d.entry < d.target
        /\ d.direction = "SHORT" => d.target < d.entry /\ d.entry < d.stop

ASSUME ScenarioAssumption ==
    /\ BarMinutes \in Nat \ {0}
    /\ ExpiryBars \in Nat \ {0}
    /\ MaxHolding \in Nat \ {0}
    /\ Scale \in Nat \ {0}
    /\ Fee \in 0 .. Scale
    /\ Slippage \in 0 .. Scale
    /\ MaxCandles \in Nat

\* An optional trade that is there is not None.
ASSUME NoneAssumption ==
    None \notin [decision : Decisions, signal : Nat, entry : Nat]

VARIABLES
    stage,    \* statement of the loop
    minute,   \* open time of the candle in hand
    candle,   \* that candle
    pending,  \* decision that waits for its entry
    opened,   \* trade that waits for its exit
    seen,     \* decisions that were READY before
    trades,   \* records of finished trades
    path      \* history: candles since the decision in pending or opened

vars == <<stage, minute, candle, pending, opened, seen, trades, path>>

IgnoresOpen == pending = None
Free == pending = None /\ opened = None

Init ==
    /\ stage = "candle"
    /\ minute = -1
    /\ candle = None
    /\ pending = None
    /\ opened = None
    /\ seen = {}
    /\ trades = {}
    /\ path = <<>>

-----------------------------------------------------------------------------
\* The limit is reached from the side on which the decision was made.
TouchesEntry(d, c) ==
    IF d.direction = "LONG" THEN c.low <= d.entry ELSE c.high >= d.entry

TargetTouched(d, c) ==
    IF d.direction = "LONG" THEN c.high >= d.target ELSE c.low <= d.target

StopTouched(d, c) ==
    IF d.direction = "LONG" THEN c.low <= d.stop ELSE c.high >= d.stop

\* A gap over the stop is filled at the worse opening price.
BetterFill(d, c) ==
    IF d.direction = "LONG" THEN Max({d.stop, c.open}) ELSE Min({d.stop, c.open})
StopFill(d, c) ==
    IF d.direction = "LONG"
    THEN IF d.stop <= c.open THEN d.stop ELSE c.open
    ELSE IF d.stop >= c.open THEN d.stop ELSE c.open

\* Minutes in which a decision may be filled, the one after it first.
Lifetime == ExpiryBars * BarMinutes
OneMinuteMore(signal) == signal + 2 + Lifetime
ExpiresBefore(signal) == signal + 1 + Lifetime

Duration(trade) == minute - trade.entry + 1

-----------------------------------------------------------------------------
\* ended is exit_time; an expired entry has none, and ended is history.
ExpiredWithEntry(waiting) ==
    [decision |-> waiting.decision, signal |-> waiting.signal,
     entry |-> minute, ended |-> minute, price |-> None,
     reason |-> "ENTRY_EXPIRED"]
Expired(waiting) ==
    [decision |-> waiting.decision, signal |-> waiting.signal,
     entry |-> None, ended |-> minute, price |-> None,
     reason |-> "ENTRY_EXPIRED"]

Closed(trade, price, reason) ==
    [decision |-> trade.decision, signal |-> trade.signal,
     entry |-> trade.entry, ended |-> minute, price |-> price, reason |-> reason]

NextCandle ==
    /\ stage = "candle"
    /\ minute + 1 < MaxCandles
    /\ minute' = minute + 1
    /\ \E c \in Candles :
         /\ candle' = c
         /\ path' = IF Free THEN <<>> ELSE Append(path, c)
    /\ stage' = "entry"
    /\ UNCHANGED <<pending, opened, seen, trades>>

\* Expiry is looked at first: the candle that is too late fills nothing.
ExpireEntry ==
    /\ stage = "entry"
    /\ pending # None
    /\ minute >= pending.expires
    /\ trades' = trades \cup {Expired(pending)}
    /\ pending' = None
    /\ stage' = "exit"
    /\ UNCHANGED <<minute, candle, opened, seen, path>>

FillEntry ==
    /\ stage = "entry"
    /\ pending # None
    /\ minute < pending.expires
    /\ TouchesEntry(pending.decision, candle)
    /\ opened' = [decision |-> pending.decision, signal |-> pending.signal,
                  entry |-> minute]
    /\ pending' = None
    /\ stage' = "exit"
    /\ UNCHANGED <<minute, candle, seen, trades, path>>

AwaitEntry ==
    /\ stage = "entry"
    /\ pending # None =>
         /\ minute < pending.expires
         /\ ~TouchesEntry(pending.decision, candle)
    /\ stage' = "exit"
    /\ UNCHANGED <<minute, candle, pending, opened, seen, trades, path>>

-----------------------------------------------------------------------------
(* An open trade looks for its exit from the candle of its entry on: the    *)
(* stop first, the target not on that candle, the time-out last.            *)

Stops == StopTouched(opened.decision, candle)
Targets ==
    /\ minute > opened.entry
    /\ TargetTouched(opened.decision, candle)
TimesOut == Duration(opened) >= MaxHolding

Close(price, reason) ==
    /\ trades' = trades \cup {Closed(opened, price, reason)}
    /\ opened' = None
    /\ stage' = "decide"
    /\ UNCHANGED <<minute, candle, pending, seen, path>>

CloseAtStop ==
    /\ stage = "exit"
    /\ opened # None
    /\ Stops
    /\ Close(StopFill(opened.decision, candle), "STOP")

CloseAtTarget ==
    /\ stage = "exit"
    /\ opened # None
    /\ ~Stops
    /\ Targets
    /\ Close(opened.decision.target, "TARGET")

CloseAtTimeout ==
    /\ stage = "exit"
    /\ opened # None
    /\ ~Stops
    /\ ~Targets
    /\ TimesOut
    /\ Close(candle.close, "TIMEOUT")

KeepOpen ==
    /\ stage = "exit"
    /\ opened # None => ~Stops /\ ~Targets /\ ~TimesOut
    /\ stage' = "decide"
    /\ UNCHANGED <<minute, candle, pending, opened, seen, trades, path>>

-----------------------------------------------------------------------------
(* The evaluation made at the close of this candle, if a bar closes with it. *)

BarCloses == (minute + 1) % BarMinutes = 0
AlwaysNew(d) == TRUE
IsNew(d) == d \notin seen

AcceptDecision(d) ==
    /\ stage = "decide"
    /\ BarCloses
    /\ IsNew(d)
    /\ Free
    /\ seen' = seen \cup {d}
    /\ pending' = [decision |-> d, signal |-> minute,
                   expires |-> ExpiresBefore(minute)]
    /\ path' = <<>>
    /\ stage' = "candle"
    /\ UNCHANGED <<minute, candle, opened, trades>>

\* A decision that finds the instrument busy is lost, its repetitions as well.
DropDecision(d) ==
    /\ stage = "decide"
    /\ BarCloses
    /\ IsNew(d)
    /\ ~Free
    /\ seen' = seen \cup {d}
    /\ stage' = "candle"
    /\ UNCHANGED <<minute, candle, pending, opened, trades, path>>

\* No bar closes, its evaluation is not READY, or READY once more.
DecideNothing ==
    /\ stage = "decide"
    /\ stage' = "candle"
    /\ UNCHANGED <<minute, candle, pending, opened, seen, trades, path>>

\* Whatever is left after the last candle is settled with it.
EndOfData ==
    /\ stage = "candle"
    /\ minute >= 0
    /\ trades' = trades
         \cup (IF pending # None THEN {Expired(pending)} ELSE {})
         \cup (IF opened # None
               THEN {Closed(opened, candle.close, "END_OF_DATA")} ELSE {})
    /\ pending' = None
    /\ opened' = None
    /\ stage' = "done"
    /\ UNCHANGED <<minute, candle, seen, path>>

Next ==
    \/ NextCandle
    \/ ExpireEntry \/ FillEntry \/ AwaitEntry
    \/ CloseAtStop \/ CloseAtTarget \/ CloseAtTimeout \/ KeepOpen
    \/ \E d \in Decisions : AcceptDecision(d) \/ DropDecision(d)
    \/ DecideNothing
    \/ EndOfData

Spec == Init /\ [][Next]_vars

-----------------------------------------------------------------------------
(* The accounts of a closed trade, per unit: gross in prices, executed      *)
(* prices times Scale, fees and net result times Scale squared.             *)

Sign(d) == IF d.direction = "LONG" THEN 1 ELSE -1
Risk(d) == Sign(d) * (d.entry - d.stop)
Reward(d) == Sign(d) * (d.target - d.entry)

ExecutedEntry(d) == d.entry * (Scale + Sign(d) * Slippage)
PaysSpread(d, price) == price * (Scale + Sign(d) * Slippage)
ExecutedExit(d, price) == price * (Scale - Sign(d) * Slippage)
Gross(d, price) == Sign(d) * (price - d.entry)
Net(d, price) ==
    Scale * Sign(d) * (ExecutedExit(d, price) - ExecutedEntry(d))
      - Fee * ExecutedEntry(d) - Fee * ExecutedExit(d, price)

-----------------------------------------------------------------------------
ClosedReasons == {"STOP", "TARGET", "TIMEOUT", "END_OF_DATA"}
Minutes == Nat

TypeOK ==
    /\ stage \in {"candle", "entry", "exit", "decide", "done"}
    /\ minute \in Minutes \cup {-1}
    /\ candle \in Candles \cup {None}
    /\ minute = -1 => stage = "candle" /\ Free
    /\ minute # -1 => candle \in Candles
    /\ pending # None =>
         pending \in [decision : Decisions, signal : Minutes, expires : Minutes]
    /\ opened # None =>
         opened \in [decision : Decisions, signal : Minutes, entry : Minutes]
    /\ seen \subseteq Decisions
    /\ \A r \in trades :
         \/ r \in [decision : Decisions, signal : Minutes, entry : Minutes,
                   ended : Minutes, price : Nat, reason : ClosedReasons]
         \/ r \in [decision : Decisions, signal : Minutes, entry : {None},
                   ended : Minutes, price : {None}, reason : {"ENTRY_EXPIRED"}]

\* README "The simulator permits only one pending or open trade per instrument":
\* from the decision to its end no two trades overlap, and what is in the slot
\* began when every earlier one had ended.
OneTradeAtATime ==
    /\ pending = None \/ opened = None
    /\ \A r, q \in trades :
         r # q => r.ended <= q.signal \/ q.ended <= r.signal
    /\ \A r \in trades :
         /\ pending # None => r.ended <= pending.signal
         /\ opened # None => r.ended <= opened.signal

\* A decision that is made again, after it expired, was traded or was dropped,
\* is not traded again.
NoDecisionTwice ==
    /\ \A r, q \in trades : r.decision = q.decision => r = q
    /\ \A r \in trades :
         /\ pending # None => pending.decision # r.decision
         /\ opened # None => opened.decision # r.decision

\* The conservative rules of the documentation as bounds on the result: a stop
\* loses at least the risk, a target earns exactly the reward and never in the
\* minute of the entry, and everything else stays between the two levels (above
\* the target only in that minute), not filled late and not held too long.
ResultsAreBounded ==
    \A r \in trades : r.reason \in ClosedReasons =>
        LET gross == Gross(r.decision, r.price) IN
        /\ r.signal < r.entry /\ r.entry <= r.signal + Lifetime
        /\ r.entry <= r.ended /\ r.ended < r.entry + MaxHolding
        /\ r.reason = "STOP" => gross <= -Risk(r.decision)
        /\ r.reason = "TARGET" => gross = Reward(r.decision) /\ r.ended > r.entry
        /\ r.reason \in {"TIMEOUT", "END_OF_DATA"} =>
             /\ gross > -Risk(r.decision)
             /\ r.ended > r.entry => gross < Reward(r.decision)

\* Slippage and fees only take: no closed trade nets more than its gross result.
CostsNeverPay ==
    \A r \in trades : r.reason \in ClosedReasons =>
        Net(r.decision, r.price) <= Scale * Scale * Gross(r.decision, r.price)

-----------------------------------------------------------------------------
(* What a trade is, told from the candles that follow its decision.         *)

Fills(d) == {i \in 1 .. Len(path) : i <= Lifetime /\ TouchesEntry(d, path[i])}
Ends(d, first) ==
    {i \in first .. Len(path) :
       \/ StopTouched(d, path[i])
       \/ i > first /\ TargetTouched(d, path[i])
       \/ i - first + 1 = MaxHolding}

ReasonAt(d, first, last) ==
    CASE StopTouched(d, path[last]) -> "STOP"
      [] ~StopTouched(d, path[last]) /\ last > first
           /\ TargetTouched(d, path[last]) -> "TARGET"
      [] OTHER -> "TIMEOUT"

\* The trade of d has come to this point on the path.
IsWaiting(d) == Fills(d) = {} /\ Len(path) <= Lifetime
IsOpen(d, first) == Fills(d) # {} /\ first = Min(Fills(d)) /\ Ends(d, first) = {}
IsClosed(d, first, reason) ==
    /\ Fills(d) # {}
    /\ first = Min(Fills(d))
    /\ Ends(d, first) # {}
    /\ Len(path) = Min(Ends(d, first))
    /\ reason = ReasonAt(d, first, Len(path))

\* The loop computes what a trade is: entered at the first touch of its entry
\* within its lifetime, ended at the first stop, target or time-out after that,
\* in this order; no later candle plays a part and none before is passed over.
TradesMatchDefinition ==
    stage = "decide" /\ (path # <<>> \/ ~Free) =>
        /\ pending # None => IsWaiting(pending.decision)
        /\ opened # None =>
             IsOpen(opened.decision, opened.entry - opened.signal)
        /\ Free =>
             \E r \in trades :
                 /\ r.ended = minute
                 /\ r.signal = minute - Len(path)
                 /\ IF r.reason = "ENTRY_EXPIRED"
                    THEN Fills(r.decision) = {} /\ Len(path) = Lifetime + 1
                    ELSE IsClosed(r.decision, r.entry - r.signal, r.reason)
=============================================================================
