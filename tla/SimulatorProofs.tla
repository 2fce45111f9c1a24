--------------------------- MODULE SimulatorProofs ---------------------------
(***************************************************************************)
(* Safety of ExecutionSimulator for any candles, decisions and scenario.   *)
(***************************************************************************)
EXTENDS ExecutionSimulator, TLAPS

\* How long the decision in hand has waited, or its trade is held.
AgeInv ==
    /\ pending # None =>
         /\ pending.signal <= minute
         /\ stage \in {"entry", "exit", "decide"} => pending.signal < minute
         /\ pending.expires = pending.signal + 1 + Lifetime
    /\ opened # None =>
         /\ opened.signal < opened.entry
         /\ opened.entry <= opened.signal + Lifetime
         /\ opened.entry <= minute
         /\ minute < opened.entry + MaxHolding
         /\ stage \in {"decide", "candle"} => minute + 1 < opened.entry + MaxHolding

\* A trade that is kept has met neither of its levels on this candle.
KeptInv ==
    opened # None /\ stage \in {"decide", "candle"} =>
        /\ ~StopTouched(opened.decision, candle)
        /\ minute > opened.entry => ~TargetTouched(opened.decision, candle)

\* Every decision traded or in hand has been seen; every trade has ended.
PastInv ==
    /\ pending # None => pending.decision \in seen
    /\ opened # None => opened.decision \in seen
    /\ \A r \in trades : r.decision \in seen /\ r.ended <= minute

IInv ==
    /\ TypeOK
    /\ AgeInv
    /\ KeptInv
    /\ PastInv
    /\ OneTradeAtATime
    /\ NoDecisionTwice
    /\ ResultsAreBounded

-----------------------------------------------------------------------------
LEMMA LifetimeType == Lifetime \in Nat
BY ScenarioAssumption DEF Lifetime

\* What closing does to the price: bounds on the gross result of each reason.
LEMMA CandleFacts ==
    ASSUME NEW c \in Candles
    PROVE  /\ c.open \in Nat /\ c.high \in Nat /\ c.low \in Nat /\ c.close \in Nat
           /\ c.low <= c.open /\ c.open <= c.high
           /\ c.low <= c.close /\ c.close <= c.high
BY CandleAssumption DEF Prices

LEMMA DecisionFacts ==
    ASSUME NEW d \in Decisions
    PROVE  /\ d.entry \in Nat /\ d.stop \in Nat /\ d.target \in Nat
           /\ d.direction \in {"LONG", "SHORT"}
           /\ d.direction = "LONG" => d.stop < d.entry /\ d.entry < d.target
           /\ d.direction = "SHORT" => d.target < d.entry /\ d.entry < d.stop
BY DecisionAssumption DEF Prices

LEMMA StopFillLoses ==
    ASSUME NEW d \in Decisions, NEW c \in Candles
    PROVE  /\ StopFill(d, c) \in Nat
           /\ Gross(d, StopFill(d, c)) <= -Risk(d)
BY DecisionFacts, CandleFacts DEF StopFill, Gross, Risk, Sign

LEMMA TargetEarns ==
    ASSUME NEW d \in Decisions
    PROVE  d.target \in Nat /\ Gross(d, d.target) = Reward(d)
BY DecisionFacts DEF Gross, Reward, Sign

LEMMA CloseStaysInside ==
    ASSUME NEW d \in Decisions, NEW c \in Candles, ~StopTouched(d, c)
    PROVE  /\ c.close \in Nat
           /\ Gross(d, c.close) > -Risk(d)
           /\ ~TargetTouched(d, c) => Gross(d, c.close) < Reward(d)
BY DecisionFacts, CandleFacts
   DEF StopTouched, TargetTouched, Gross, Risk, Reward, Sign

LEMMA CostsArePositive ==
    ASSUME NEW d \in Decisions, NEW p \in Nat
    PROVE  Net(d, p) <= Scale * Scale * Gross(d, p)
<1> DEFINE e == d.entry
           S == Scale
           s == Slippage
           g == Sign(d)
           a == ExecutedExit(d, p)
           b == ExecutedEntry(d)
<1>1. /\ e \in Nat /\ S \in Nat /\ s \in Nat /\ s <= S /\ Fee \in Nat
      /\ g \in {1, -1}
  BY ScenarioAssumption, DecisionFacts DEF Sign
<1>2. S + g * s \in Nat /\ S - g * s \in Nat
  BY <1>1
<1>3. a \in Nat /\ b \in Nat
  BY <1>1, <1>2 DEF ExecutedExit, ExecutedEntry
<1>4. Fee * a \in Nat /\ Fee * b \in Nat
  BY <1>1, <1>3
<1>5. g * (a - b) = S * (g * (p - e)) - s * (p + e)
  <2>1. CASE g = 1
    BY <2>1, <1>1 DEF ExecutedExit, ExecutedEntry
  <2>2. CASE g = -1
    BY <2>2, <1>1 DEF ExecutedExit, ExecutedEntry
  <2> QED BY <2>1, <2>2, <1>1
<1>6. s * (p + e) \in Nat
  BY <1>1
<1>7. S * (g * (a - b)) <= S * (S * (g * (p - e)))
  BY <1>1, <1>3, <1>5, <1>6
<1> QED
  BY <1>1, <1>3, <1>4, <1>7 DEF Net, Gross
-----------------------------------------------------------------------------
(* The steps of the loop, one lemma for each part of the invariant. *)

\* Every step keeps the types.
LEMMA TypeStep ==
    ASSUME IInv, [Next]_vars
    PROVE  TypeOK'
<1> USE LifetimeType, ScenarioAssumption DEF IInv, TypeOK, Minutes, ClosedReasons, Free, AgeInv
<1>1. CASE NextCandle
  BY <1>1 DEF NextCandle
<1>2. CASE ExpireEntry
  BY <1>2 DEF ExpireEntry, Expired
<1>3. CASE FillEntry
  BY <1>3 DEF FillEntry
<1>4. CASE AwaitEntry
  BY <1>4 DEF AwaitEntry
<1>5. CASE CloseAtStop
  BY <1>5, StopFillLoses DEF CloseAtStop, Close, Closed, Stops
<1>6. CASE CloseAtTarget
  BY <1>6, TargetEarns DEF CloseAtTarget, Close, Closed, Stops, Targets
<1>7. CASE CloseAtTimeout
  BY <1>7, CloseStaysInside DEF CloseAtTimeout, Close, Closed, Stops, Targets
<1>8. CASE KeepOpen
  BY <1>8 DEF KeepOpen, Stops, Targets, TimesOut, Duration
<1>9. ASSUME NEW d \in Decisions, AcceptDecision(d) PROVE TypeOK'
  BY <1>9 DEF AcceptDecision, ExpiresBefore
<1>10. ASSUME NEW d \in Decisions, DropDecision(d) PROVE TypeOK'
  BY <1>10 DEF DropDecision
<1>11. CASE DecideNothing
  BY <1>11 DEF DecideNothing
<1>12. CASE EndOfData
  BY <1>12, CloseStaysInside DEF EndOfData, Closed, Expired, KeptInv
<1>13. CASE UNCHANGED vars
  BY <1>13 DEF vars
<1> QED
  BY <1>1, <1>2, <1>3, <1>4, <1>5, <1>6, <1>7, <1>8, <1>9, <1>10, <1>11, <1>12, <1>13 DEF Next

\* Nothing waits or is held longer than it may.
LEMMA AgeStep ==
    ASSUME IInv, [Next]_vars
    PROVE  AgeInv'
<1> USE LifetimeType, ScenarioAssumption DEF IInv, TypeOK, Minutes, Free, AgeInv
<1>1. CASE NextCandle
  BY <1>1 DEF NextCandle
<1>2. CASE ExpireEntry
  BY <1>2 DEF ExpireEntry, Expired
<1>3. CASE FillEntry
  BY <1>3 DEF FillEntry
<1>4. CASE AwaitEntry
  BY <1>4 DEF AwaitEntry
<1>5. CASE CloseAtStop
  BY <1>5 DEF CloseAtStop, Close, Closed
<1>6. CASE CloseAtTarget
  BY <1>6 DEF CloseAtTarget, Close, Closed
<1>7. CASE CloseAtTimeout
  BY <1>7 DEF CloseAtTimeout, Close, Closed
<1>8. CASE KeepOpen
  BY <1>8 DEF KeepOpen, Stops, Targets, TimesOut, Duration
<1>9. ASSUME NEW d \in Decisions, AcceptDecision(d) PROVE AgeInv'
  BY <1>9 DEF AcceptDecision, ExpiresBefore
<1>10. ASSUME NEW d \in Decisions, DropDecision(d) PROVE AgeInv'
  BY <1>10 DEF DropDecision
<1>11. CASE DecideNothing
  BY <1>11 DEF DecideNothing
<1>12. CASE EndOfData
  BY <1>12 DEF EndOfData, Closed, Expired
<1>13. CASE UNCHANGED vars
  BY <1>13 DEF vars
<1> QED
  BY <1>1, <1>2, <1>3, <1>4, <1>5, <1>6, <1>7, <1>8, <1>9, <1>10, <1>11, <1>12, <1>13 DEF Next

\* A trade is kept only if neither level was met.
LEMMA KeptStep ==
    ASSUME IInv, [Next]_vars
    PROVE  KeptInv'
<1> USE LifetimeType, ScenarioAssumption DEF IInv, TypeOK, Minutes, Free, KeptInv
<1>1. CASE NextCandle
  BY <1>1 DEF NextCandle
<1>2. CASE ExpireEntry
  BY <1>2 DEF ExpireEntry, Expired
<1>3. CASE FillEntry
  BY <1>3 DEF FillEntry
<1>4. CASE AwaitEntry
  BY <1>4 DEF AwaitEntry
<1>5. CASE CloseAtStop
  BY <1>5 DEF CloseAtStop, Close, Closed
<1>6. CASE CloseAtTarget
  BY <1>6 DEF CloseAtTarget, Close, Closed
<1>7. CASE CloseAtTimeout
  BY <1>7 DEF CloseAtTimeout, Close, Closed
<1>8. CASE KeepOpen
  BY <1>8 DEF KeepOpen, Stops, Targets, TimesOut, Duration
<1>9. ASSUME NEW d \in Decisions, AcceptDecision(d) PROVE KeptInv'
  BY <1>9 DEF AcceptDecision, ExpiresBefore
<1>10. ASSUME NEW d \in Decisions, DropDecision(d) PROVE KeptInv'
  BY <1>10 DEF DropDecision
<1>11. CASE DecideNothing
  BY <1>11 DEF DecideNothing
<1>12. CASE EndOfData
  BY <1>12 DEF EndOfData, Closed, Expired
<1>13. CASE UNCHANGED vars
  BY <1>13 DEF vars
<1> QED
  BY <1>1, <1>2, <1>3, <1>4, <1>5, <1>6, <1>7, <1>8, <1>9, <1>10, <1>11, <1>12, <1>13 DEF Next

\* Decisions stay seen and trades ended.
LEMMA PastStep ==
    ASSUME IInv, [Next]_vars
    PROVE  PastInv'
<1> USE LifetimeType, ScenarioAssumption DEF IInv, TypeOK, Minutes, Free, PastInv
<1>1. CASE NextCandle
  BY <1>1 DEF NextCandle
<1>2. CASE ExpireEntry
  BY <1>2 DEF ExpireEntry, Expired
<1>3. CASE FillEntry
  BY <1>3 DEF FillEntry
<1>4. CASE AwaitEntry
  BY <1>4 DEF AwaitEntry
<1>5. CASE CloseAtStop
  BY <1>5 DEF CloseAtStop, Close, Closed
<1>6. CASE CloseAtTarget
  BY <1>6 DEF CloseAtTarget, Close, Closed
<1>7. CASE CloseAtTimeout
  BY <1>7 DEF CloseAtTimeout, Close, Closed
<1>8. CASE KeepOpen
  BY <1>8 DEF KeepOpen
<1>9. ASSUME NEW d \in Decisions, AcceptDecision(d) PROVE PastInv'
  BY <1>9 DEF AcceptDecision, ExpiresBefore
<1>10. ASSUME NEW d \in Decisions, DropDecision(d) PROVE PastInv'
  BY <1>10 DEF DropDecision
<1>11. CASE DecideNothing
  BY <1>11 DEF DecideNothing
<1>12. CASE EndOfData
  BY <1>12 DEF EndOfData, Closed, Expired
<1>13. CASE UNCHANGED vars
  BY <1>13 DEF vars
<1> QED
  BY <1>1, <1>2, <1>3, <1>4, <1>5, <1>6, <1>7, <1>8, <1>9, <1>10, <1>11, <1>12, <1>13 DEF Next

\* A trade joins the finished ones after all of them.
LEMMA SlotStep ==
    ASSUME IInv, [Next]_vars
    PROVE  OneTradeAtATime'
<1> USE LifetimeType, ScenarioAssumption DEF IInv, TypeOK, Minutes, Free, PastInv, AgeInv, OneTradeAtATime
<1>1. CASE NextCandle
  BY <1>1 DEF NextCandle
<1>2. CASE ExpireEntry
  BY <1>2 DEF ExpireEntry, Expired
<1>3. CASE FillEntry
  BY <1>3 DEF FillEntry
<1>4. CASE AwaitEntry
  BY <1>4 DEF AwaitEntry
<1>5. CASE CloseAtStop
  BY <1>5 DEF CloseAtStop, Close, Closed
<1>6. CASE CloseAtTarget
  BY <1>6 DEF CloseAtTarget, Close, Closed
<1>7. CASE CloseAtTimeout
  BY <1>7 DEF CloseAtTimeout, Close, Closed
<1>8. CASE KeepOpen
  BY <1>8 DEF KeepOpen
<1>9. ASSUME NEW d \in Decisions, AcceptDecision(d) PROVE OneTradeAtATime'
  BY <1>9 DEF AcceptDecision, ExpiresBefore
<1>10. ASSUME NEW d \in Decisions, DropDecision(d) PROVE OneTradeAtATime'
  BY <1>10 DEF DropDecision
<1>11. CASE DecideNothing
  BY <1>11 DEF DecideNothing
<1>12. CASE EndOfData
  BY <1>12 DEF EndOfData, Closed, Expired
<1>13. CASE UNCHANGED vars
  BY <1>13 DEF vars
<1> QED
  BY <1>1, <1>2, <1>3, <1>4, <1>5, <1>6, <1>7, <1>8, <1>9, <1>10, <1>11, <1>12, <1>13 DEF Next

\* A decision enters the slot only when it is new.
LEMMA OnceStep ==
    ASSUME IInv, [Next]_vars
    PROVE  NoDecisionTwice'
<1> USE LifetimeType, ScenarioAssumption DEF IInv, TypeOK, Minutes, Free, PastInv, OneTradeAtATime, NoDecisionTwice
<1>1. CASE NextCandle
  BY <1>1 DEF NextCandle
<1>2. CASE ExpireEntry
  BY <1>2 DEF ExpireEntry, Expired
<1>3. CASE FillEntry
  BY <1>3 DEF FillEntry
<1>4. CASE AwaitEntry
  BY <1>4 DEF AwaitEntry
<1>5. CASE CloseAtStop
  BY <1>5 DEF CloseAtStop, Close, Closed
<1>6. CASE CloseAtTarget
  BY <1>6 DEF CloseAtTarget, Close, Closed
<1>7. CASE CloseAtTimeout
  BY <1>7 DEF CloseAtTimeout, Close, Closed
<1>8. CASE KeepOpen
  BY <1>8 DEF KeepOpen
<1>9. ASSUME NEW d \in Decisions, AcceptDecision(d) PROVE NoDecisionTwice'
  BY <1>9 DEF AcceptDecision, ExpiresBefore, IsNew
<1>10. ASSUME NEW d \in Decisions, DropDecision(d) PROVE NoDecisionTwice'
  BY <1>10 DEF DropDecision
<1>11. CASE DecideNothing
  BY <1>11 DEF DecideNothing
<1>12. CASE EndOfData
  BY <1>12 DEF EndOfData, Closed, Expired
<1>13. CASE UNCHANGED vars
  BY <1>13 DEF vars
<1> QED
  BY <1>1, <1>2, <1>3, <1>4, <1>5, <1>6, <1>7, <1>8, <1>9, <1>10, <1>11, <1>12, <1>13 DEF Next

\* A trade ends with a result inside its bounds.
LEMMA ResultStep ==
    ASSUME IInv, [Next]_vars
    PROVE  ResultsAreBounded'
<1> USE LifetimeType, ScenarioAssumption DEF IInv, TypeOK, Minutes, ClosedReasons, Free, AgeInv, ResultsAreBounded
<1>1. CASE NextCandle
  BY <1>1 DEF NextCandle
<1>2. CASE ExpireEntry
  BY <1>2 DEF ExpireEntry, Expired
<1>3. CASE FillEntry
  BY <1>3 DEF FillEntry
<1>4. CASE AwaitEntry
  BY <1>4 DEF AwaitEntry
<1>5. CASE CloseAtStop
  BY <1>5, StopFillLoses DEF CloseAtStop, Close, Closed, Stops
<1>6. CASE CloseAtTarget
  BY <1>6, TargetEarns DEF CloseAtTarget, Close, Closed, Stops, Targets
<1>7. CASE CloseAtTimeout
  BY <1>7, CloseStaysInside DEF CloseAtTimeout, Close, Closed, Stops, Targets
<1>8. CASE KeepOpen
  BY <1>8 DEF KeepOpen, Stops, Targets, TimesOut, Duration
<1>9. ASSUME NEW d \in Decisions, AcceptDecision(d) PROVE ResultsAreBounded'
  BY <1>9 DEF AcceptDecision, ExpiresBefore
<1>10. ASSUME NEW d \in Decisions, DropDecision(d) PROVE ResultsAreBounded'
  BY <1>10 DEF DropDecision
<1>11. CASE DecideNothing
  BY <1>11 DEF DecideNothing
<1>12. CASE EndOfData
  BY <1>12, CloseStaysInside DEF EndOfData, Closed, Expired, KeptInv
<1>13. CASE UNCHANGED vars
  BY <1>13 DEF vars
<1> QED
  BY <1>1, <1>2, <1>3, <1>4, <1>5, <1>6, <1>7, <1>8, <1>9, <1>10, <1>11, <1>12, <1>13 DEF Next

-----------------------------------------------------------------------------
LEMMA InitInv == Init => IInv
BY LifetimeType
   DEF Init, IInv, TypeOK, Minutes, Free, AgeInv, KeptInv, PastInv,
       OneTradeAtATime, NoDecisionTwice, ResultsAreBounded

LEMMA StepInv == IInv /\ [Next]_vars => IInv'
BY TypeStep, AgeStep, KeptStep, PastStep, SlotStep, OnceStep, ResultStep DEF IInv

\* The invariant holds in every state of the loop, whatever candles and
\* decisions come.
THEOREM Invariance == Spec => []IInv
<1>1. Init => IInv
  BY InitInv
<1>2. IInv /\ [Next]_vars => IInv'
  BY StepInv
<1> QED BY <1>1, <1>2, PTL DEF Spec

\* Records and slots have the shape the reports rely on.
THEOREM TypeCorrect == Spec => []TypeOK
<1>1. IInv => TypeOK
  BY DEF IInv
<1> QED BY Invariance, <1>1, PTL

\* README: one pending or open trade per instrument, at any time and over time.
THEOREM Exclusion == Spec => []OneTradeAtATime
<1>1. IInv => OneTradeAtATime
  BY DEF IInv
<1> QED BY Invariance, <1>1, PTL

\* A decision that is repeated is not traded again.
THEOREM DecisionsTradeOnce == Spec => []NoDecisionTwice
<1>1. IInv => NoDecisionTwice
  BY DEF IInv
<1> QED BY Invariance, <1>1, PTL

\* No look-ahead, no late fill, no holding beyond the maximum, and results between
\* stop and target as the conservative rules say.
THEOREM ResultsBounded == Spec => []ResultsAreBounded
<1>1. IInv => ResultsAreBounded
  BY DEF IInv
<1> QED BY Invariance, <1>1, PTL

\* Fees and slippage never improve a result.
THEOREM CostsOnlyTake == Spec => []CostsNeverPay
<1>1. IInv => CostsNeverPay
  BY CostsArePositive DEF IInv, TypeOK, CostsNeverPay, ClosedReasons
<1> QED BY Invariance, <1>1, PTL

-----------------------------------------------------------------------------
(* The loop computes what a trade is.                                       *)

EndsAt(d, first, i) ==
    \/ StopTouched(d, path[i])
    \/ i > first /\ TargetTouched(d, path[i])
    \/ i - first + 1 = MaxHolding

\* No candle that was looked at has met the entry.
WaitInv ==
    pending # None =>
        LET looked == IF stage = "entry" THEN Len(path) - 1 ELSE Len(path)
        IN  /\ minute = pending.signal + Len(path)
            /\ looked <= Lifetime
            /\ \A i \in 1 .. looked : ~TouchesEntry(pending.decision, path[i])

\* The entry was the first touch, and no candle looked at since has ended the trade.
HoldInv ==
    opened # None =>
        LET looked == IF stage \in {"entry", "exit"} THEN Len(path) - 1 ELSE Len(path)
            first == opened.entry - opened.signal
        IN  /\ minute = opened.signal + Len(path)
            /\ TouchesEntry(opened.decision, path[first])
            /\ \A i \in 1 .. first - 1 : ~TouchesEntry(opened.decision, path[i])
            /\ \A i \in first .. looked : ~EndsAt(opened.decision, first, i)

\* r is the trade of the whole path.
Settles(r) ==
    /\ r.ended = minute
    /\ r.signal = minute - Len(path)
    /\ IF r.reason = "ENTRY_EXPIRED"
       THEN Fills(r.decision) = {} /\ Len(path) = Lifetime + 1
       ELSE IsClosed(r.decision, r.entry - r.signal, r.reason)

SettledInv ==
    /\ Free /\ stage = "entry" => path = <<>>
    /\ Free /\ stage \in {"exit", "decide"} /\ path # <<>> => \E r \in trades : Settles(r)

\* The path ends with the candle in hand.
CandleInv ==
    /\ path \in Seq(Candles)
    /\ stage \in {"entry", "exit", "decide"} /\ path # <<>> => path[Len(path)] = candle

PathInv == CandleInv /\ WaitInv /\ HoldInv /\ SettledInv

LEMMA MinIs ==
    ASSUME NEW S \in SUBSET Int, NEW x \in S, \A t \in S : x <= t
    PROVE  Min(S) = x
<1>1. \A y \in S : (\A t \in S : y <= t) => y = x
  <2>1. SUFFICES ASSUME NEW y \in S, \A t \in S : y <= t PROVE y = x
    OBVIOUS
  <2>2. y <= x /\ x <= y /\ x \in Int /\ y \in Int
    BY <2>1
  <2>3. QED BY <2>2
<1>2. QED BY <1>1 DEF Min

\* A trade that ends with the candle in hand has run as it is defined.
LEMMA ClosingSettles ==
    ASSUME IInv, PathInv, stage = "exit", opened # None,
           EndsAt(opened.decision, opened.entry - opened.signal, Len(path))
    PROVE  LET first == opened.entry - opened.signal
           IN  /\ Len(path) \in Nat /\ first \in 1 .. Len(path)
               /\ minute = opened.signal + Len(path)
               /\ path # <<>> /\ path[Len(path)] = candle
               /\ IsClosed(opened.decision, first, ReasonAt(opened.decision, first, Len(path)))
<1> DEFINE d == opened.decision
           first == opened.entry - opened.signal
           l == Len(path)
<1>1. /\ opened.entry \in Nat /\ opened.signal \in Nat /\ minute \in Nat \cup {-1}
      /\ opened.signal < opened.entry /\ opened.entry <= opened.signal + Lifetime
      /\ opened.entry <= minute
      /\ Lifetime \in Nat /\ MaxHolding \in Nat
  BY LifetimeType, ScenarioAssumption DEF IInv, TypeOK, AgeInv, Minutes
<1>2. l \in Nat
  BY DEF PathInv, CandleInv
<1>3. /\ minute = opened.signal + l
      /\ TouchesEntry(d, path[first])
      /\ \A i \in 1 .. first - 1 : ~TouchesEntry(d, path[i])
      /\ \A i \in first .. l - 1 : ~EndsAt(d, first, i)
  BY DEF PathInv, HoldInv
<1>4. first \in 1 .. l /\ first <= Lifetime
  BY <1>1, <1>2, <1>3
<1>5. path # <<>> /\ path[l] = candle
  BY <1>4 DEF PathInv, CandleInv
<1> HIDE DEF d, first, l
<1>6. Fills(d) \in SUBSET Int /\ first \in Fills(d) /\ \A i \in Fills(d) : first <= i
  <2>1. Fills(d) = {i \in 1 .. l : i <= Lifetime /\ TouchesEntry(d, path[i])}
    BY DEF Fills, l
  <2>2. \A i \in 1 .. l : i < first => i \in 1 .. first - 1
    BY <1>2, <1>4
  <2>3. QED BY <1>2, <1>3, <1>4, <2>1, <2>2
<1>7. Ends(d, first) = {i \in first .. l : EndsAt(d, first, i)}
  BY DEF Ends, EndsAt, l
<1>8. l \in Ends(d, first) /\ Ends(d, first) \in SUBSET Int
      /\ \A i \in Ends(d, first) : l <= i
  <2>1. l \in first .. l
    BY <1>2, <1>4
  <2>2. EndsAt(d, first, l)
    BY DEF d, first, l
  <2>3. \A i \in first .. l : i < l => i \in first .. l - 1
    BY <1>2, <1>4
  <2>4. QED BY <1>2, <1>3, <1>4, <1>7, <2>1, <2>2, <2>3
<1>9. Min(Fills(d)) = first /\ Min(Ends(d, first)) = l
  BY <1>6, <1>8, MinIs
<1>10. IsClosed(d, first, ReasonAt(d, first, l))
  BY <1>6, <1>8, <1>9 DEF IsClosed, l
<1>11. QED BY <1>2, <1>3, <1>4, <1>5, <1>10 DEF d, first, l

\* A trade that is closed with the candle in hand settles the path.
LEMMA CloseSettles ==
    ASSUME IInv, PathInv, stage = "exit", opened # None, NEW price, NEW reason,
           EndsAt(opened.decision, opened.entry - opened.signal, Len(path)),
           reason = ReasonAt(opened.decision, opened.entry - opened.signal, Len(path)),
           reason # "ENTRY_EXPIRED",
           Close(price, reason)
    PROVE  PathInv'
<1>1. PICK r : r = Closed(opened, price, reason)
  OBVIOUS
<1>2. /\ Len(path) \in Nat
      /\ minute = opened.signal + Len(path)
      /\ path # <<>> /\ path[Len(path)] = candle
      /\ IsClosed(opened.decision, opened.entry - opened.signal, reason)
  BY ClosingSettles
<1>3. /\ UNCHANGED <<minute, path, candle, pending>>
      /\ opened' = None /\ stage' = "decide" /\ r \in trades'
  BY <1>1 DEF Close
<1>4. pending = None
  BY DEF IInv, OneTradeAtATime
<1>5. /\ r.ended = minute /\ r.signal = opened.signal /\ r.reason = reason
      /\ r.decision = opened.decision /\ r.entry = opened.entry
  BY <1>1 DEF Closed
<1>6. IsClosed(r.decision, r.entry - r.signal, r.reason)
  BY <1>2, <1>5
<1>7. r.signal = minute - Len(path)
  <2>1. opened.signal \in Nat
    BY DEF IInv, TypeOK, Minutes
  <2>2. QED BY <1>2, <1>5, <2>1
<1>8. Settles(r)
  BY <1>5, <1>6, <1>7 DEF Settles
<1>9. Settles(r)'
  BY <1>3, <1>8 DEF Settles, Fills, IsClosed, Ends, ReasonAt
<1>10. CandleInv'
  BY <1>2, <1>3 DEF PathInv, CandleInv
<1>11. WaitInv' /\ HoldInv'
  BY <1>3, <1>4 DEF WaitInv, HoldInv
<1>12. SettledInv'
  BY <1>3, <1>9 DEF SettledInv
<1>13. QED BY <1>10, <1>11, <1>12 DEF PathInv

LEMMA PathStep ==
    ASSUME IInv, PathInv, [Next]_vars
    PROVE  PathInv'
<1>1. CandleInv /\ WaitInv /\ HoldInv /\ SettledInv
  BY DEF PathInv
<1>2. path \in Seq(Candles) /\ Len(path) \in Nat
  BY <1>1 DEF CandleInv
<1>3. Lifetime \in Nat /\ MaxHolding \in Nat
  BY LifetimeType, ScenarioAssumption
<1>4. pending # None =>
        /\ pending.signal \in Nat /\ pending.expires = pending.signal + 1 + Lifetime
        /\ stage \in {"entry", "exit", "decide"} => pending.signal < minute
        /\ minute \in Nat
  BY <1>3 DEF IInv, TypeOK, AgeInv, Minutes, Free
<1>5. opened # None =>
        /\ opened.signal \in Nat /\ opened.entry \in Nat /\ minute \in Nat
        /\ opened.signal < opened.entry /\ opened.entry <= opened.signal + Lifetime
        /\ opened.entry <= minute /\ minute < opened.entry + MaxHolding
  BY <1>3 DEF IInv, TypeOK, AgeInv, Minutes, Free
<1>6. pending = None \/ opened = None
  BY DEF IInv, OneTradeAtATime
<1>7. CASE NextCandle
  <2>1. PICK c \in Candles :
          candle' = c /\ path' = IF Free THEN <<>> ELSE Append(path, c)
    BY <1>7 DEF NextCandle
  <2>2. /\ stage = "candle" /\ stage' = "entry" /\ minute' = minute + 1
        /\ UNCHANGED <<pending, opened, seen, trades>>
    BY <1>7 DEF NextCandle
  <2>3. CASE Free
    <3>1. path' = <<>> /\ pending' = None /\ opened' = None
      BY <2>1, <2>2, <2>3 DEF Free
    <3>2. QED BY <2>2, <3>1 DEF PathInv, CandleInv, WaitInv, HoldInv, SettledInv
  <2>4. CASE ~Free
    <3>1. /\ path' \in Seq(Candles) /\ Len(path') = Len(path) + 1
          /\ path'[Len(path')] = c
          /\ \A i \in 1 .. Len(path) : path'[i] = path[i]
      BY <1>2, <2>1, <2>4
    <3>2. CandleInv'
      BY <2>1, <3>1 DEF CandleInv
    <3>3. WaitInv'
      <4>1. SUFFICES ASSUME pending # None PROVE WaitInv'
        BY <2>2 DEF WaitInv
      <4>2. /\ minute = pending.signal + Len(path) /\ Len(path) <= Lifetime
            /\ \A i \in 1 .. Len(path) : ~TouchesEntry(pending.decision, path[i])
        BY <1>1, <2>2, <4>1 DEF WaitInv
      <4>3. minute' = pending.signal + Len(path') /\ Len(path') - 1 = Len(path)
        BY <1>2, <1>4, <2>2, <3>1, <4>1, <4>2
      <4>4. QED BY <2>2, <3>1, <4>2, <4>3 DEF WaitInv
    <3>4. HoldInv'
      <4>1. SUFFICES ASSUME opened # None PROVE HoldInv'
        BY <2>2 DEF HoldInv
      <4> DEFINE first == opened.entry - opened.signal
                 d == opened.decision
      <4>2. /\ minute = opened.signal + Len(path)
            /\ TouchesEntry(d, path[first])
            /\ \A i \in 1 .. first - 1 : ~TouchesEntry(d, path[i])
            /\ \A i \in first .. Len(path) : ~EndsAt(d, first, i)
        BY <1>1, <2>2, <4>1 DEF HoldInv
      <4>3. first \in 1 .. Len(path)
        BY <1>2, <1>5, <4>1, <4>2
      <4>4. minute' = opened.signal + Len(path') /\ Len(path') - 1 = Len(path)
        <5> HIDE DEF first, d
        <5>1. opened.signal \in Nat /\ minute \in Nat
          BY <1>5, <4>1
        <5>2. minute = opened.signal + Len(path)
          BY <4>2
        <5>3. Len(path') = Len(path) + 1
          BY <3>1
        <5>4. minute' = minute + 1
          BY <2>2
        <5>5. Len(path) \in Nat
          BY <1>2
        <5>6. QED BY <5>1, <5>2, <5>3, <5>4, <5>5
      <4> HIDE DEF first, d
      <4>5. TouchesEntry(d, path'[first])
        BY <3>1, <4>2, <4>3
      <4>6. \A i \in 1 .. first - 1 : ~TouchesEntry(d, path'[i])
        <5>1. \A i \in 1 .. first - 1 : i \in 1 .. Len(path)
          BY <1>2, <4>3
        <5>2. QED BY <3>1, <4>2, <5>1
      <4>7. ASSUME NEW i \in first .. Len(path)
            PROVE  ~(\/ StopTouched(d, path'[i])
                     \/ i > first /\ TargetTouched(d, path'[i])
                     \/ i - first + 1 = MaxHolding)
        <5>1. i \in 1 .. Len(path)
          BY <1>2, <4>3
        <5>2. path'[i] = path[i]
          BY <3>1, <5>1
        <5>3. QED BY <4>2, <4>7, <5>2 DEF EndsAt
      <4>8. QED BY <2>2, <4>4, <4>5, <4>6, <4>7 DEF HoldInv, EndsAt, first, d
    <3>5. SettledInv'
      BY <2>2, <2>4 DEF SettledInv, Free
    <3>6. QED BY <3>2, <3>3, <3>4, <3>5 DEF PathInv
  <2>5. QED BY <2>3, <2>4
<1>8. CASE ExpireEntry
  <2>1. /\ stage = "entry" /\ pending # None /\ minute >= pending.expires
        /\ trades' = trades \cup {Expired(pending)}
        /\ pending' = None /\ stage' = "exit"
        /\ UNCHANGED <<minute, candle, opened, seen, path>>
    BY <1>8 DEF ExpireEntry
  <2>2. opened' = None
    BY <1>6, <2>1
  <2>3. PICK r : r = Expired(pending)
    OBVIOUS
  <2>4. /\ minute = pending.signal + Len(path) /\ Len(path) - 1 <= Lifetime
        /\ \A i \in 1 .. Len(path) - 1 : ~TouchesEntry(pending.decision, path[i])
    BY <1>1, <2>1 DEF WaitInv
  <2>5. Len(path) = Lifetime + 1
    BY <1>2, <1>3, <1>4, <2>1, <2>4
  <2>6. Fills(pending.decision) = {}
    <3>1. \A i \in 1 .. Len(path) : i <= Lifetime => i \in 1 .. Len(path) - 1
      BY <1>2, <1>3, <2>5
    <3>2. QED BY <2>4, <3>1 DEF Fills
  <2>7. /\ r.ended = minute /\ r.signal = minute - Len(path)
        /\ r.reason = "ENTRY_EXPIRED" /\ r.decision = pending.decision
    <3>1. r.signal = pending.signal
      BY <2>3 DEF Expired
    <3>2. pending.signal = minute - Len(path)
      BY <1>2, <1>4, <2>1, <2>4
    <3>3. QED BY <2>3, <3>1, <3>2 DEF Expired
  <2>8. Settles(r)'
    BY <2>1, <2>5, <2>6, <2>7 DEF Settles, Fills
  <2>9. CandleInv'
    BY <1>1, <2>1 DEF CandleInv
  <2>10. QED BY <2>1, <2>2, <2>3, <2>8, <2>9
             DEF PathInv, WaitInv, HoldInv, SettledInv
<1>9. CASE FillEntry
  <2>1. /\ stage = "entry" /\ pending # None /\ minute < pending.expires
        /\ TouchesEntry(pending.decision, candle)
        /\ opened' = [decision |-> pending.decision, signal |-> pending.signal,
                      entry |-> minute]
        /\ pending' = None /\ stage' = "exit"
        /\ UNCHANGED <<minute, candle, seen, trades, path>>
    BY <1>9 DEF FillEntry
  <2>2. /\ minute = pending.signal + Len(path)
        /\ \A i \in 1 .. Len(path) - 1 : ~TouchesEntry(pending.decision, path[i])
    BY <1>1, <2>1 DEF WaitInv
  <2>3. minute - pending.signal = Len(path) /\ path # <<>>
    <3>1. minute - pending.signal = Len(path) /\ Len(path) # 0
      BY <1>2, <1>4, <2>1, <2>2
    <3>2. QED BY <3>1
  <2>4. path[Len(path)] = candle
    BY <1>1, <2>1, <2>3 DEF CandleInv
  <2>5. CandleInv'
    BY <1>1, <2>1 DEF CandleInv
  <2>6. HoldInv'
    <3>1. /\ opened'.entry - opened'.signal = Len(path) /\ opened'.decision = pending.decision
          /\ opened'.signal = pending.signal
      BY <2>1, <2>3
    <3>2. \A i \in Len(path) .. Len(path) - 1 : FALSE
      BY <1>2
    <3>3. QED BY <2>1, <2>2, <2>4, <3>1, <3>2 DEF HoldInv
  <2>7. ~Free'
    <3>1. SUFFICES opened' # None
      BY DEF Free
    <3>2. pending.decision \in Decisions /\ pending.signal \in Nat /\ minute \in Nat
      BY <1>4, <2>1 DEF IInv, TypeOK
    <3>3. opened' \in [decision : Decisions, signal : Nat, entry : Nat]
      BY <2>1, <3>2
    <3>4. QED BY <3>3, NoneAssumption
  <2>8. QED BY <2>1, <2>5, <2>6, <2>7 DEF PathInv, WaitInv, SettledInv
<1>10. CASE AwaitEntry
  <2>1. /\ stage = "entry" /\ stage' = "exit"
        /\ pending # None => minute < pending.expires /\ ~TouchesEntry(pending.decision, candle)
        /\ UNCHANGED <<minute, candle, pending, opened, seen, trades, path>>
    BY <1>10 DEF AwaitEntry
  <2>2. CandleInv' /\ HoldInv'
    BY <1>1, <2>1 DEF CandleInv, HoldInv, EndsAt
  <2>3. WaitInv'
    <3>1. SUFFICES ASSUME pending # None PROVE WaitInv'
      BY <2>1 DEF WaitInv
    <3>2. /\ minute = pending.signal + Len(path)
          /\ \A i \in 1 .. Len(path) - 1 : ~TouchesEntry(pending.decision, path[i])
      BY <1>1, <2>1, <3>1 DEF WaitInv
    <3>3. Len(path) <= Lifetime /\ Len(path) # 0
      BY <1>2, <1>3, <1>4, <2>1, <3>1, <3>2
    <3>4. path[Len(path)] = candle
      <4>1. path # <<>>
        BY <3>3
      <4>2. QED BY <1>1, <2>1, <4>1 DEF CandleInv
    <3>5. \A i \in 1 .. Len(path) : i \in 1 .. Len(path) - 1 \/ i = Len(path)
      BY <1>2
    <3>6. \A i \in 1 .. Len(path) : ~TouchesEntry(pending.decision, path[i])
      BY <2>1, <3>1, <3>2, <3>4, <3>5
    <3>7. QED BY <2>1, <3>2, <3>3, <3>6 DEF WaitInv
  <2>4. SettledInv'
    BY <1>1, <2>1 DEF SettledInv, Free
  <2>5. QED BY <2>2, <2>3, <2>4 DEF PathInv
<1> DEFINE first == opened.entry - opened.signal
           d == opened.decision
           l == Len(path)
<1>11. ASSUME stage = "exit", opened # None
       PROVE  /\ l \in Nat /\ first \in 1 .. l /\ minute = opened.signal + l
              /\ path[l] = candle
              /\ Stops <=> StopTouched(d, path[l])
              /\ Targets <=> l > first /\ TargetTouched(d, path[l])
              /\ TimesOut <=> l - first + 1 = MaxHolding
  <2>1. minute = opened.signal + l
    BY <1>1, <1>11 DEF HoldInv
  <2>2. first \in 1 .. l
    BY <1>2, <1>5, <1>11, <2>1
  <2>3. path[l] = candle
    <3>1. path # <<>>
      BY <1>2, <2>2
    <3>2. QED BY <1>1, <1>11, <3>1 DEF CandleInv
  <2>4. /\ minute > opened.entry <=> l > first
        /\ minute - opened.entry + 1 >= MaxHolding <=> l - first + 1 = MaxHolding
    BY <1>2, <1>3, <1>5, <1>11, <2>1
  <2>5. QED BY <1>2, <2>1, <2>2, <2>3, <2>4 DEF Stops, Targets, TimesOut, Duration
<1>12. CASE CloseAtStop
  <2>1. /\ stage = "exit" /\ opened # None /\ Stops
        /\ Close(StopFill(opened.decision, candle), "STOP")
    BY <1>12 DEF CloseAtStop
  <2>2. StopTouched(d, path[l])
    BY <1>11, <2>1
  <2>3. EndsAt(d, first, l) /\ ReasonAt(d, first, l) = "STOP"
    BY <2>2 DEF EndsAt, ReasonAt
  <2>4. QED BY <2>1, <2>3, CloseSettles
<1>13. CASE CloseAtTarget
  <2>1. /\ stage = "exit" /\ opened # None /\ ~Stops /\ Targets
        /\ Close(opened.decision.target, "TARGET")
    BY <1>13 DEF CloseAtTarget
  <2>2. ~StopTouched(d, path[l]) /\ l > first /\ TargetTouched(d, path[l])
    BY <1>11, <2>1
  <2>3. EndsAt(d, first, l) /\ ReasonAt(d, first, l) = "TARGET"
    BY <2>2 DEF EndsAt, ReasonAt
  <2>4. QED BY <2>1, <2>3, CloseSettles
<1>14. CASE CloseAtTimeout
  <2>1. /\ stage = "exit" /\ opened # None /\ ~Stops /\ ~Targets /\ TimesOut
        /\ Close(candle.close, "TIMEOUT")
    BY <1>14 DEF CloseAtTimeout
  <2>2. /\ ~StopTouched(d, path[l]) /\ ~(l > first /\ TargetTouched(d, path[l]))
        /\ l - first + 1 = MaxHolding
    BY <1>11, <2>1
  <2>3. EndsAt(d, first, l) /\ ReasonAt(d, first, l) = "TIMEOUT"
    BY <2>2 DEF EndsAt, ReasonAt
  <2>4. QED BY <2>1, <2>3, CloseSettles
<1>15. CASE KeepOpen
  <2>1. /\ stage = "exit" /\ stage' = "decide"
        /\ opened # None => ~Stops /\ ~Targets /\ ~TimesOut
        /\ UNCHANGED <<minute, candle, pending, opened, seen, trades, path>>
    BY <1>15 DEF KeepOpen
  <2>2. CandleInv' /\ WaitInv'
    BY <1>1, <2>1 DEF CandleInv, WaitInv
  <2>3. HoldInv'
    <3>1. SUFFICES ASSUME opened # None PROVE HoldInv'
      BY <2>1 DEF HoldInv
    <3>2. /\ minute = opened.signal + l
          /\ TouchesEntry(d, path[first])
          /\ \A i \in 1 .. first - 1 : ~TouchesEntry(d, path[i])
          /\ \A i \in first .. l - 1 : ~EndsAt(d, first, i)
      BY <1>1, <2>1, <3>1 DEF HoldInv
    <3>3. ~EndsAt(d, first, l)
      BY <1>11, <2>1, <3>1 DEF EndsAt
    <3>4. first \in 1 .. l
      BY <1>11, <2>1, <3>1
    <3>5. \A i \in first .. l : i \in first .. l - 1 \/ i = l
      BY <1>2, <3>4
    <3>6. \A i \in first .. l : ~EndsAt(d, first, i)
      BY <3>2, <3>3, <3>5
    <3>7. QED BY <2>1, <3>2, <3>6 DEF HoldInv, EndsAt
  <2>4. SettledInv'
    BY <1>1, <2>1 DEF SettledInv, Free, Settles, Fills, IsClosed, Ends, ReasonAt
  <2>5. QED BY <2>2, <2>3, <2>4 DEF PathInv
<1>16. ASSUME NEW e \in Decisions, AcceptDecision(e) PROVE PathInv'
  <2>1. /\ stage = "decide" /\ stage' = "candle" /\ Free
        /\ pending' = [decision |-> e, signal |-> minute, expires |-> ExpiresBefore(minute)]
        /\ path' = <<>> /\ UNCHANGED <<minute, opened>>
    BY <1>16 DEF AcceptDecision
  <2>2. minute \in Nat
    BY <2>1 DEF IInv, TypeOK, Minutes
  <2>3. /\ path' \in Seq(Candles) /\ Len(path') = 0 /\ pending'.signal = minute
        /\ opened' = None
    BY <2>1 DEF Free
  <2>4. WaitInv'
    BY <1>3, <2>1, <2>2, <2>3 DEF WaitInv
  <2>5. QED BY <2>1, <2>3, <2>4 DEF PathInv, CandleInv, HoldInv, SettledInv
<1>17. CASE stage = "decide" /\ stage' = "candle"
            /\ UNCHANGED <<minute, pending, opened, path>>
  BY <1>1, <1>17 DEF PathInv, CandleInv, WaitInv, HoldInv, SettledInv, EndsAt
<1>18. CASE EndOfData
  BY <1>1, <1>18 DEF EndOfData, PathInv, CandleInv, WaitInv, HoldInv, SettledInv
<1>19. CASE UNCHANGED vars
  <2>1. CandleInv' /\ WaitInv' /\ HoldInv'
    BY <1>1, <1>19 DEF vars, CandleInv, WaitInv, HoldInv, EndsAt
  <2>2. SettledInv'
    BY <1>1, <1>19 DEF vars, SettledInv, Free, Settles, Fills, IsClosed, Ends, ReasonAt
  <2>3. QED BY <2>1, <2>2 DEF PathInv
<1>20. QED
  BY <1>7, <1>8, <1>9, <1>10, <1>12, <1>13, <1>14, <1>15, <1>16, <1>17, <1>18, <1>19
     DEF Next, DropDecision, DecideNothing

\* Entered at the first touch within its lifetime and ended at the first stop, target
\* or time-out after that, a trade is what its candles make of it: no later candle
\* plays a part and none before is passed over.
THEOREM TradesAreDefined == Spec => []TradesMatchDefinition
<1>1. Init => PathInv
  BY DEF Init, Free, PathInv, CandleInv, WaitInv, HoldInv, SettledInv
<1>2. IInv /\ PathInv /\ [Next]_vars => PathInv'
  BY PathStep
<1>3. ASSUME IInv, PathInv PROVE TradesMatchDefinition
  <2>1. SUFFICES ASSUME stage = "decide", path # <<>> \/ ~Free
        PROVE  /\ pending # None => IsWaiting(pending.decision)
               /\ opened # None => IsOpen(opened.decision, opened.entry - opened.signal)
               /\ Free => \E r \in trades : Settles(r)
    BY DEF TradesMatchDefinition, Settles
  <2>2. path \in Seq(Candles) /\ Len(path) \in Nat /\ Lifetime \in Nat
    BY <1>3, LifetimeType DEF PathInv, CandleInv
  <2>3. ASSUME pending # None PROVE IsWaiting(pending.decision)
    BY <1>3, <2>1, <2>3 DEF PathInv, WaitInv, IsWaiting, Fills
  <2>4. ASSUME opened # None PROVE IsOpen(opened.decision, opened.entry - opened.signal)
    <3> DEFINE first == opened.entry - opened.signal
               d == opened.decision
    <3>1. /\ minute = opened.signal + Len(path)
          /\ TouchesEntry(d, path[first])
          /\ \A i \in 1 .. first - 1 : ~TouchesEntry(d, path[i])
          /\ \A i \in first .. Len(path) : ~EndsAt(d, first, i)
      BY <1>3, <2>1, <2>4 DEF PathInv, HoldInv
    <3>2. first \in 1 .. Len(path) /\ first <= Lifetime
      BY <1>3, <2>2, <2>4, <3>1 DEF IInv, TypeOK, AgeInv, Minutes
    <3> HIDE DEF first, d
    <3>3. \A i \in 1 .. Len(path) : i < first => i \in 1 .. first - 1
      BY <2>2, <3>2
    <3>4. first \in Fills(d) /\ \A i \in Fills(d) : first <= i
      BY <2>2, <3>1, <3>2, <3>3 DEF Fills
    <3>5. Fills(d) \in SUBSET Int
      BY <2>2 DEF Fills
    <3>6. Min(Fills(d)) = first
      BY <3>4, <3>5, MinIs
    <3>7. Ends(d, first) = {}
      BY <3>1 DEF Ends, EndsAt
    <3>8. QED BY <3>4, <3>6, <3>7 DEF IsOpen, first, d
  <2>5. ASSUME Free PROVE \E r \in trades : Settles(r)
    BY <1>3, <2>1, <2>5 DEF PathInv, SettledInv
  <2>6. QED BY <2>3, <2>4, <2>5
<1>4. QED BY <1>1, <1>2, <1>3, Invariance, PTL DEF Spec
=============================================================================
