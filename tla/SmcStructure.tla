---------------------------- MODULE SmcStructure ----------------------------
(***************************************************************************)
(* The three SMC plugins: swing structure, equal highs and lows, and order *)
(* blocks.  Each keeps a leg, the kind of its latest confirmed pivot, and  *)
(* confirms a pivot of the other kind when `size` bars have closed inside  *)
(* it.  High and low are handled by one operator over `kind`.              *)
(***************************************************************************)
EXTENDS IndicatorBase

CONSTANTS
    SwingLength,       \* swing_length
    ConfirmationBars,  \* confirmation_bars of the equal levels
    Threshold,         \* threshold_atr_fraction
    BlockSize,         \* 50 or 5, by the scope of the order blocks
    WarmupBars,        \* 200, the length of the average range
    UsesAtr,           \* volatility_filter is "atr", else "cumulative_range"
    MitigatesByClose,  \* mitigation_source is "close", else "high_low"
    MaximumBlocks      \* maximum_blocks

ASSUME SmcAssumption ==
    /\ {SwingLength, ConfirmationBars, BlockSize, WarmupBars, MaximumBlocks}
         \subseteq Nat \ {0}
    /\ UsesAtr \in BOOLEAN
    /\ MitigatesByClose \in BOOLEAN

VARIABLES
    swing,   \* leg, latest pivot of each kind, trend, events
    equals,  \* leg, latest pivot of each kind, events
    blocks   \* leg, latest pivot of each kind, active blocks, newest first

smcVars == <<swing, equals, blocks>>

\* The scan begins as if a high had been confirmed, with no pivot to show for it.
NoPivots == [kind \in Kinds |-> None]

NoSwing == [leg |-> "HIGH", pivot |-> NoPivots, trend |-> None, events |-> <<>>]
NoEquals == [leg |-> "HIGH", pivot |-> NoPivots, events |-> <<>>]
NoBlocks == [leg |-> "HIGH", pivot |-> NoPivots, active |-> <<>>]

SmcInit == swing = NoSwing /\ equals = NoEquals /\ blocks = NoBlocks
SmcAnew == swing' = NoSwing /\ equals' = NoEquals /\ blocks' = NoBlocks

-----------------------------------------------------------------------------
TouchStands(kind, b, i) ==
    \A j \in i + 1 .. Len(b) : ~Beyond(kind, Extreme(kind, b[j]), Extreme(kind, b[i]))

\* Every later bar stays inside bar i.
Stands(kind, b, i) ==
    \A j \in i + 1 .. Len(b) : Beyond(kind, Extreme(kind, b[i]), Extreme(kind, b[j]))

\* A bar that stands on both sides counts as a high.
NextLeg(b, size, leg) ==
    LET i == Len(b) - size
    IN  IF i < 1 THEN leg
        ELSE IF Stands("HIGH", b, i) THEN "HIGH"
        ELSE IF Stands("LOW", b, i) THEN "LOW" ELSE leg

\* s with the pivot that the last bar of b confirms, if it turns the leg.
Confirmed(b, size, s) ==
    LET leg == NextLeg(b, size, s.leg)
        i == Len(b) - size
    IN  IF leg = s.leg THEN s
        ELSE [s EXCEPT
                !.leg = leg,
                !.pivot[leg] = [level |-> Extreme(leg, b[i]), index |-> i,
                                crossed |-> FALSE]]

\* The close goes through a pivot for the first time.
Crosses(kind, b, pivot) ==
    /\ pivot # None /\ Len(b) > 1
    /\ ~pivot.crossed
    /\ Beyond(kind, b[Len(b)].close, pivot.level)
    /\ ~Beyond(kind, b[Len(b) - 1].close, pivot.level)

Broken(b, s) == {kind \in Kinds : Crosses(kind, b, s.pivot[kind])}

CrossOff(s, broken) ==
    [s EXCEPT !.pivot = [kind \in Kinds |->
       IF kind \in broken THEN [s.pivot[kind] EXCEPT !.crossed = TRUE]
       ELSE s.pivot[kind]]]

-----------------------------------------------------------------------------
\* HH or LL when the pivot goes beyond the one before it, LH or HL when not.
PivotEvent(before, s, time) ==
    LET kind == s.leg
        pivot == s.pivot[kind]
    IN  [type |-> IF before.pivot[kind] # None
                       /\ Beyond(kind, pivot.level, before.pivot[kind].level)
                  THEN IF kind = "HIGH" THEN "HH" ELSE "LL"
                  ELSE IF kind = "HIGH" THEN "LH" ELSE "HL",
         direction |-> Upward(Opposite(kind)), kind |-> kind,
         level |-> pivot.level, event |-> pivot.index, known |-> time,
         state |-> "CONFIRMED_PIVOT"]

BreakType(trend, kind) == IF trend = Opposite(kind) THEN "CHoCH" ELSE "BOS"

BreakEvent(kind, s, time) ==
    [type |-> BreakType(s.trend, kind), direction |-> Upward(kind), kind |-> kind,
     level |-> s.pivot[kind].level, event |-> time, known |-> time,
     state |-> "BROKEN"]

\* The last bar of b in _swing_events: its pivot first, then its break.
SwingBar(b) ==
    LET s == Confirmed(b, SwingLength, swing)
        pivots == IF s.leg = swing.leg THEN <<>>
                  ELSE <<PivotEvent(swing, s, Len(b))>>
        broken == Broken(b, s)
    IN  swing' = [CrossOff(s, broken) EXCEPT
          !.trend = IF broken = {} THEN @ ELSE CHOOSE kind \in broken : TRUE,
          !.events = @ \o pivots
             \o SetToSeq({BreakEvent(kind, s, Len(b)) : kind \in broken})]

\* Two successive pivots of a kind are closer than a fraction of the range.
StrictlyEqual(previous, level, b) ==
    LET atr == WilderAtr(b, WarmupBars)
    IN  atr # None /\ Less(Whole(Distance(previous, level)), Times(Threshold, atr))

EqualBar(b) ==
    LET s == Confirmed(b, ConfirmationBars, equals)
        previous == equals.pivot[s.leg]
        pivot == s.pivot[s.leg]
    IN  equals' =
          IF s.leg # equals.leg /\ previous # None
               /\ StrictlyEqual(previous.level, pivot.level, b)
          THEN [s EXCEPT !.events = Append(@,
                  [type |-> IF s.leg = "HIGH" THEN "EQH" ELSE "EQL",
                   direction |-> Upward(Opposite(s.leg)), level |-> pivot.level,
                   previous |-> previous.level, event |-> pivot.index,
                   known |-> Len(b)])]
          ELSE s

-----------------------------------------------------------------------------
\* Bar i is twice as wide as what is usual at its close.  The sum of the ranges
\* is divided by the number of bars before it.
Volatile(b, i) ==
    LET prefix == SubSeq(b, 1, i)
        measure == IF UsesAtr THEN WilderAtr(prefix, WarmupBars)
                   ELSE IF i = 1 THEN None
                   ELSE [num |-> TotalRange(prefix, i), den |-> i - 1]
    IN  measure # None
          /\ ~Less(Whole(b[i].high - b[i].low), Times(Whole(2), measure))

\* A volatile bar shows its low as its high and its high as its low.
Parsed(kind, b, i) ==
    Extreme(IF Volatile(b, i) THEN Opposite(kind) ELSE kind, b[i])

\* The bar between pivot and break that reaches furthest against the break.
Source(kind, b, first) ==
    LET against == Opposite(kind)
        span == first .. Len(b) - 1
    IN  CHOOSE i \in span : \A j \in span :
          /\ ~Beyond(against, Parsed(against, b, j), Parsed(against, b, i))
          /\ Parsed(against, b, j) = Parsed(against, b, i) => i <= j

Block(kind, b, pivot) ==
    LET source == Source(kind, b, pivot.index)
    IN  [upper |-> Parsed("HIGH", b, source), lower |-> Parsed("LOW", b, source),
         direction |-> Upward(kind), event |-> Len(b), source |-> source]

\* A bar goes through the far side of a block.
Mitigates(block, c) ==
    IF block.direction = "BEARISH"
    THEN (IF MitigatesByClose THEN c.close ELSE c.high) > block.upper
    ELSE (IF MitigatesByClose THEN c.close ELSE c.low) < block.lower

KeepsOldest(active) ==
    SubSeq(active, Max({1, Len(active) - MaximumBlocks + 1}), Len(active))
Latest(active) == SubSeq(active, 1, Min({MaximumBlocks, Len(active)}))

\* What the bar leaves of a list of blocks.
Unmitigated(list, c) ==
    LET kept[i \in 0 .. Len(list)] ==
          IF i = 0 THEN <<>>
          ELSE IF Mitigates(list[i], c) THEN kept[i - 1] ELSE Append(kept[i - 1], list[i])
    IN  kept[Len(list)]

\* The new block too must survive the bar that makes it.
BlockBar(b) ==
    LET s == Confirmed(b, BlockSize, blocks)
        broken == Broken(b, s)
        made == SetToSeq({Block(kind, b, s.pivot[kind]) : kind \in broken})
    IN  blocks' = [CrossOff(s, broken) EXCEPT
          !.active = Latest(Unmitigated(made \o @, b[Len(b)]))]

SmcBar ==
    /\ SwingBar(bars')
    /\ EqualBar(bars')
    /\ BlockBar(bars')

-----------------------------------------------------------------------------
(* What the plugins answer for the candles so far.                          *)

LatestEvent(events, none, state) ==
    IF events = <<>> THEN Observed("FAIL", none)
    ELSE LET e == events[Len(events)]
         IN  Evidence(e.type, e.direction, e.event, e.known, state)

SwingObservation ==
    Answer(<<>>, SwingLength + 1,
           LatestEvent(swing.events, "NO_EVENT",
             IF swing.events = <<>> THEN None
             ELSE swing.events[Len(swing.events)].state))

EqualObservation(swingStructure) ==
    Answer(<<swingStructure>>, Max({WarmupBars, ConfirmationBars + 1}),
           LatestEvent(equals.events, "NO_EQUAL_LEVEL", "CONFIRMED_EQUAL_LEVEL"))

BlockObservation(swingStructure) ==
    Answer(<<swingStructure>>, Max({WarmupBars, BlockSize + 1}),
           IF blocks.active = <<>> THEN Observed("FAIL", "NO_ACTIVE_BLOCK")
           ELSE LET block == blocks.active[1]
                IN  Evidence("ORDER_BLOCK", block.direction, block.event,
                             block.event, "ACTIVE"))
=============================================================================
