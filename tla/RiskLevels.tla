----------------------------- MODULE RiskLevels -----------------------------
(***************************************************************************)
(* Entry, stop and target of a trade, composed from the evidence of the    *)
(* execution role: a swept cluster, a break of structure after it and the  *)
(* gap that the break left.  The plugin keeps nothing of its own.          *)
(***************************************************************************)
EXTENDS IctStructure

CONSTANTS
    RiskAtr,        \* 14, the length of the average range
    StopMargin,     \* 0.1, of the average range
    MinimumReward   \* minimum_reward_risk

ASSUME RiskAssumption ==
    /\ RiskAtr \in Nat \ {0, 1}
    /\ StopMargin \in [num : Nat \ {0}, den : Nat \ {0}]

-----------------------------------------------------------------------------
Wanted(direction) == IF direction = "LONG" THEN "BULLISH" ELSE "BEARISH"

\* What the evidence says of the sweep and of the gap must fit together.
ContradictsAnyTime(sweep, zone, gap) ==
    \/ sweep.status # "PASS" \/ gap.status # "PASS"
    \/ gap.direction # Wanted(sweep.direction)
    \/ sweep.state # "FULL"
    \/ zone.swept = None \/ OpposingText(zone) = None
Contradicts(sweep, zone, gap) ==
    \/ sweep.status # "PASS" \/ gap.status # "PASS"
    \/ sweep.known >= gap.known
    \/ gap.direction # Wanted(sweep.direction)
    \/ sweep.state # "FULL"
    \/ zone.swept = None \/ OpposingText(zone) = None

\* The middle of the gap, a margin behind the sweep, and the level on the other side.
Composition(direction, zone, g) ==
    LET margin == Times(StopMargin, WilderAtr(bars, RiskAtr))
        entry == [num |-> g.lower + g.upper, den |-> 2]
        stop == IF direction = "LONG" THEN Minus(Whole(zone.swept), margin)
                ELSE Plus(Whole(zone.swept), margin)
        target == Whole(OpposingText(zone))
    IN  [entry |-> entry, stop |-> stop, target |-> target,
         risk |-> IF direction = "LONG" THEN Minus(entry, stop) ELSE Minus(stop, entry),
         reward |-> IF direction = "LONG" THEN Minus(target, entry)
                    ELSE Minus(entry, target)]

\* Levels that earn too little fail with the times of their evidence.
Judged(sweep, gap, levels) ==
    IF ~Less(Whole(0), levels.risk) \/ ~Less(Whole(0), levels.reward)
    THEN Observed("FAIL", "INVALID_LEVEL_ORDER")
    ELSE LET enough == ~Less(levels.reward, Times(MinimumReward, levels.risk))
         IN  [Evidence("RISK_LEVELS", sweep.direction,
                       Max({sweep.event, gap.event}),
                       Max({sweep.known, gap.known}),
                       IF enough THEN "LEVELS_CONFIRMED"
                       ELSE "BELOW_MINIMUM_REWARD_RISK")
              EXCEPT !.status = IF enough THEN "PASS" ELSE "FAIL"]

\* The cluster and the gap that the evidence is of.
SweptZone == Foremost(liquidity.zones, DOMAIN liquidity.zones)
LiveGap == Foremost(gaps, Live)
LevelsOf(direction) == Composition(direction, SweptZone, LiveGap)

RiskObservation(sweep, gap) ==
    Answer(<<sweep, gap>>, RiskAtr,
           IF Contradicts(sweep, SweptZone, gap)
           THEN Observed("FAIL", "CONTRADICTORY_EVIDENCE")
           ELSE Judged(sweep, gap, LevelsOf(sweep.direction)))
=============================================================================
