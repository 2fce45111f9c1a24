---------------------------- MODULE IctStructure ----------------------------
(***************************************************************************)
(* The three ICT plugins: clustered liquidity, market structure and fair   *)
(* value gaps.  The first two keep a zigzag of pivots, newest first, that  *)
(* one bar on the right confirms; successive pivots of one kind are one    *)
(* point, at the most extreme of them.                                     *)
(***************************************************************************)
EXTENDS IndicatorBase

CONSTANTS
    ClusterWidth,        \* pivot_width of the liquidity clusters
    StructureWidth,      \* pivot_width of the market structure
    MinimumPivots,       \* minimum_pivots of a cluster
    Margin,              \* margin_atr_fraction
    ClusterAtr,          \* 10, the length of the average range
    ScannedPoints,       \* 50, how far back a cluster is looked for
    DisplacementLength,  \* displacement_length
    NeedsDisplacement,   \* require_displacement
    EmitMss, EmitBos     \* emit_mss, emit_bos

ASSUME IctAssumption ==
    /\ {ClusterWidth, StructureWidth, MinimumPivots, ClusterAtr, ScannedPoints,
        DisplacementLength} \subseteq Nat \ {0}
    /\ Margin \in [num : Nat, den : Nat \ {0}]
    /\ {NeedsDisplacement, EmitMss, EmitBos} \subseteq BOOLEAN
    /\ EmitMss \/ EmitBos

VARIABLES
    liquidity,  \* points, zones newest first, clusters seen
    structure,  \* points, trend, latest MSS and BOS level by kind, events
    gaps,       \* gaps newest first
    inGap       \* directions in which the last bar made a gap

ictVars == <<liquidity, structure, gaps, inGap>>

NoLevels == [kind \in Kinds |-> None]
NoBook == [points |-> <<>>, zones |-> <<>>, seen |-> {}]
NoStructure ==
    [points |-> <<>>, trend |-> None, events |-> <<>>, mss |-> NoLevels, bos |-> NoLevels]

IctInit == liquidity = NoBook /\ structure = NoStructure /\ gaps = <<>> /\ inGap = {}
IctAnew ==
    liquidity' = NoBook /\ structure' = NoStructure /\ gaps' = <<>> /\ inGap' = {}

-----------------------------------------------------------------------------
\* The last but one bar of b goes beyond the `width` bars before it and the last.
IsPivot(kind, b, width) ==
    LET i == Len(b) - 1
    IN  /\ i > width
        /\ \A j \in (i - width .. i - 1) \cup {i + 1} :
             Beyond(kind, Extreme(kind, b[i]), Extreme(kind, b[j]))

NewPoint(kind, b) ==
    [kind |-> kind, index |-> Len(b) - 1, level |-> Extreme(kind, b[Len(b) - 1])]

\* A point of the other kind is added, one of the same kind replaces a lesser one.
UpdateZigzag(points, point) ==
    IF points = <<>> \/ points[1].kind # point.kind THEN <<point>> \o points
    ELSE IF Beyond(point.kind, point.level, points[1].level)
         THEN [points EXCEPT ![1] = point] ELSE points

-----------------------------------------------------------------------------
Side(kind) == IF kind = "HIGH" THEN "BUYSIDE" ELSE "SELLSIDE"

\* The first `last` points that are of the kind and between the two levels.
Within(points, last, kind, lower, upper) ==
    LET taken[i \in 0 .. last] ==
          IF i = 0 THEN <<>>
          ELSE IF /\ points[i].kind = kind
                  /\ Less(lower, Whole(points[i].level))
                  /\ Less(Whole(points[i].level), upper)
          THEN Append(taken[i - 1], points[i]) ELSE taken[i - 1]
    IN  taken[last]

\* Points of the kind within the margin, newest first.  One that is beyond it ends
\* the scan, one that falls short of it does not.
Matching(points, kind, level, margin) ==
    LET scanned == SubSeq(points, 1, Min({ScannedPoints, Len(points)}))
        upper == Plus(Whole(level), margin)
        lower == Minus(Whole(level), margin)
        beyond(p) == /\ p.kind = kind
                     /\ IF kind = "HIGH" THEN Less(upper, Whole(p.level))
                        ELSE Less(Whole(p.level), lower)
        end == SelectInSeq(scanned, beyond)
    IN  Within(points, IF end = 0 THEN Len(scanned) ELSE end - 1, kind, lower, upper)

Levels(matching) == {matching[i].level : i \in DOMAIN matching}
Center(matching) ==
    [num |-> Min(Levels(matching)) + Max(Levels(matching)), den |-> 2]

\* The latest zone of that side grows when it has the same oldest pivot; once it
\* is fully swept the cluster is a zone of its own.
LatestOn(zones, side) == SelectInSeq(zones, LAMBDA z : z.side = side)

GrowsSwept(zones, side, anchor) ==
    LET i == LatestOn(zones, side)
    IN  IF i # 0 /\ zones[i].anchor = anchor THEN i ELSE 0
Growing(zones, side, anchor) ==
    LET i == LatestOn(zones, side)
    IN  IF i # 0 /\ zones[i].state # "FULL" /\ zones[i].anchor = anchor
        THEN i ELSE 0

WithZone(zones, kind, matching, margin, b) ==
    LET anchor == matching[Len(matching)]
        lower == Minus(Center(matching), margin)
        upper == Plus(Center(matching), margin)
        i == Growing(zones, Side(kind), anchor.index)
    IN  IF i # 0
        THEN [zones EXCEPT ![i] = [@ EXCEPT !.lower = lower, !.upper = upper,
                                   !.event = Len(b) - 1, !.known = Len(b)]]
        ELSE <<[side |-> Side(kind), lower |-> lower, upper |-> upper,
                level |-> anchor.level, event |-> Len(b) - 1, known |-> Len(b),
                anchor |-> anchor.index, state |-> "ACTIVE",
                opposing |-> None, swept |-> None]>> \o zones

\* A pivot of the kind updates the zigzag; a cluster not met before makes a zone.
Clustered(l, kind, b) ==
    LET points == UpdateZigzag(l.points, NewPoint(kind, b))
        atr == WilderAtr(b, ClusterAtr)
        margin == Times(Margin, atr)
        matching == Matching(points, kind, NewPoint(kind, b).level, margin)
        cluster == <<kind, [i \in DOMAIN matching |-> matching[i].index]>>
    IN  IF ~IsPivot(kind, b, ClusterWidth) \/ points = l.points THEN l
        ELSE IF atr = None \/ Len(matching) < MinimumPivots \/ cluster \in l.seen
        THEN [l EXCEPT !.points = points]
        ELSE [points |-> points, seen |-> l.seen \cup {cluster},
              zones |-> WithZone(l.zones, kind, matching, margin, b)]

\* A close behind the near edge traverses a zone in part, behind the far edge in
\* full, which fixes how far the sweep went and the level on the opposing side.
ReachesFar(zone, c) ==
    IF zone.side = "BUYSIDE" THEN Less(zone.upper, Whole(c.close))
    ELSE Less(Whole(c.close), zone.lower)
ReachesNear(zone, c) ==
    IF zone.side = "BUYSIDE" THEN Less(zone.lower, Whole(c.close))
    ELSE Less(Whole(c.close), zone.upper)

OpposingLevel(zones, side) ==
    LET i == SelectInSeq(zones, LAMBDA z : z.side # side)
    IN  IF i = 0 THEN None ELSE zones[i].level

IsFinal(zone) == zone.state = "FULL"

AfterClose(zone, zones, b) ==
    LET c == b[Len(b)]
    IN  IF IsFinal(zone) THEN zone
        ELSE IF ReachesFar(zone, c)
        THEN [zone EXCEPT !.state = "FULL", !.known = Len(b),
                !.swept = IF zone.side = "BUYSIDE" THEN c.high ELSE c.low,
                !.opposing = OpposingLevel(zones, zone.side)]
        ELSE IF ReachesNear(zone, c) /\ zone.state = "ACTIVE"
        THEN [zone EXCEPT !.state = "PARTIAL", !.known = Len(b)] ELSE zone

Traversed(zones, b) == [i \in DOMAIN zones |-> AfterClose(zones[i], zones, b)]

\* The last bar of b in _liquidity_zones: a high before a low of the same bar.
LiquidityBar(b) ==
    LET l == Clustered(Clustered(liquidity, "HIGH", b), "LOW", b)
    IN  liquidity' = [l EXCEPT !.zones = Traversed(@, b)]

-----------------------------------------------------------------------------
\* The latest finished high and low: the newest point may still move.
Selected(points, kind) ==
    IF Len(points) < 3 THEN None
    ELSE points[IF points[3].kind = kind THEN 3 ELSE 2]

StructurePoints(points, b) ==
    LET with(p, kind) == IF IsPivot(kind, b, StructureWidth)
                         THEN UpdateZigzag(p, NewPoint(kind, b)) ELSE p
    IN  with(with(points, "HIGH"), "LOW")

\* A shift turns the trend, a break of structure goes on with it at a new level.
Shifts(s, points, kind, b) ==
    /\ Selected(points, kind) # None
    /\ Beyond(kind, b[Len(b)].close, Selected(points, kind).level)
    /\ s.trend # kind
BreaksSameLevel(s, points, kind, b) ==
    /\ Selected(points, kind) # None
    /\ Beyond(kind, b[Len(b)].close, Selected(points, kind).level)
    /\ s.trend = kind
Breaks(s, points, kind, b) ==
    /\ Selected(points, kind) # None
    /\ Beyond(kind, b[Len(b)].close, Selected(points, kind).level)
    /\ s.trend = kind
    /\ Selected(points, kind).level \notin {s.mss[kind], s.bos[kind]}

StructureEvent(type, kind, points, b) ==
    [type |-> type, kind |-> kind, level |-> Selected(points, kind).level,
     event |-> Len(b)]

Shifted(s, kind, points, b) ==
    [s EXCEPT !.points = points, !.trend = kind,
       !.mss[kind] = Selected(points, kind).level,
       !.events = Append(@, StructureEvent("MSS", kind, points, b))]

Continued(s, kind, points, b) ==
    [s EXCEPT !.points = points,
       !.bos[kind] = Selected(points, kind).level,
       !.events = Append(@, StructureEvent("BOS", kind, points, b))]

\* The last bar of b in _market_events: at most one event, a shift up first.
StructureBar(b) ==
    LET points == StructurePoints(structure.points, b)
        shifts(kind) == Shifts(structure, points, kind, b)
        breaks(kind) == Breaks(structure, points, kind, b)
    IN  structure' =
          IF shifts("HIGH") THEN Shifted(structure, "HIGH", points, b)
          ELSE IF shifts("LOW") THEN Shifted(structure, "LOW", points, b)
          ELSE IF breaks("HIGH") THEN Continued(structure, "HIGH", points, b)
          ELSE IF breaks("LOW") THEN Continued(structure, "LOW", points, b)
          ELSE [structure EXCEPT !.points = points]

-----------------------------------------------------------------------------
Directions == {"BULLISH", "BEARISH"}

\* Bar i has a body above the average and wicks below 0.36 of it.
Displaces(direction, b, i) ==
    LET c == b[i]
        mean == MeanBody(b, i, DisplacementLength)
        upperWick == c.high - Max({c.open, c.close})
        lowerWick == Min({c.open, c.close}) - c.low
    IN  /\ mean # None
        /\ Less(mean, Whole(Body(c)))
        /\ 100 * upperWick < 36 * Body(c)
        /\ 100 * lowerWick < 36 * Body(c)
        /\ IF direction = "BULLISH" THEN c.close > c.open ELSE c.close < c.open

\* Bar i leaves bar i - 2 behind without touching it.
MakesGap(direction, b, i) ==
    /\ i > 2
    /\ IF direction = "BULLISH" THEN b[i].low > b[i - 2].high
       ELSE b[i].high < b[i - 2].low
    /\ NeedsDisplacement => Displaces(direction, b, i - 1)

Gap(direction, b) ==
    LET i == Len(b)
    IN  [direction |-> direction, event |-> i, known |-> i, state |-> "ACTIVE",
         lower |-> IF direction = "BULLISH" THEN b[i - 2].high ELSE b[i].high,
         upper |-> IF direction = "BULLISH" THEN b[i].low ELSE b[i - 2].low]

\* A gap right after one of its direction moves that one and keeps its state.
StartsAnew(direction) == FALSE
MovesLatest(direction) == TRUE
Continues(direction) == direction \in inGap
LatestIn(list, direction) == SelectInSeq(list, LAMBDA g : g.direction = direction)

WithGap(list, direction, b) ==
    LET latest == LatestIn(list, direction)
    IN  IF ~MakesGap(direction, b, Len(b)) THEN list
        ELSE IF Continues(direction) /\ latest # 0
        THEN [list EXCEPT ![latest] =
                [Gap(direction, b) EXCEPT !.state = list[latest].state]]
        ELSE <<Gap(direction, b)>> \o list

\* Price enters a gap from its near side and traverses it to the far one.
FallsThrough(g, c) ==
    IF g.direction = "BULLISH" THEN c.low < g.lower ELSE c.high > g.upper
FallsInto(g, c) ==
    IF g.direction = "BULLISH" THEN c.low < g.upper ELSE c.high > g.lower

Touched(g, b) ==
    LET c == b[Len(b)]
    IN  IF g.state = "FULL" THEN g
        ELSE IF FallsThrough(g, c) THEN [g EXCEPT !.state = "FULL", !.known = Len(b)]
        ELSE IF FallsInto(g, c) /\ g.state = "ACTIVE"
        THEN [g EXCEPT !.state = "PARTIAL", !.known = Len(b)] ELSE g

Filled(list, b) == [i \in DOMAIN list |-> Touched(list[i], b)]

GapBar(b) ==
    /\ gaps' = Filled(WithGap(WithGap(gaps, "BULLISH", b), "BEARISH", b), b)
    /\ inGap' = {d \in Directions : MakesGap(d, b, Len(b))}

IctBar ==
    /\ LiquidityBar(bars')
    /\ StructureBar(bars')
    /\ GapBar(bars')

-----------------------------------------------------------------------------
(* What the plugins answer for the candles so far.                          *)

\* The entry at one of the positions with the latest news, the newest among equals.
Ahead(p, q) == p.known > q.known \/ (p.known = q.known /\ p.event > q.event)
Foremost(list, positions) ==
    list[CHOOSE i \in positions :
           \A j \in positions : /\ ~Ahead(list[j], list[i])
                                /\ j < i => Ahead(list[i], list[j])]

LiquidityObservation(equalLevels) ==
    Answer(<<equalLevels>>, Max({ClusterAtr, ClusterWidth + 2}),
           IF liquidity.zones = <<>> THEN Observed("FAIL", "NO_CLUSTER")
           ELSE LET z == Foremost(liquidity.zones, DOMAIN liquidity.zones)
                IN  Evidence("CLUSTERED_LIQUIDITY",
                             IF z.side = "BUYSIDE" THEN "SHORT" ELSE "LONG",
                             z.event, z.known, z.state))

\* The level to aim at: fixed by the sweep, else that of the foremost zone there.
OpposingText(zone) ==
    IF zone.opposing # None \/ zone.state = "FULL" THEN zone.opposing
    ELSE LET others == {i \in DOMAIN liquidity.zones :
                          liquidity.zones[i].side # zone.side}
         IN  IF others = {} THEN None ELSE Foremost(liquidity.zones, others).level

Emits(e) == (e.type = "MSS" /\ EmitMss) \/ (e.type = "BOS" /\ EmitBos)
LastEmitted == SelectLastInSeq(structure.events, Emits)

StructureObservation(clusters) ==
    LET e == structure.events[LastEmitted]
    IN  Answer(<<clusters>>, StructureWidth + 2,
               IF LastEmitted = 0 THEN Observed("FAIL", "NO_BREAK")
               ELSE Evidence(e.type, Upward(e.kind), e.event, e.event,
                             "CONFIRMED_BREAK"))

OwnKnown(g, marketStructure) == g.known
BothKnown(g, marketStructure) == Max({g.known, marketStructure.known})

Live == {i \in DOMAIN gaps : gaps[i].state # "FULL"}

\* The foremost gap counts when it points the way the structure broke; it is known
\* when both are.
GapObservation(marketStructure) ==
    LET g == Foremost(gaps, Live)
    IN  Answer(<<marketStructure>>,
               IF NeedsDisplacement THEN DisplacementLength + 1 ELSE 3,
               IF Live = {} THEN Observed("FAIL", "NO_ACTIVE_GAP")
               ELSE IF marketStructure.direction # g.direction
                         \/ marketStructure.known = None
               THEN Observed("FAIL", "CONTRADICTORY_EVIDENCE")
               ELSE Evidence("FAIR_VALUE_GAP", g.direction, g.event,
                             BothKnown(g, marketStructure), g.state))
=============================================================================
