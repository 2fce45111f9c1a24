------------------------- MODULE IndicatorInvariant -------------------------
(***************************************************************************)
(* What the scans of the indicators keep: that every list holds what its   *)
(* definition over the window selects, and what the steps of a scan need   *)
(* to know of it.  The first section has the bars, the others one scan or  *)
(* one notion of it each.                                                  *)
(***************************************************************************)
EXTENDS Indicators, Basics

-----------------------------------------------------------------------------
(* A history that has grown by a bar.                                       *)

BarsOK == bars \in Seq(Candles) /\ former \in Seq(Candles)

\* No bar has been read of the window.
Unread == bars = <<>> /\ former \in Seq(Candles) /\ SmcInit /\ IctInit

-----------------------------------------------------------------------------
(* Fair value gaps.                                                         *)

GapRecords ==
    [direction : Directions, event : Nat, known : Nat, lower : Nat, upper : Nat,
     state : {"ACTIVE", "PARTIAL", "FULL"}]

Reaches(d, c, level) == IF d = "BULLISH" THEN c.low < level ELSE c.high > level

\* The gaps are those of the ends of all runs of gap bars, latest first.
Defined == UNION {{GapAt(d, i) : i \in GapEnds(d)} : d \in Directions}
GapsInv ==
    /\ inGap = {d \in Directions : MakesGap(d, bars, Now)}
    /\ gaps \in Seq(GapRecords)
    /\ Range(gaps) = Defined
    /\ \A i, j \in DOMAIN gaps : i < j => gaps[i].event > gaps[j].event

\* What a gap of direction d leaves of the gaps before it.
Before(d) == {g \in Range(gaps) : ~(d \in inGap /\ g.event = Now)}

-----------------------------------------------------------------------------
(* Gaps of a window that has moved on.                                      *)

\* Bars of b are those of f, k bars later.
PartOf(f, b, k) == Len(f) + k <= Len(b) /\ \A j \in 1 .. Len(f) : f[j] = b[j + k]

MadeIn(b, d) == {i \in 3 .. Len(b) : MakesGap(d, b, i)}
EndsOf(b, d) == {i \in MadeIn(b, d) : i + 1 \notin MadeIn(b, d)}

\* What is told of the gap of bar i, without a scan.
Touches(b, d, i, level) == {k \in i + 1 .. Len(b) : Reaches(d, b[k], level)}
Near(b, d, i) == IF d = "BULLISH" THEN b[i].low ELSE b[i].high
Far(b, d, i) == IF d = "BULLISH" THEN b[i - 2].high ELSE b[i - 2].low
ToldOf(b, d, i) ==
    LET near == Touches(b, d, i, Near(b, d, i))
        far == Touches(b, d, i, Far(b, d, i))
    IN  [direction |-> d, event |-> i,
         known |-> IF far # {} THEN Min(far) ELSE IF near # {} THEN Min(near) ELSE i,
         state |-> IF far # {} THEN "FULL" ELSE IF near # {} THEN "PARTIAL" ELSE "ACTIVE",
         lower |-> IF d = "BULLISH" THEN b[i - 2].high ELSE b[i].high,
         upper |-> IF d = "BULLISH" THEN b[i].low ELSE b[i - 2].low]

\* What was reported, told from the bars of that evaluation that are still there.
ReportInv ==
    /\ \A j \in 1 .. Len(former) : j <= Now => bars[j] = former[j]
    /\ \A o \in Range(reported) :
         o.event >= Reach =>
           \E d \in Directions : \E i \in EndsOf(former, d) : o = ToldOf(former, d, i)
    /\ \A d \in Directions : \A i \in EndsOf(former, d) : ToldOf(former, d, i) \in Range(reported)

-----------------------------------------------------------------------------
(* Liquidity zones.                                                         *)

\* The shape of a zone, whatever its levels are.
IsZone(z) ==
    z = [side |-> z.side, lower |-> z.lower, upper |-> z.upper, level |-> z.level,
         event |-> z.event, known |-> z.known, anchor |-> z.anchor,
         state |-> z.state, opposing |-> z.opposing, swept |-> z.swept]

\* Its sweep by one of the first n bars of b, since it was last drawn.
Closes(z, b, n) == {k \in z.event + 1 .. n : ReachesFar(z, b[k])}

TellsSweep(z, b, n) ==
    /\ IsZone(z) /\ z.event \in Nat /\ z.event <= n
    /\ z.state = "FULL" <=> Closes(z, b, n) # {}
    /\ z.state = "FULL" =>
         /\ z.known = Min(Closes(z, b, n))
         /\ z.swept = IF z.side = "BUYSIDE" THEN b[z.known].high ELSE b[z.known].low

\* A zone of a side was drawn after the one before it was swept, if they share their
\* oldest pivot.
Succeeds(zones, i, j) ==
    /\ zones[j].side = zones[i].side /\ zones[j].anchor = zones[i].anchor
    /\ \A m \in i + 1 .. j - 1 : zones[m].side # zones[i].side
    => zones[j].state = "FULL" /\ zones[j].known <= zones[i].event

ZonesOK(zones, b, n) ==
    /\ IsList(zones)
    /\ \A i \in DOMAIN zones : TellsSweep(zones[i], b, n)
    /\ \A i \in DOMAIN zones : \A j \in i + 1 .. Len(zones) : Succeeds(zones, i, j)

\* What of the zones of old is still there, and what is news at bar m.
Keeps(old, new, m) ==
    /\ \A i \in DOMAIN new :
         new[i].known = m \/ \E j \in DOMAIN old : new[i] = old[j]
    /\ \A j \in DOMAIN old :
         old[j].state = "FULL" => \E i \in DOMAIN new : new[i] = old[j]

\* What the scan of the clusters keeps.
IsBook(l) == l = [points |-> l.points, zones |-> l.zones, seen |-> l.seen]

ZonesInv == IsBook(liquidity) /\ ZonesOK(liquidity.zones, bars, Now)

-----------------------------------------------------------------------------
(* Events and order blocks: what is added to a list leaves it as it was.    *)

IsSwing(s) ==
    s = [leg |-> s.leg, pivot |-> s.pivot, trend |-> s.trend, events |-> s.events]
IsEqual(s) == s = [leg |-> s.leg, pivot |-> s.pivot, events |-> s.events]
IsBlocks(s) == s = [leg |-> s.leg, pivot |-> s.pivot, active |-> s.active]
IsStructure(s) ==
    s = [points |-> s.points, trend |-> s.trend, events |-> s.events,
         mss |-> s.mss, bos |-> s.bos]

ListsInv ==
    /\ IsSwing(swing) /\ IsList(swing.events)
    /\ IsEqual(equals) /\ IsList(equals.events)
    /\ IsBlocks(blocks) /\ IsList(blocks.active)
    /\ IsStructure(structure) /\ IsList(structure.events)

\* The blocks that a bar leaves are found one by one.
Leaves(kept, list, c) ==
    /\ kept[0] = <<>>
    /\ \A i \in 1 .. Len(list) :
         kept[i] = IF Mitigates(list[i], c) THEN kept[i - 1] ELSE Append(kept[i - 1], list[i])

-----------------------------------------------------------------------------
(* When what the scans keep happened and became known.                      *)

Timely(e, n) ==
    e.event \in Nat /\ e.known \in Nat /\ e.event <= e.known /\ e.known <= n

\* A leg and the latest pivot of each kind.
IsTurning(s) == s.leg \in Kinds /\ s.pivot = [kind \in Kinds |-> s.pivot[kind]]

TimesInv ==
    /\ IsTurning(swing) /\ IsTurning(equals)
    /\ \A i \in DOMAIN swing.events : Timely(swing.events[i], Now)
    /\ \A i \in DOMAIN equals.events : Timely(equals.events[i], Now)
    /\ \A p \in Range(blocks.active) : p.event \in 0 .. Now
    /\ \A i \in DOMAIN structure.events : structure.events[i].event \in 0 .. Now
    /\ \A i \in DOMAIN liquidity.zones : Timely(liquidity.zones[i], Now)

ScanInv == BarsOK /\ GapsInv /\ ZonesInv /\ ListsInv /\ TimesInv

-----------------------------------------------------------------------------
(* What the plugins answer.                                                 *)

\* A plugin's own answer is one of its evidence or blames no time.
OwnIsSound(own) ==
    /\ own.status = "PASS" => Timely(own, Now)
    /\ own.status = "FAIL" => own.event = None

-----------------------------------------------------------------------------
(* The zigzag of pivots.                                                    *)

PointRecords == [kind : Kinds, index : Nat, level : Nat]

\* Pivots at different places come one after the other.
Successive(P) == \A p, q \in P : p = q \/ Precedes(p, q) \/ Precedes(q, p)

ZigzagOK(points, P) ==
    /\ points \in Seq(P) /\ Range(points) = Zigzag(P)
    /\ \A i, j \in DOMAIN points : i < j => Precedes(points[j], points[i])
    /\ \A i \in 1 .. Len(points) - 1 : points[i].kind # points[i + 1].kind
    /\ points = <<>> <=> P = {}
    /\ points # <<>> => \A q \in P : Precedes(points[1], q) => q.kind = points[1].kind

-----------------------------------------------------------------------------
(* The pivots of a history that has grown by a bar.                         *)

\* The pivots that the last bar of b confirms.
Fresh(kind, b, width) == IF IsPivot(kind, b, width) THEN {NewPoint(kind, b)} ELSE {}

\* How a scan goes on with its points.
Onward(points, kind, b, width) ==
    IF IsPivot(kind, b, width) THEN UpdateZigzag(points, NewPoint(kind, b)) ELSE points

-----------------------------------------------------------------------------
(* Breaks of the market structure.                                          *)

\* Both scans keep the zigzag of the pivots so far.
PointsInv ==
    /\ ZigzagOK(structure.points, PivotsSoFar(StructureWidth))
    /\ ZigzagOK(liquidity.points, PivotsSoFar(ClusterWidth))
    /\ Successive(PivotsSoFar(StructureWidth)) /\ Successive(PivotsSoFar(ClusterWidth))

\* What the list of breaks tells of n bars of b.
LevelsTell(events, b, n) ==
    \A i \in DOMAIN events :
        /\ events[i].kind \in Kinds /\ events[i].event \in 1 .. n
        /\ Beyond(events[i].kind, b[events[i].event].close, events[i].level)
        /\ \E k \in 1 .. events[i].event - 2 :
             events[i].level = Extreme(events[i].kind, b[k])

BreaksGoOn(events) ==
    \A i \in DOMAIN events : events[i].type = "BOS" =>
        /\ i # 1 /\ events[i - 1].kind = events[i].kind
        /\ \A type \in {"MSS", "BOS"} :
             events[i].level # LatestBefore(events, i, type, events[i].kind)

ShiftsOf(events) == {i \in DOMAIN events : events[i].type = "MSS"}
IsLastShift(events, i) ==
    i \in ShiftsOf(events) /\ \A m \in ShiftsOf(events) : m <= i
EndsIn(events, trend) == \A i : IsLastShift(events, i) => events[i].kind = trend
ShiftsTurn(events) ==
    \A i, j \in ShiftsOf(events) :
        i < j /\ ~(\E m \in ShiftsOf(events) : i < m /\ m < j) => events[i].kind # events[j].kind

\* What the scan keeps beside it: the trend is the kind of the last shift and of the
\* last event, and a level is the last one of its type and kind.
TrendTells(s) ==
    /\ s.trend = None <=> s.events = <<>>
    /\ s.events # <<>> => s.events[Len(s.events)].kind = s.trend
    /\ EndsIn(s.events, s.trend)
    /\ s.mss = [kind \in Kinds |-> LatestBefore(s.events, Len(s.events) + 1, "MSS", kind)]
    /\ s.bos = [kind \in Kinds |-> LatestBefore(s.events, Len(s.events) + 1, "BOS", kind)]

TrendOK(s, b, n) ==
    /\ LevelsTell(s.events, b, n) /\ BreaksGoOn(s.events) /\ ShiftsTurn(s.events)
    /\ TrendTells(s)

\* The next bar of b closes beyond a level of a bar two before it or earlier.
IsDrawn(x, b, n) ==
    /\ x.kind \in Kinds /\ x.event = n + 1 /\ Beyond(x.kind, b[n + 1].close, x.level)
    /\ \E k \in 1 .. n - 1 : x.level = Extreme(x.kind, b[k])

\* The scan goes on with event x, from s to t.
TurnsTrend(s, x, t) ==
    /\ x.type = "MSS" /\ s.trend # x.kind
    /\ t.mss = [s.mss EXCEPT ![x.kind] = x.level] /\ t.bos = s.bos
KeepsTrend(s, x, t) ==
    /\ x.type = "BOS" /\ s.trend = x.kind /\ x.level \notin {s.mss[x.kind], s.bos[x.kind]}
    /\ t.mss = s.mss /\ t.bos = [s.bos EXCEPT ![x.kind] = x.level]

NonePassedOver ==
    \A kind \in Kinds :
        LET point == Selected(structure.points, kind)
            events == structure.events
        IN  point # None /\ Beyond(kind, bars[Now].close, point.level) =>
              /\ events # <<>>
              /\ events[Len(events)].kind = kind \/ events[Len(events)].event = Now

TrendInv == TrendOK(structure, bars, Now) /\ NonePassedOver

-----------------------------------------------------------------------------
(* True ranges and their averages.                                          *)

\* A sum grows with each of its terms.
Sums(total, b, n) ==
    /\ total[0] = 0
    /\ \A k \in 1 .. n : total[k] = total[k - 1] + TrueRange(b, k)

\* A bar of the first n has a range.
Moves(b, n) == \E i \in 1 .. n : TrueRange(b, i) # 0

FirstAverage(b, length) == [num |-> TotalRange(b, length), den |-> length]
Smooths(current, b, length, n) ==
    /\ current[length] = FirstAverage(b, length)
    /\ \A i \in length + 1 .. n :
         current[i] = Smoothed(current[i - 1], TrueRange(b, i), length)

\* The average is a fraction, and no zero as soon as a bar has a range.
IsAverage(p, moves) == /\ p \in [num : Nat, den : Nat \ {0}]
                       /\ moves => p.num # 0

-----------------------------------------------------------------------------
(* Marks and turns of the leg.                                              *)

\* The kind of the pivot that the last bar marks.
Marked(b, size) ==
    LET i == Len(b) - size
    IN  IF i < 1 THEN None
        ELSE IF Stands("HIGH", b, i) THEN "HIGH"
        ELSE IF Stands("LOW", b, i) THEN "LOW" ELSE None

\* The leg tells which kind was marked last.
LatestMark(kind, size) ==
    LastBefore(Marks(kind, size), Now + 1, IF kind = "HIGH" THEN 0 ELSE -1)
LegTells(leg, size) ==
    leg \in Kinds /\ LatestMark(Opposite(leg), size) < LatestMark(leg, size)

-----------------------------------------------------------------------------
(* Pivots and their breaks.                                                 *)

PivotRecords == [level : Nat, index : Nat, crossed : BOOLEAN]

\* A pivot is that of the latest turn of its kind.
Follows(pivot, kind, size) ==
    LET turns == Turns(kind, size)
    IN  IF turns = {} THEN pivot = None
        ELSE /\ pivot \in PivotRecords
             /\ pivot.level = LevelAt(kind, size, Max(turns))
             /\ pivot.index = Max(turns) - size

\* A pivot is crossed when a close has gone beyond it.
CrossedTells(pivot, kind, size) ==
    LET turns == Turns(kind, size)
    IN  turns # {} => (pivot.crossed <=> BreakBars(kind, size, Max(turns), turns) # {})

\* The breaks of a kind gain one exactly when its latest turn is broken by the next bar.
IsBroken(kind, size, T, close) ==
    /\ T # {} /\ BreakBars(kind, size, Max(T), T) = {}
    /\ Beyond(kind, close, LevelAt(kind, size, Max(T)))

CrossedBy(kind, b, p) == IF Crosses(kind, b, p) THEN [p EXCEPT !.crossed = TRUE] ELSE p
Renews(p, q, T, U) == IF U = T THEN p = q ELSE ~p.crossed

-----------------------------------------------------------------------------
(* A list of events and the set they tell.                                  *)

Told(e) == [type |-> e.type, kind |-> e.kind, event |-> e.event, known |-> e.known]

Listing(events, D, n) ==
    /\ IsList(events)
    /\ {Told(e) : e \in Range(events)} = D
    /\ IsFiniteSet(D) /\ Len(events) = Cardinality(D)
    /\ \A i \in DOMAIN events : events[i].known \in 0 .. n
    /\ \A i, j \in DOMAIN events : i < j => events[i].known <= events[j].known

-----------------------------------------------------------------------------
(* Breaks and the trend.                                                    *)

Previous(B, q) == {p \in B : /\ p.at < q.at
                             /\ ~\E o \in B : p.at < o.at /\ o.at < q.at}
TypeIn(B, q) == IF \E p \in Previous(B, q) : p.kind # q.kind THEN "CHoCH" ELSE "BOS"
TrendIsLast(trend, B) ==
    /\ B = {} => trend = None
    /\ B # {} => trend \in Kinds
    /\ \A p \in B : (~\E o \in B : p.at < o.at) => p.kind = trend

-----------------------------------------------------------------------------
(* The events that the history defines.                                     *)

PivotType(kind, further) ==
    IF kind = "HIGH" THEN (IF further THEN "HH" ELSE "LH") ELSE (IF further THEN "LL" ELSE "HL")

BreakTold(B, q) == [type |-> TypeIn(B, q), kind |-> q.kind, event |-> q.at, known |-> q.at]

\* A scan's leg and pivots are those that the history tells.
LegOK(s, size) ==
    /\ LegTells(s.leg, size)
    /\ \A kind \in Kinds : /\ Follows(s.pivot[kind], kind, size)
                           /\ CrossedTells(s.pivot[kind], kind, size)

BreaksNow(kind, size, T, U, close) == U = T /\ IsBroken(kind, size, T, close)

-----------------------------------------------------------------------------
(* The scan of the swing structure.                                         *)

DefinedSwings == (PivotEvents("HIGH") \cup PivotEvents("LOW")) \cup BreakEvents
SwingInv ==
    /\ LegOK(swing, SwingLength)
    /\ Listing(swing.events, DefinedSwings, Now)
    /\ TrendIsLast(swing.trend, BreaksOf(SwingLength))

-----------------------------------------------------------------------------
(* Equal highs and lows.                                                    *)

IsNear(x, y, atr) == Less(Whole(Distance(x, y)), Times(Threshold, atr))

\* What makes turn k an equal level.
EqualAt(kind, k, before, level, other, b) ==
    /\ k >= WarmupBars /\ before # None
    /\ IsNear(level, other, WilderAtr(b, WarmupBars))

\* The times of the events of the list that point in a direction.
TimesOf(events, direction) == {e.known : e \in {o \in Range(events) : o.direction = direction}}

EqualsInv ==
    /\ LegTells(equals.leg, ConfirmationBars)
    /\ \A kind \in Kinds :
         /\ Follows(equals.pivot[kind], kind, ConfirmationBars)
         /\ TimesOf(equals.events, Upward(Opposite(kind))) = EqualTimes(kind)

TimeIf(e, direction) == IF e.direction = direction THEN {e.known} ELSE {}

-----------------------------------------------------------------------------
(* The block that a break makes.                                            *)

FurthestOf(kind, v, first, last) ==
    {i \in first .. last : \A j \in first .. last : ~Beyond(kind, v[j], v[i])}
IsSource(kind, v, first, last, i) ==
    \A j \in first .. last : ~Beyond(kind, v[j], v[i]) /\ (v[j] = v[i] => i <= j)

\* A break of the history so far, and the bars its block may come from.
IsBreak(q, n) ==
    /\ q.kind \in Kinds /\ q.at \in 1 .. n /\ q.turn \in BlockSize + 1 .. q.at

\* The breaks of the history so far are in order.
BreaksOK == \A q \in BreaksOf(BlockSize) : IsBreak(q, Now)

-----------------------------------------------------------------------------
(* Which of the blocks made are active.                                     *)

ActiveOf(made, n) ==
    {p \in made : /\ UnmitigatedUntil(p, n)
                  /\ \A k \in p.event .. n :
                       Cardinality(NewerAt(made, p, k)) < MaximumBlocks}

\* A bar makes one block or none.
MadeAt(X, n) == X = {} \/ \E x : X = {x} /\ x.event = n

-----------------------------------------------------------------------------
(* The scan of the order blocks.                                            *)

\* The blocks that the breaks so far have made.
Made == {BlockOf(q) : q \in BreaksOf(BlockSize)}

BlocksInv ==
    /\ IsTurning(blocks) /\ LegOK(blocks, BlockSize)
    /\ BreaksOK /\ IsFiniteSet(Made)
    /\ Falling(blocks.active) /\ Range(blocks.active) = ActiveOf(Made, Now)

-----------------------------------------------------------------------------
(* The points of a liquidity cluster.                                       *)

Margins == [num : Nat, den : Nat \ {0}]

\* Whether a point counts for a cluster.
Fits(p, kind, lower, upper) ==
    p.kind = kind /\ Less(lower, Whole(p.level)) /\ Less(Whole(p.level), upper)

Takes(taken, points, last, kind, lower, upper) ==
    /\ taken[0] = <<>>
    /\ \A i \in 1 .. last :
         taken[i] = IF Fits(points[i], kind, lower, upper)
                    THEN Append(taken[i - 1], points[i]) ELSE taken[i - 1]

\* They are different points of the list, and all of them count.
AllFit(list, P, kind, lower, upper) ==
    /\ list \in Seq(P) /\ IsFiniteSet(Range(list)) /\ Cardinality(Range(list)) = Len(list)
    /\ \A p \in Range(list) : p \in P /\ Fits(p, kind, lower, upper)

-----------------------------------------------------------------------------
(* The pivots that a zone of liquidity stands on.                           *)

\* Enough pivots of the kind that every close beyond the far edge of the zone leaves
\* behind, one with its level, and for a swept zone one with the level to aim at.
LeftBehind(z, kind, p) ==
    /\ p.kind = kind /\ p.index <= z.event
    /\ \A c \in Candles : ReachesFar(z, c) => Beyond(kind, c.close, p.level)
DrawnOver(z, kind, P) ==
    \E S \in SUBSET P : /\ IsFiniteSet(S) /\ Cardinality(S) >= MinimumPivots
                        /\ \A p \in S : LeftBehind(z, kind, p)
HasLevel(z, kind, P) == \E p \in P : p.kind = kind /\ p.index <= z.event /\ p.level = z.level
AimsAt(z, kind, P) ==
    z.state = "FULL" /\ z.opposing # None =>
      \E p \in P : p.kind = Opposite(kind) /\ p.index < z.known /\ p.level = z.opposing
Backs(z, kind, P) ==
    z.side = Side(kind) /\ DrawnOver(z, kind, P) /\ HasLevel(z, kind, P) /\ AimsAt(z, kind, P)
AllBacked(zones, P) == \A i \in DOMAIN zones : \E kind \in Kinds : Backs(zones[i], kind, P)

\* Every zone stands on pivots of the history.
BackedInv == AllBacked(liquidity.zones, PivotsSoFar(ClusterWidth))

-----------------------------------------------------------------------------
(* Setups.                                                                  *)

\* The gap, which points the way the structure broke.
PassingGap(d, i, shift, o) ==
    /\ LiveGap = GapAt(d, i) /\ GapAt(d, i).state # "FULL"
    /\ Timely(GapAt(d, i), Now) /\ GapAt(d, i) \in GapRecords
    /\ o.direction = d /\ shift.direction = d
    /\ o.known = Max({GapAt(d, i).known, shift.known})

=============================================================================
