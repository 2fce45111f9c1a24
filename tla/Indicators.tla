----------------------------- MODULE Indicators -----------------------------
(***************************************************************************)
(* The SMC and the ICT plugins over one history, and what they must answer *)
(* told from that history without a loop.                                  *)
(***************************************************************************)
EXTENDS SmcStructure, RiskLevels

VARIABLE reported   \* gaps of the evaluation before, their times as positions in this
                    \* window: those of bars that have left it are not positive

vars == <<bars, former, reported, smcVars, ictVars>>

Init ==
    /\ bars = <<>>
    /\ former = <<>>
    /\ reported = <<>>
    /\ SmcInit
    /\ IctInit

NextBar ==
    /\ ReadsBar
    /\ SmcBar
    /\ IctBar
    /\ UNCHANGED reported

Earlier(g, k) == [g EXCEPT !.event = @ - k, !.known = @ - k]

\* Nothing is kept from one evaluation to the next but what was reported.
Slide ==
    /\ \E k \in 1 .. Now :
         /\ WindowMoves(k)
         /\ reported' = [i \in DOMAIN gaps |-> Earlier(gaps[i], k)]
    /\ SmcAnew
    /\ IctAnew

Next == NextBar \/ Slide

Spec == Init /\ [][Next]_vars

-----------------------------------------------------------------------------
(* Pivots and breaks of the SMC plugins.  Bar k marks the bar `size` before *)
(* it when that one exceeds all bars since; a mark turns the leg when the    *)
(* mark before it was of the other kind, the first of all when it is a low.  *)

Exceeds(kind, i, k) ==
    \A j \in i + 1 .. k : Beyond(kind, Extreme(kind, bars[i]), Extreme(kind, bars[j]))
Marks(kind, size) ==
    {k \in size + 1 .. Now :
       /\ Exceeds(kind, k - size, k)
       /\ kind = "LOW" => ~Exceeds("HIGH", k - size, k)}
LastBefore(set, k, default) ==
    LET earlier == {j \in set : j < k}
    IN  IF earlier = {} THEN default ELSE Max(earlier)
Turns(kind, size) ==
    LET marks == [kd \in Kinds |-> Marks(kd, size)]
        last(kd, k) == LastBefore(marks[kd], k, IF kd = "HIGH" THEN 0 ELSE -1)
    IN  {k \in marks[kind] : last(kind, k) < last(Opposite(kind), k)}

LevelAt(kind, size, k) == Extreme(kind, bars[k - size])

\* A turn's level is in force until the next turn of its kind; it is broken by the
\* first close beyond it.
BreakBars(kind, size, turn, turns) ==
    {k \in turn .. Now :
       /\ Beyond(kind, bars[k].close, LevelAt(kind, size, turn))
       /\ ~\E later \in turns : turn < later /\ later <= k}
BreaksOfKind(kind, size) ==
    LET turns == Turns(kind, size)
    IN  {[kind |-> kind, turn |-> turn, at |-> Min(BreakBars(kind, size, turn, turns))] :
           turn \in {t \in turns : BreakBars(kind, size, t, turns) # {}}}
BreaksOf(size) == BreaksOfKind("HIGH", size) \cup BreaksOfKind("LOW", size)

SwingType(kind, turn, turns) ==
    LET before == LastBefore(turns, turn, None)
        further == /\ before # None
                   /\ Beyond(kind, LevelAt(kind, SwingLength, turn),
                             LevelAt(kind, SwingLength, before))
    IN  CASE kind = "HIGH" /\ further -> "HH" [] kind = "HIGH" /\ ~further -> "LH"
          [] kind = "LOW" /\ further -> "LL" [] kind = "LOW" /\ ~further -> "HL"
PivotEvents(kind) ==
    LET turns == Turns(kind, SwingLength)
    IN  {[type |-> SwingType(kind, k, turns), kind |-> kind,
          event |-> k - SwingLength, known |-> k] : k \in turns}

BreakEvents ==
    LET breaks == BreaksOf(SwingLength)
        previous(q) == {p \in breaks : /\ p.at < q.at
                                       /\ ~\E o \in breaks : p.at < o.at /\ o.at < q.at}
        type(q) == IF \E p \in previous(q) : p.kind # q.kind THEN "CHoCH" ELSE "BOS"
    IN  {[type |-> type(q), kind |-> q.kind, event |-> q.at, known |-> q.at] :
           q \in breaks}

EqualTimes(kind) ==
    LET turns == Turns(kind, ConfirmationBars)
        level(k) == LevelAt(kind, ConfirmationBars, k)
    IN  {k \in turns :
           LET before == LastBefore(turns, k, None)
           IN  /\ k >= WarmupBars
               /\ before # None
               /\ Less(Whole(Distance(level(k), level(before))),
                       Times(Threshold, WilderAtr(SubSeq(bars, 1, k), WarmupBars)))}

\* The structure plugins report what their definitions say of the whole window:
\* a pivot for every turn of the leg, named by its predecessor, one break for every
\* pivot whose level a close exceeds while it is in force, a change of character
\* exactly when it breaks against the previous one, and an equal level for every
\* two successive pivots closer than the threshold.  (_swing_events, _equal_events)
PivotsMatchDefinition ==
    LET defined == PivotEvents("HIGH") \cup PivotEvents("LOW") \cup BreakEvents
    IN  /\ {[type |-> e.type, kind |-> e.kind, event |-> e.event,
              known |-> e.known] : e \in Range(swing.events)} = defined
        /\ Len(swing.events) = Cardinality(defined)
        /\ \A i, j \in DOMAIN swing.events :
             i < j => swing.events[i].known <= swing.events[j].known
        /\ \A kind \in Kinds :
             {e.known : e \in {o \in Range(equals.events) :
                               o.direction = Upward(Opposite(kind))}}
               = EqualTimes(kind)

-----------------------------------------------------------------------------
(* Order blocks.                                                            *)

UnmitigatedUntil(block, k) ==
    \A j \in block.event .. k : ~Mitigates(block, bars[j])

\* Blocks of later breaks that live at bar k.
NewerAt(made, block, k) ==
    {n \in made : /\ block.event < n.event /\ n.event <= k
                  /\ UnmitigatedUntil(n, k)}

BlockOf(break) ==
    LET span == break.turn - BlockSize .. break.at - 1
        against == Opposite(break.kind)
        furthest == {i \in span : \A j \in span :
                       ~Beyond(against, Parsed(against, bars, j),
                               Parsed(against, bars, i))}
        source == Min(furthest)
    IN  [upper |-> Parsed("HIGH", bars, source), lower |-> Parsed("LOW", bars, source),
         direction |-> Upward(break.kind), event |-> break.at, source |-> source]

\* A block is active as long as no bar from its break on has gone through its far
\* side and there were never `maximum_blocks` newer ones alive at once; its source
\* is the first bar between pivot and break that reaches furthest against the
\* break, volatile bars turned around.  (_active_order_blocks)
BlocksMatchDefinition ==
    LET made == {BlockOf(q) : q \in BreaksOf(BlockSize)}
        active == {p \in made :
                     /\ UnmitigatedUntil(p, Now)
                     /\ \A k \in p.event .. Now :
                          Cardinality(NewerAt(made, p, k)) < MaximumBlocks}
    IN  /\ Range(blocks.active) = active
        /\ \A i, j \in DOMAIN blocks.active :
             i < j => blocks.active[i].event > blocks.active[j].event

-----------------------------------------------------------------------------
(* The zigzag and the breaks of the market structure.                       *)

PivotsSoFar(width) ==
    LET found == {p \in Kinds \X (1 .. Now) : IsPivot(p[1], SubSeq(bars, 1, p[2]), width)}
    IN  {NewPoint(p[1], SubSeq(bars, 1, p[2])) : p \in found}
Precedes(p, q) ==
    p.index < q.index \/ (p.index = q.index /\ p.kind = "HIGH" /\ q.kind = "LOW")
SameLeg(pivots, p, q) ==
    /\ p.kind = q.kind
    /\ ~\E o \in pivots : /\ o.kind # p.kind
                          /\ \/ Precedes(p, o) /\ Precedes(o, q)
                             \/ Precedes(q, o) /\ Precedes(o, p)
Outdoes(p, q) ==
    Beyond(p.kind, p.level, q.level) \/ (p.level = q.level /\ Precedes(p, q))
Zigzag(pivots) ==
    {p \in pivots : \A q \in pivots \ {p} : SameLeg(pivots, p, q) => Outdoes(p, q)}

LatestBefore(events, i, type, kind) ==
    LET earlier == {j \in 1 .. i - 1 : events[j].type = type /\ events[j].kind = kind}
    IN  IF earlier = {} THEN None ELSE events[Max(earlier)].level

\* Every leg of pivots is one point of the zigzag, at the first of its most extreme
\* ones.  Shifts alternate, a break of structure continues the shift before it at
\* a level not used since, and a close beyond the selected level is never passed
\* over: it has its event.  (_update_zigzag, _market_events)
BreaksFollowTrend ==
    LET events == structure.events
        shifts == {i \in DOMAIN events : events[i].type = "MSS"}
    IN  /\ Range(structure.points) = Zigzag(PivotsSoFar(StructureWidth))
        /\ Range(liquidity.points) = Zigzag(PivotsSoFar(ClusterWidth))
        /\ \A i \in 1 .. Len(structure.points) - 1 :
             Precedes(structure.points[i + 1], structure.points[i])
        /\ \A i, j \in shifts :
             i < j /\ ~(\E m \in shifts : i < m /\ m < j) => events[i].kind # events[j].kind
        /\ \A i \in DOMAIN events :
             /\ Beyond(events[i].kind, bars[events[i].event].close, events[i].level)
             /\ \E k \in 1 .. events[i].event - 2 :
                  events[i].level = Extreme(events[i].kind, bars[k])
             /\ events[i].type = "BOS" =>
                  /\ events[i - 1].kind = events[i].kind
                  /\ \A type \in {"MSS", "BOS"} :
                       events[i].level
                         # LatestBefore(events, i, type, events[i].kind)
        /\ \A kind \in Kinds :
             LET point == Selected(structure.points, kind)
             IN  point # None /\ Beyond(kind, bars[Now].close, point.level) =>
                   /\ events # <<>>
                   /\ events[Len(events)].kind = kind
                        \/ events[Len(events)].event = Now

-----------------------------------------------------------------------------
(* Fair value gaps.                                                         *)

GapBars(direction) == {i \in 3 .. Now : MakesGap(direction, bars, i)}

\* The last bar of every run of gap bars.
GapEnds(direction) == {i \in GapBars(direction) : i + 1 \notin GapBars(direction)}

Reached(direction, i, level) ==
    {k \in i + 1 .. Now : IF direction = "BULLISH" THEN bars[k].low < level
                          ELSE bars[k].high > level}

GapAt(direction, i) ==
    LET gap == Gap(direction, SubSeq(bars, 1, i))
        near == Reached(direction, i, IF direction = "BULLISH" THEN gap.upper
                                      ELSE gap.lower)
        far == Reached(direction, i, IF direction = "BULLISH" THEN gap.lower
                                     ELSE gap.upper)
    IN  [gap EXCEPT
           !.state = IF far # {} THEN "FULL"
                     ELSE IF near # {} THEN "PARTIAL" ELSE "ACTIVE",
           !.known = IF far # {} THEN Min(far)
                     ELSE IF near # {} THEN Min(near) ELSE i]

\* Successive gap bars of a direction are one gap, that of the last of them, and
\* its state and the time it is known are told by the bars after it alone.
\* (_active_gaps)
GapsMatchDefinition ==
    /\ Range(gaps) = UNION {{GapAt(d, i) : i \in GapEnds(d)} : d \in Directions}
    /\ \A i, j \in DOMAIN gaps : i < j => gaps[i].event >= gaps[j].event

\* Bars before which a window cannot tell a gap, for want of earlier ones.
Reach == IF NeedsDisplacement THEN Max({3, DisplacementLength + 1}) ELSE 3

\* The window moves on, but a gap is an event of the market and stays: what the scan
\* of this window finds among the bars of the evaluation before was reported then, at
\* the same time and in the same words, and what was reported then it finds again,
\* as it was, filled since or moved on by the bars that closed since, unless
\* the bars that made it have left the window.  (runtime 222, _active_gaps)
GapsOutliveTheWindow ==
    Now >= Len(former) =>
      /\ \A g \in Range(gaps) : g \in Range(reported) \/ g.known > Len(former)
      /\ \A o \in Range(reported) :
           o.event >= Reach =>
             \E g \in Range(gaps) :
               /\ g.direction = o.direction
               /\ \/ g = o
                  \/ g.known > Len(former) /\ g.event = o.event
                  \/ o.event = Len(former) /\ g.event > o.event

-----------------------------------------------------------------------------
\* A zone tells its sweep: fully swept by the first close beyond its far edge since
\* it was last drawn, with the extreme of that bar, and otherwise by none; and of two
\* successive zones of a side with the same oldest pivot the older one was fully swept
\* before the other was drawn.  (_liquidity_zones)
ZonesTellTheirSweep ==
    \A i \in DOMAIN liquidity.zones :
        LET z == liquidity.zones[i]
            closes == {k \in z.event + 1 .. Now : ReachesFar(z, bars[k])}
        IN  /\ z.state = "FULL" <=> closes # {}
            /\ z.state = "FULL" =>
                 /\ z.known = Min(closes)
                 /\ z.swept = IF z.side = "BUYSIDE" THEN bars[z.known].high
                              ELSE bars[z.known].low
            /\ \A j \in i + 1 .. Len(liquidity.zones) :
                 LET older == liquidity.zones[j]
                 IN  /\ older.side = z.side /\ older.anchor = z.anchor
                     /\ \A m \in i + 1 .. j - 1 : liquidity.zones[m].side # z.side
                     => older.state = "FULL" /\ older.known <= z.event

-----------------------------------------------------------------------------
\* What a dependency may have answered.
Possible ==
    {Observed("UNAVAILABLE", "UNAVAILABLE"), Observed("FAIL", "NO_EVENT")}
    \cup {[Observed("FAIL", "FAILED_DEPENDENCY") EXCEPT !.event = 1, !.known = Now]}
    \cup {Evidence("ANY", d, 1, k, "ANY") : d \in Directions, k \in {1, Now}}

\* Every answer is closed: a dependency that does not pass makes its dependants
\* fail or unavailable as well, with its own times, and one that passes has an event
\* not later than it is known, known not later than now and not before the
\* evidence it rests on is known.
EvidenceIsKnown ==
    \A d \in Possible :
        \A o \in {EqualObservation(d), BlockObservation(d), LiquidityObservation(d),
                  StructureObservation(d), GapObservation(d), SwingObservation} :
            /\ o.status = "PASS" => /\ o.event <= o.known /\ o.known <= Now
                                    /\ o # SwingObservation => d.status = "PASS"
            /\ o.status = "FAIL" /\ o.event # None =>
                 d.status = "FAIL" /\ o.event = d.event /\ o.known = d.known
            /\ o.status = "PASS" /\ o = GapObservation(d) =>
                 d.known <= o.known /\ d.direction = o.direction

-----------------------------------------------------------------------------
\* What stands behind a trade: enough pivots that one close left behind, and a level
\* on their other side that was known by then.
IsSweep(kind, k, target) ==
    LET swept == {p \in PivotsSoFar(ClusterWidth) :
                    /\ p.kind = kind /\ p.index < k
                    /\ Beyond(kind, bars[k].close, p.level)}
    IN  /\ Cardinality(swept) >= MinimumPivots
        /\ \E p \in PivotsSoFar(ClusterWidth) :
             p.kind = Opposite(kind) /\ p.index < k /\ Whole(p.level) = target

\* A setup is in order: its levels lie on the sides they must, the stop behind the
\* extreme of a bar that swept a cluster, the target at a pivot of the other side,
\* the entry in the middle of a gap that is still open and points the way of the last
\* break that is emitted; and it rests on news from after the sweep, which is the
\* break, the gap or its first touch.  (RiskLevelsPlugin, GapObservation)
SetupIsInOrder ==
    \A equal \in Possible : \A sweep \in {LiquidityObservation(equal)} :
      \A gapFound \in {GapObservation(StructureObservation(sweep))} :
      \A o \in {RiskObservation(sweep, gapFound)} :
        o.status = "PASS" =>
          LET levels == LevelsOf(o.direction)
              kind == IF o.direction = "LONG" THEN "LOW" ELSE "HIGH"
              way == Upward(Opposite(kind))
              emitted == {i \in DOMAIN structure.events : Emits(structure.events[i])}
              last == structure.events[Max(emitted)]
              below(p, q) == IF kind = "LOW" THEN Less(p, q) ELSE Less(q, p)
          IN  /\ equal.status = "PASS"
              /\ below(levels.stop, levels.entry) /\ below(levels.entry, levels.target)
              /\ ~Less(levels.reward, Times(MinimumReward, levels.risk))
              /\ Upward(last.kind) = way
              /\ \E i \in GapEnds(way), k \in 1 .. Now :
                   LET gap == GapAt(way, i)
                   IN  /\ gap.state # "FULL"
                       /\ levels.entry = [num |-> gap.lower + gap.upper, den |-> 2]
                       /\ IsSweep(kind, k, levels.target)
                       /\ below(levels.stop, Whole(Extreme(kind, bars[k])))
                       /\ k < last.event \/ k < gap.known
=============================================================================
