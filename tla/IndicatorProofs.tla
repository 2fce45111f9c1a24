--------------------------- MODULE IndicatorProofs ---------------------------
(***************************************************************************)
(* Proofs about the scans of the indicators, for every history of candles  *)
(* and every configuration: what each list keeps is what its definition    *)
(* over the whole window selects.                                          *)
(***************************************************************************)
EXTENDS IndicatorInvariant

-----------------------------------------------------------------------------
(* A history that has grown by a bar.                                       *)

LEMMA Grows ==
    ASSUME BarsOK, ReadsBar
    PROVE  /\ Now \in Nat /\ Now' = Now + 1 /\ Now = Len(bars)
           /\ bars' \in Seq(Candles) /\ BarsOK'
           /\ \A i \in 1 .. Now : bars[i] \in Candles /\ bars'[i] = bars[i]
           /\ bars'[Now + 1] \in Candles
<1>1. PICK c \in Candles : bars' = Append(bars, c) /\ former' = former
  BY DEF ReadsBar
<1>2. QED BY <1>1 DEF BarsOK, Now

LEMMA AtFirst == Init => Unread
<1>1. <<>> \in Seq(Candles)
  OBVIOUS
<1>2. QED BY <1>1 DEF Init, Unread

\* The scan of a window that has moved on begins as the first one did.
LEMMA Restarts ==
    ASSUME BarsOK, Slide
    PROVE  Unread' /\ BarsOK'
<1>1. PICK k \in 1 .. Now : bars' = <<>> /\ former' = SubSeq(bars, k + 1, Now)
  BY DEF Slide, WindowMoves
<1>2. former' \in Seq(Candles)
  <2>1. Now \in Nat /\ \A i \in k + 1 .. Now : bars[i] \in Candles
    BY <1>1 DEF BarsOK, Now
  <2>2. QED BY <1>1, <2>1, SubSeqProperties
<1>3. SmcInit' /\ IctInit'
  BY DEF Slide, SmcAnew, IctAnew, SmcInit, IctInit
<1>4. QED BY <1>1, <1>2, <1>3 DEF Unread, BarsOK

\* What was seen of the history is still seen of it.
LEMMA SeenAgain ==
    ASSUME BarsOK, ReadsBar, NEW k \in Nat \ {0}, NEW i \in 0 .. Now
    PROVE  SubSeq(bars', k, i) = SubSeq(bars, k, i)
<1>1. /\ Now \in Nat
      /\ \A j \in 1 .. Now : bars[j] \in Candles /\ bars'[j] = bars[j]
  BY Grows
<1>2. \A j \in k .. i : j \in 1 .. Now
  BY <1>1
<1>3. /\ SubSeq(bars, k, i) \in Seq(Candles)
      /\ Len(SubSeq(bars, k, i)) = IF k <= i THEN i - k + 1 ELSE 0
      /\ \A j \in 1 .. i - k + 1 : SubSeq(bars, k, i)[j] = bars[k + j - 1]
  BY <1>1, <1>2, SubSeqProperties
<1>4. /\ SubSeq(bars', k, i) \in Seq(Candles)
      /\ Len(SubSeq(bars', k, i)) = IF k <= i THEN i - k + 1 ELSE 0
      /\ \A j \in 1 .. i - k + 1 : SubSeq(bars', k, i)[j] = bars'[k + j - 1]
  BY <1>1, <1>2, SubSeqProperties
<1>5. ASSUME NEW j \in 1 .. Len(SubSeq(bars, k, i))
      PROVE  SubSeq(bars, k, i)[j] = SubSeq(bars', k, i)[j]
  BY <1>1, <1>3, <1>2, <1>4
<1>6. QED BY <1>3, <1>4, <1>5, SeqEqual

LEMMA CandleIs ==
    ASSUME NEW c \in Candles
    PROVE  /\ c \in [open : Nat, high : Nat, low : Nat, close : Nat]
           /\ c.low \in Nat /\ c.high \in Nat /\ c.low <= c.high
<1>1. /\ c \in [open : Nat, high : Nat, low : Nat, close : Nat]
      /\ c.low <= c.open /\ c.open <= c.high
  BY CandlesAssumption
<1>2. c.low \in Nat /\ c.high \in Nat /\ c.open \in Nat
  BY <1>1
<1>3. QED BY <1>1, <1>2

-----------------------------------------------------------------------------
(* Fair value gaps.                                                         *)

\* Whether a bar made a gap does not depend on later bars.
LEMMA GapsStay ==
    ASSUME BarsOK, ReadsBar, NEW d \in Directions, NEW i \in 1 .. Now
    PROVE  /\ MakesGap(d, bars', i) = MakesGap(d, bars, i)
           /\ i > 2 => Gap(d, SubSeq(bars', 1, i)) = Gap(d, SubSeq(bars, 1, i))
<1>1. /\ Now \in Nat
      /\ \A j \in 1 .. Now : bars[j] \in Candles /\ bars'[j] = bars[j]
  BY Grows
<1>2. SubSeq(bars', 1, i) = SubSeq(bars, 1, i)
  BY <1>1, SeenAgain
<1>3. ASSUME i > 2
      PROVE  Displaces(d, bars', i - 1) = Displaces(d, bars, i - 1)
  <2>1. i - 1 \in 1 .. Now /\ bars'[i - 1] = bars[i - 1]
    BY <1>1, <1>3
  <2>2. ASSUME ~(i - 1 < DisplacementLength)
        PROVE  SubSeq(bars', i - 1 - DisplacementLength + 1, i - 1)
                 = SubSeq(bars, i - 1 - DisplacementLength + 1, i - 1)
    <3>1. i - 1 - DisplacementLength + 1 \in Nat \ {0} /\ i - 1 \in 0 .. Now
      BY <1>1, <1>3, <2>2, IctAssumption
    <3>2. QED BY <3>1, SeenAgain
  <2>3. MeanBody(bars', i - 1, DisplacementLength)
          = MeanBody(bars, i - 1, DisplacementLength)
    BY <2>2 DEF MeanBody
  <2>4. QED BY <2>1, <2>3 DEF Displaces
<1>4. QED
  <2>1. CASE ~(i > 2)
    BY <2>1 DEF MakesGap
  <2>2. CASE i > 2
    <3>1. bars'[i] = bars[i] /\ bars'[i - 2] = bars[i - 2]
      BY <1>1, <2>2
    <3>2. QED BY <1>2, <1>3, <2>2, <3>1 DEF MakesGap
  <2>3. QED BY <2>1, <2>2

\* No bar leaves the one before the last behind on both sides.
LEMMA OneWay ==
    ASSUME NEW b \in Seq(Candles), NEW i \in 1 .. Len(b),
           MakesGap("BULLISH", b, i), MakesGap("BEARISH", b, i)
    PROVE  FALSE
<1>1. i > 2 /\ b[i].low > b[i - 2].high /\ b[i].high < b[i - 2].low
  BY DEF MakesGap
<1>2. b[i] \in Candles /\ b[i - 2] \in Candles
  BY <1>1
<1>3. /\ b[i].low \in Nat /\ b[i].high \in Nat /\ b[i].low <= b[i].high
      /\ b[i - 2].low \in Nat /\ b[i - 2].high \in Nat /\ b[i - 2].low <= b[i - 2].high
  BY <1>2, CandleIs
<1>4. QED BY <1>1, <1>3

LEMMA GapIs ==
    ASSUME NEW b \in Seq(Candles), Len(b) > 2, NEW d \in Directions
    PROVE  /\ Gap(d, b) \in GapRecords
           /\ Gap(d, b).direction = d /\ Gap(d, b).state = "ACTIVE"
           /\ Gap(d, b).event = Len(b) /\ Gap(d, b).known = Len(b)
<1>1. /\ b[Len(b)].low \in Nat /\ b[Len(b)].high \in Nat
      /\ b[Len(b) - 2].low \in Nat /\ b[Len(b) - 2].high \in Nat
  <2>1. b[Len(b)] \in Candles /\ b[Len(b) - 2] \in Candles
    OBVIOUS
  <2>2. QED BY <2>1, CandleIs
<1>2. QED BY <1>1 DEF Gap, GapRecords

LEMMA LastWordCounts ==
    ASSUME NEW g \in GapRecords, NEW s, NEW k, NEW t, NEW m
    PROVE  [[g EXCEPT !.state = s, !.known = k] EXCEPT !.state = t, !.known = m]
             = [g EXCEPT !.state = t, !.known = m]
<1> PICK a, b, c, d, e, f :
      g = [direction |-> a, event |-> b, known |-> c, lower |-> d, upper |-> e, state |-> f]
  BY DEF GapRecords
<1> QED OBVIOUS

LEMMA ReachedGrows ==
    ASSUME BarsOK, ReadsBar, NEW d \in Directions, NEW i \in 3 .. Now, NEW level
    PROVE  /\ Reached(d, i, level) \subseteq 1 .. Now
           /\ Reached(d, i, level)' =
                Reached(d, i, level)
                  \cup (IF Reaches(d, bars'[Now + 1], level) THEN {Now + 1} ELSE {})
<1>1. /\ Now \in Nat /\ Now' = Now + 1
      /\ \A j \in 1 .. Now : bars'[j] = bars[j]
  BY Grows
<1>2. Reached(d, i, level) = {k \in i + 1 .. Now : Reaches(d, bars[k], level)}
  BY DEF Reached, Reaches
<1>3. Reached(d, i, level)' = {k \in i + 1 .. Now + 1 : Reaches(d, bars'[k], level)}
  BY <1>1 DEF Reached, Reaches
<1>4. \A k \in i + 1 .. Now + 1 : k = Now + 1 \/ (k \in i + 1 .. Now /\ bars'[k] = bars[k])
  BY <1>1
<1>5. \A k \in i + 1 .. Now : k \in i + 1 .. Now + 1 /\ bars'[k] = bars[k]
  BY <1>1
<1>6. Now + 1 \in i + 1 .. Now + 1
  BY <1>1
<1>7. QED BY <1>1, <1>2, <1>3, <1>4, <1>5, <1>6

-----------------------------------------------------------------------------
\* A bar touches a gap as its definition says.
LEMMA TouchedIs ==
    ASSUME BarsOK, ReadsBar, NEW d \in Directions, NEW i \in 3 .. Now
    PROVE  Touched(GapAt(d, i), bars') = GapAt(d, i)'
<1> DEFINE g == Gap(d, SubSeq(bars, 1, i))
           nearLevel == IF d = "BULLISH" THEN g.upper ELSE g.lower
           farLevel == IF d = "BULLISH" THEN g.lower ELSE g.upper
           near == Reached(d, i, nearLevel)
           far == Reached(d, i, farLevel)
           c == bars'[Now + 1]
<1>1. /\ Now \in Nat /\ Now' = Now + 1 /\ Len(bars') = Now + 1
      /\ \A j \in 1 .. Now : bars[j] \in Candles
  BY Grows DEF Now
<1>2. Gap(d, SubSeq(bars', 1, i)) = g
  BY <1>1, GapsStay
<1>3. /\ g \in GapRecords /\ g.direction = d /\ g.state = "ACTIVE"
      /\ g.event = i /\ g.known = i
  <2>1. SubSeq(bars, 1, i) \in Seq(Candles) /\ Len(SubSeq(bars, 1, i)) = i
    BY <1>1, SubSeqProperties
  <2>2. Len(SubSeq(bars, 1, i)) > 2 /\ d \in Directions
    BY <2>1
  <2> HIDE DEF nearLevel, farLevel, near, far, c
  <2>3. QED BY <2>1, <2>2, GapIs
<1>4. GapAt(d, i) =
        [g EXCEPT !.state = IF far # {} THEN "FULL"
                            ELSE IF near # {} THEN "PARTIAL" ELSE "ACTIVE",
                  !.known = IF far # {} THEN Min(far)
                            ELSE IF near # {} THEN Min(near) ELSE i]
  BY DEF GapAt
<1> DEFINE hitsNear == Reaches(d, c, nearLevel)
           hitsFar == Reaches(d, c, farLevel)
           near2 == near \cup (IF hitsNear THEN {Now + 1} ELSE {})
           far2 == far \cup (IF hitsFar THEN {Now + 1} ELSE {})
<1>5. GapAt(d, i)' =
        [g EXCEPT !.state = IF far2 # {} THEN "FULL"
                            ELSE IF near2 # {} THEN "PARTIAL" ELSE "ACTIVE",
                  !.known = IF far2 # {} THEN Min(far2)
                            ELSE IF near2 # {} THEN Min(near2) ELSE i]
  <2> HIDE DEF c
  <2>1. PICK x, y : x = nearLevel /\ y = farLevel
    OBVIOUS
  <2>2. /\ Reached(d, i, x)' = Reached(d, i, x) \cup (IF Reaches(d, c, x) THEN {Now + 1} ELSE {})
        /\ Reached(d, i, y)' = Reached(d, i, y) \cup (IF Reaches(d, c, y) THEN {Now + 1} ELSE {})
    BY ReachedGrows DEF c
  <2>3. Reached(d, i, x)' = near2 /\ Reached(d, i, y)' = far2
    BY <2>1, <2>2
  <2>4. GapAt(d, i)' =
          [g EXCEPT !.state = IF Reached(d, i, y)' # {} THEN "FULL"
                              ELSE IF Reached(d, i, x)' # {} THEN "PARTIAL" ELSE "ACTIVE",
                    !.known = IF Reached(d, i, y)' # {} THEN Min(Reached(d, i, y)')
                              ELSE IF Reached(d, i, x)' # {} THEN Min(Reached(d, i, x)')
                              ELSE i]
    <3>1. PICK h : h = g
      OBVIOUS
    <3>2. Gap(d, SubSeq(bars', 1, i)) = h
      BY <1>2, <3>1
    <3>3. x = IF d = "BULLISH" THEN h.upper ELSE h.lower
      BY <2>1, <3>1
    <3>4. y = IF d = "BULLISH" THEN h.lower ELSE h.upper
      BY <2>1, <3>1
    <3> HIDE DEF g, nearLevel, farLevel, near, far, near2, far2, hitsNear, hitsFar
    <3>5. QED BY <3>1, <3>2, <3>3, <3>4 DEF GapAt
  <2> HIDE DEF g, nearLevel, farLevel, near2, far2
  <2>5. QED BY <2>3, <2>4
<1>6. near \subseteq 1 .. Now /\ far \subseteq 1 .. Now
  BY ReachedGrows
<1>7. FallsThrough(GapAt(d, i), c) = hitsFar /\ FallsInto(GapAt(d, i), c) = hitsNear
  <2> HIDE DEF near, far, c
  <2>1. GapAt(d, i).direction = d /\ GapAt(d, i).lower = g.lower /\ GapAt(d, i).upper = g.upper
    <3> HIDE DEF g
    <3>1. QED BY <1>3, <1>4 DEF GapRecords
  <2> HIDE DEF g
  <2>2. QED BY <2>1 DEF FallsThrough, FallsInto, Reaches, Directions
<1> HIDE DEF g, near, far, hitsNear, hitsFar, c
<1>8. bars'[Len(bars')] = c /\ Len(bars') = Now + 1
  BY <1>1 DEF c
<1>9a. ASSUME NEW t, NEW m
       PROVE  [GapAt(d, i) EXCEPT !.state = t, !.known = m] = [g EXCEPT !.state = t, !.known = m]
  <2>1. PICK state, known : GapAt(d, i) = [g EXCEPT !.state = state, !.known = known]
    BY <1>4
  <2>2. PICK h \in GapRecords : h = g
    BY <1>3
  <2>3. [[h EXCEPT !.state = state, !.known = known] EXCEPT !.state = t, !.known = m]
          = [h EXCEPT !.state = t, !.known = m]
    BY LastWordCounts
  <2>4. QED BY <2>1, <2>2, <2>3
<1>9. CASE far # {}
  <2>1. far \in SUBSET Nat /\ Now + 1 \in Nat /\ \A t \in far : t <= Now + 1
    BY <1>1, <1>6
  <2>2. Min(far \cup {Now + 1}) = Min(far)
    BY <1>9, <2>1, MinStays
  <2>3. Min(far2) = Min(far) /\ far2 # {}
    BY <1>9, <2>2
  <2> HIDE DEF far2, near2
  <2>4. GapAt(d, i)' = GapAt(d, i)
    BY <1>4, <1>5, <1>9, <2>3
  <2>5. GapAt(d, i).state = "FULL"
    BY <1>3, <1>4, <1>9 DEF GapRecords
  <2>6. QED BY <2>4, <2>5 DEF Touched
<1>10. CASE far = {} /\ hitsFar
  <2>1. far2 = {Now + 1} /\ Min({Now + 1}) = Now + 1
    BY <1>1, <1>10, MinOfOne
  <2> HIDE DEF far2, near2
  <2>2. GapAt(d, i)' = [g EXCEPT !.state = "FULL", !.known = Now + 1]
    BY <1>5, <2>1
  <2>3. GapAt(d, i).state # "FULL"
    BY <1>3, <1>4, <1>10 DEF GapRecords
  <2>4. Touched(GapAt(d, i), bars')
          = [GapAt(d, i) EXCEPT !.state = "FULL", !.known = Now + 1]
    BY <1>7, <1>8, <1>10, <2>3 DEF Touched
  <2>5. QED BY <1>9a, <2>2, <2>4
<1>11. CASE far = {} /\ ~hitsFar /\ near # {}
  <2>1. near \in SUBSET Nat /\ Now + 1 \in Nat /\ \A t \in near : t <= Now + 1
    BY <1>1, <1>6
  <2>2. Min(near \cup {Now + 1}) = Min(near)
    BY <1>11, <2>1, MinStays
  <2>3. Min(near2) = Min(near) /\ near2 # {} /\ far2 = {}
    BY <1>11, <2>2
  <2> HIDE DEF far2, near2
  <2>4. GapAt(d, i)' = GapAt(d, i)
    BY <1>4, <1>5, <1>11, <2>3
  <2>5. GapAt(d, i).state = "PARTIAL"
    BY <1>3, <1>4, <1>11 DEF GapRecords
  <2>6. QED BY <1>7, <1>8, <1>11, <2>4, <2>5 DEF Touched
<1>12. CASE far = {} /\ ~hitsFar /\ near = {} /\ hitsNear
  <2>1. near2 = {Now + 1} /\ Min({Now + 1}) = Now + 1 /\ far2 = {}
    BY <1>1, <1>12, MinOfOne
  <2> HIDE DEF far2, near2
  <2>2. GapAt(d, i)' = [g EXCEPT !.state = "PARTIAL", !.known = Now + 1]
    BY <1>5, <2>1
  <2>3. GapAt(d, i).state = "ACTIVE"
    BY <1>3, <1>4, <1>12 DEF GapRecords
  <2>4. Touched(GapAt(d, i), bars')
          = [GapAt(d, i) EXCEPT !.state = "PARTIAL", !.known = Now + 1]
    BY <1>7, <1>8, <1>12, <2>3 DEF Touched
  <2>5. QED BY <1>9a, <2>2, <2>4
<1>13. CASE far = {} /\ ~hitsFar /\ near = {} /\ ~hitsNear
  <2>1. near2 = {} /\ far2 = {}
    BY <1>13
  <2> HIDE DEF far2, near2
  <2>2. GapAt(d, i)' = GapAt(d, i)
    BY <1>4, <1>5, <1>13, <2>1
  <2>3. GapAt(d, i).state = "ACTIVE"
    BY <1>3, <1>4, <1>13 DEF GapRecords
  <2>4. QED BY <1>7, <1>8, <1>13, <2>2, <2>3 DEF Touched
<1>14. QED BY <1>9, <1>10, <1>11, <1>12, <1>13

LEMMA GapAtIs ==
    ASSUME BarsOK, NEW d \in Directions, NEW i \in 3 .. Now
    PROVE  /\ GapAt(d, i) \in GapRecords
           /\ GapAt(d, i).event = i /\ GapAt(d, i).direction = d
           /\ i = Now => GapAt(d, i).state = "ACTIVE"
<1> DEFINE g == Gap(d, SubSeq(bars, 1, i))
           near == Reached(d, i, IF d = "BULLISH" THEN g.upper ELSE g.lower)
           far == Reached(d, i, IF d = "BULLISH" THEN g.lower ELSE g.upper)
<1>1. Now \in Nat /\ \A j \in 1 .. Now : bars[j] \in Candles
  BY DEF BarsOK, Now
<1>2. /\ g \in GapRecords /\ g.direction = d /\ g.state = "ACTIVE"
      /\ g.event = i /\ g.known = i
  <2>1. SubSeq(bars, 1, i) \in Seq(Candles) /\ Len(SubSeq(bars, 1, i)) = i
    BY <1>1, SubSeqProperties
  <2>2. Len(SubSeq(bars, 1, i)) > 2 /\ d \in Directions
    BY <2>1
  <2> HIDE DEF near, far
  <2>3. QED BY <2>1, <2>2, GapIs
<1>3. near \subseteq i + 1 .. Now /\ far \subseteq i + 1 .. Now
  BY DEF Reached
<1>4. GapAt(d, i) =
        [g EXCEPT !.state = IF far # {} THEN "FULL"
                            ELSE IF near # {} THEN "PARTIAL" ELSE "ACTIVE",
                  !.known = IF far # {} THEN Min(far)
                            ELSE IF near # {} THEN Min(near) ELSE i]
  BY DEF GapAt
<1> HIDE DEF g, near, far
<1>5. near \in SUBSET Nat /\ far \in SUBSET Nat
  BY <1>1, <1>3
<1>6. (far # {} => Min(far) \in Nat) /\ (near # {} => Min(near) \in Nat)
  BY <1>5, MinIsLeast
<1>7. i = Now => near = {} /\ far = {}
  BY <1>1, <1>3
<1>8. QED BY <1>2, <1>4, <1>6, <1>7 DEF GapRecords

\* The bar that makes a gap does not enter it.
LEMMA NewGapIs ==
    ASSUME BarsOK, ReadsBar, NEW d \in Directions, MakesGap(d, bars', Now + 1),
           NEW n, n = Now + 1
    PROVE  /\ Touched(Gap(d, bars'), bars') = GapAt(d, n)'
           /\ Gap(d, bars') \in GapRecords /\ Gap(d, bars').event = Now + 1
           /\ Gap(d, bars').state = "ACTIVE"
<1>1. /\ Now \in Nat /\ Now' = Now + 1 /\ Len(bars') = Now + 1
      /\ bars' \in Seq(Candles)
  BY Grows DEF Now
<1> DEFINE b == bars'
<1>2. n > 2 /\ (IF d = "BULLISH" THEN b[n].low > b[n - 2].high ELSE b[n].high < b[n - 2].low)
  BY DEF MakesGap
<1>3. b[n] \in Candles /\ b[n - 2] \in Candles
  BY <1>1, <1>2
<1>4. b[n].low \in Nat /\ b[n].high \in Nat /\ b[n - 2].low \in Nat /\ b[n - 2].high \in Nat
  BY <1>3, CandleIs
<1>5. Gap(d, b) \in GapRecords /\ Gap(d, b).state = "ACTIVE" /\ Gap(d, b).event = n
      /\ Gap(d, b).known = n
  BY <1>1, <1>2, GapIs
<1>6. /\ Gap(d, b).direction = d
      /\ Gap(d, b).lower = IF d = "BULLISH" THEN b[n - 2].high ELSE b[n].high
      /\ Gap(d, b).upper = IF d = "BULLISH" THEN b[n].low ELSE b[n - 2].low
  BY <1>1 DEF Gap
<1>7. ~FallsThrough(Gap(d, b), b[n]) /\ ~FallsInto(Gap(d, b), b[n])
  BY <1>2, <1>4, <1>6 DEF FallsThrough, FallsInto
<1>8. Touched(Gap(d, b), b) = Gap(d, b)
  BY <1>1, <1>7 DEF Touched
<1>9. SubSeq(b, 1, n) = b
  BY <1>1, SubSeqFull
<1>10. \A level : Reached(d, n, level)' = {}
  BY <1>1 DEF Reached
<1>11. GapAt(d, n)' = [Gap(d, b) EXCEPT !.state = "ACTIVE", !.known = n]
  BY <1>1, <1>9, <1>10 DEF GapAt
<1>12. [Gap(d, b) EXCEPT !.state = "ACTIVE", !.known = n] = Gap(d, b)
  <2> PICK g \in GapRecords : g = Gap(d, b)
    BY <1>5
  <2>1. g.state = "ACTIVE" /\ g.known = n
    BY <1>5
  <2> HIDE DEF b
  <2>2. [g EXCEPT !.state = "ACTIVE", !.known = n] = g
    BY <2>1 DEF GapRecords
  <2>3. QED BY <2>2
<1>13. QED BY <1>5, <1>8, <1>11, <1>12

LEMMA EndsMove ==
    ASSUME BarsOK, ReadsBar, NEW d \in Directions
    PROVE  LET made == MakesGap(d, bars', Now + 1)
           IN  /\ GapEnds(d) \subseteq 3 .. Now
               /\ MakesGap(d, bars, Now) => Now \in GapEnds(d)
               /\ GapEnds(d)' = {i \in GapEnds(d) : ~(made /\ i = Now)}
                                   \cup (IF made THEN {Now + 1} ELSE {})
<1>1. Now \in Nat /\ Now' = Now + 1
  BY Grows
<1>2. \A i \in 1 .. Now : MakesGap(d, bars', i) = MakesGap(d, bars, i)
  BY GapsStay
<1>3. MakesGap(d, bars', Now + 1) => Now + 1 > 2
  BY DEF MakesGap
<1>4. MakesGap(d, bars, Now) => Now > 2
  BY DEF MakesGap
<1> DEFINE made(i) == MakesGap(d, bars, i)
           new == MakesGap(d, bars', Now + 1)
<1>5. GapBars(d) = {i \in 3 .. Now : made(i)}
  BY DEF GapBars
<1>6. GapBars(d)' = {i \in 3 .. Now + 1 : MakesGap(d, bars', i)}
  BY <1>1 DEF GapBars
<1>7. \A i \in 3 .. Now + 1 : i \in 1 .. Now \/ i = Now + 1
  BY <1>1
<1> HIDE DEF made, new
<1>8. GapBars(d)' = GapBars(d) \cup (IF new THEN {Now + 1} ELSE {})
  <2>1. ASSUME NEW i \in GapBars(d)' PROVE i \in GapBars(d) \/ (new /\ i = Now + 1)
    <3>1. CASE i = Now + 1
      BY <1>6, <2>1, <3>1 DEF new
    <3>2. CASE i # Now + 1
      <4>1. i \in 1 .. Now /\ i \in 3 .. Now
        BY <1>1, <1>6, <1>7, <2>1, <3>2
      <4>2. QED BY <1>2, <1>5, <1>6, <2>1, <4>1 DEF made
    <3>3. QED BY <3>1, <3>2
  <2>2. ASSUME NEW i \in GapBars(d) PROVE i \in GapBars(d)'
    BY <1>1, <1>5, <1>2, <1>6 DEF made
  <2>3. new => Now + 1 \in GapBars(d)'
    BY <1>1, <1>3, <1>6 DEF new
  <2>4. QED BY <2>1, <2>2, <2>3
<1>9. GapEnds(d) = {i \in GapBars(d) : i + 1 \notin GapBars(d)}
  BY DEF GapEnds
<1>10. GapEnds(d)' = {i \in GapBars(d)' : i + 1 \notin GapBars(d)'}
  BY DEF GapEnds
<1>11. GapEnds(d) \subseteq 3 .. Now
  BY <1>5, <1>9
<1>12. MakesGap(d, bars, Now) => Now \in GapEnds(d)
  BY <1>1, <1>4, <1>5, <1>9 DEF made
<1>13. \A i \in GapBars(d) : i \in Int /\ i <= Now
  BY <1>5
<1>14. GapEnds(d)' = {i \in GapEnds(d) : ~(new /\ i = Now)}
                       \cup (IF new THEN {Now + 1} ELSE {})
  BY <1>1, <1>13, <1>8, <1>9, <1>10
<1>15. QED BY <1>11, <1>12, <1>14 DEF new

-----------------------------------------------------------------------------
LEMMA DefinedAre ==
    ASSUME BarsOK, NEW g
    PROVE  g \in Defined <=> \E d \in Directions : \E i \in GapEnds(d) : g = GapAt(d, i)
BY DEF Defined

\* A gap that goes on from the bar before is the first of the list.
LEMMA RunningGapIsFirst ==
    ASSUME BarsOK, ReadsBar, GapsInv, NEW d \in inGap
    PROVE  /\ gaps # <<>> /\ gaps[1].event = Now /\ gaps[1].direction = d
           /\ gaps[1].state = "ACTIVE"
           /\ LatestIn(gaps, d) = 1
<1>1. d \in Directions /\ MakesGap(d, bars, Now)
  BY DEF GapsInv
<1>2. Now \in GapEnds(d) /\ Now \in 3 .. Now /\ Now \in Nat
  BY <1>1, EndsMove, Grows
<1>3. GapAt(d, Now) \in Range(gaps)
  BY <1>1, <1>2, DefinedAre DEF GapsInv
<1>4. PICK j \in DOMAIN gaps : gaps[j] = GapAt(d, Now)
  BY <1>3 DEF Range
<1>5. /\ GapAt(d, Now).event = Now /\ GapAt(d, Now).direction = d
      /\ GapAt(d, Now).state = "ACTIVE"
  BY <1>1, <1>2, GapAtIs
<1>6. DOMAIN gaps = 1 .. Len(gaps) /\ Len(gaps) \in Nat
  BY DEF GapsInv
<1>7. gaps[1].event <= Now /\ gaps[1].event \in Nat
  <2>1. gaps[1] \in Defined
    BY <1>4, <1>6 DEF GapsInv, Range
  <2>2. PICK e \in Directions : \E i \in GapEnds(e) : gaps[1] = GapAt(e, i)
    BY <2>1, DefinedAre
  <2> PICK i \in GapEnds(e) : gaps[1] = GapAt(e, i)
    BY <2>2
  <2>3. i \in 3 .. Now
    BY EndsMove
  <2>4. QED BY <1>2, <2>3, GapAtIs
<1>8. j = 1
  <2>1. SUFFICES ASSUME j # 1 PROVE FALSE
    OBVIOUS
  <2>2. 1 \in DOMAIN gaps /\ 1 < j
    BY <1>4, <1>6, <2>1
  <2>3. gaps[1].event > gaps[j].event
    BY <1>4, <2>2 DEF GapsInv
  <2>4. QED BY <1>2, <1>4, <1>5, <1>7, <2>3
<1>9. 1 \in {i \in 1 .. Len(gaps) : gaps[i].direction = d}
  BY <1>4, <1>5, <1>6, <1>8
<1>10. Min({i \in 1 .. Len(gaps) : gaps[i].direction = d}) = 1
  <2> DEFINE S == {i \in 1 .. Len(gaps) : gaps[i].direction = d}
  <2>1. S \in SUBSET Nat /\ 1 \in S /\ \A t \in S : 1 <= t
    BY <1>6, <1>9
  <2> HIDE DEF S
  <2>2. Min(S) \in S /\ \A t \in S : Min(S) <= t
    BY <2>1, MinIsLeast
  <2>3. Min(S) \in Nat /\ 1 <= Min(S) /\ Min(S) <= 1
    BY <2>1, <2>2
  <2>4. Min(S) = 1
    BY <2>3
  <2>5. QED BY <2>4 DEF S
<1>11. LatestIn(gaps, d) = 1
  BY <1>9, <1>10 DEF LatestIn, SelectInSeq
<1>12. QED BY <1>4, <1>5, <1>6, <1>8, <1>11

LEMMA WithGapIs ==
    ASSUME BarsOK, ReadsBar, GapsInv, NEW d \in Directions, MakesGap(d, bars', Now + 1)
    PROVE  LET list == WithGap(gaps, d, bars')
           IN  /\ list \in Seq(GapRecords)
               /\ Range(list) = Before(d) \cup {Gap(d, bars')}
               /\ \A i, j \in DOMAIN list : i < j => list[i].event > list[j].event
<1> DEFINE list == WithGap(gaps, d, bars')
           new == Gap(d, bars')
<1>1. Now \in Nat /\ Len(bars') = Now + 1
  BY Grows DEF Now
<1>2. new \in GapRecords /\ new.event = Now + 1 /\ new.state = "ACTIVE"
  BY <1>1, NewGapIs
<1>3. \A i \in DOMAIN gaps : gaps[i].event \in Nat /\ gaps[i].event <= Now
  <2>1. SUFFICES ASSUME NEW i \in DOMAIN gaps
        PROVE  gaps[i].event \in Nat /\ gaps[i].event <= Now
    OBVIOUS
  <2>2. PICK e \in Directions : \E k \in GapEnds(e) : gaps[i] = GapAt(e, k)
    BY DefinedAre DEF GapsInv, Range
  <2> PICK k \in GapEnds(e) : gaps[i] = GapAt(e, k)
    BY <2>2
  <2>3. k \in 3 .. Now
    BY EndsMove
  <2>4. QED BY <1>1, <2>3, GapAtIs
<1>4. DOMAIN gaps = 1 .. Len(gaps) /\ Len(gaps) \in Nat
  BY DEF GapsInv
<1>5. CASE d \in inGap
  <2>1. /\ gaps # <<>> /\ gaps[1].event = Now /\ gaps[1].state = "ACTIVE"
        /\ LatestIn(gaps, d) = 1
    BY <1>5, RunningGapIsFirst
  <2>2. list = [gaps EXCEPT ![1] = [new EXCEPT !.state = "ACTIVE"]]
    <3>1. PICK b : b = bars'
      OBVIOUS
    <3>2. MakesGap(d, b, Len(b)) /\ Continues(d) /\ LatestIn(gaps, d) = 1
      BY <1>1, <1>5, <2>1, <3>1 DEF Continues
    <3>3. WithGap(gaps, d, b) = [gaps EXCEPT ![1] = [Gap(d, b) EXCEPT !.state = gaps[1].state]]
      BY <3>2 DEF WithGap
    <3>4. QED BY <2>1, <3>1, <3>3
  <2>3. [new EXCEPT !.state = "ACTIVE"] = new
    <3>1. PICK g \in GapRecords : g = new
      BY <1>2
    <3> HIDE DEF new
    <3>2. [g EXCEPT !.state = "ACTIVE"] = g
      BY <1>2, <3>1 DEF GapRecords
    <3>3. QED BY <3>1, <3>2
  <2> HIDE DEF list, new
  <2>4. list = [gaps EXCEPT ![1] = new] /\ 1 \in 1 .. Len(gaps)
    <3>1. Len(gaps) # 0
      BY <2>1 DEF GapsInv
    <3>2. list = [gaps EXCEPT ![1] = new]
      BY <2>2, <2>3
    <3>3. 1 \in 1 .. Len(gaps)
      BY <1>4, <3>1
    <3>4. QED BY <3>2, <3>3
  <2>5. /\ list \in Seq(GapRecords) /\ DOMAIN list = DOMAIN gaps
        /\ \A i \in DOMAIN gaps : list[i] = IF i = 1 THEN new ELSE gaps[i]
    BY <1>2, <1>4, <2>4, ExceptSeq DEF GapsInv
  <2>6. \A i \in DOMAIN gaps : i # 1 => gaps[i].event # Now
    <3>1. SUFFICES ASSUME NEW i \in DOMAIN gaps, i # 1 PROVE gaps[i].event # Now
      OBVIOUS
    <3>2. 1 \in DOMAIN gaps /\ 1 < i
      BY <1>4, <3>1
    <3>3. gaps[1].event > gaps[i].event
      BY <3>2 DEF GapsInv
    <3>4. QED BY <1>1, <2>1, <3>3
  <2>7. Range(list) = Before(d) \cup {new}
    BY <1>5, <2>1, <2>6, <1>4, <2>4, <2>5 DEF Before, Range
  <2>8. ASSUME NEW i \in DOMAIN list, NEW j \in DOMAIN list, i < j
        PROVE  list[i].event > list[j].event
    <3>1. list[j] = gaps[j] /\ j \in DOMAIN gaps /\ i \in DOMAIN gaps
      BY <1>4, <2>5, <2>8
    <3>2. CASE i = 1
      BY <1>1, <1>2, <1>3, <2>5, <3>1, <3>2
    <3>3. CASE i # 1
      BY <2>5, <2>8, <3>1, <3>3 DEF GapsInv
    <3>4. QED BY <3>2, <3>3
  <2>9. QED BY <2>5, <2>7, <2>8 DEF list, new
<1>6. CASE d \notin inGap
  <2>1. list = <<new>> \o gaps
    BY <1>1, <1>6 DEF WithGap, Continues
  <2> HIDE DEF list, new
  <2>2. /\ list \in Seq(GapRecords) /\ Len(list) = Len(gaps) + 1
        /\ list[1] = new /\ \A i \in 1 .. Len(gaps) : list[i + 1] = gaps[i]
    BY <1>2, <1>4, <2>1 DEF GapsInv
  <2>3. DOMAIN list = 1 .. Len(gaps) + 1
    BY <2>2
  <2>4. \A i \in DOMAIN list : i = 1 \/ (i - 1 \in DOMAIN gaps /\ list[i] = gaps[i - 1])
    <3>1. ASSUME NEW i \in DOMAIN list, i # 1
          PROVE  i - 1 \in DOMAIN gaps /\ list[i] = gaps[i - 1]
      BY <1>4, <2>3, <3>1, <2>2
    <3>2. QED BY <3>1
  <2>5. Range(list) = Range(gaps) \cup {new}
    <3>1. \A i \in DOMAIN list : list[i] \in Range(gaps) \cup {new}
      BY <2>2, <2>4 DEF Range
    <3>2. ASSUME NEW i \in DOMAIN gaps PROVE gaps[i] \in Range(list)
      BY <1>4, <2>3, <2>2 DEF Range
    <3>3. 1 \in DOMAIN list
      BY <1>4, <2>3
    <3>4. new \in Range(list)
      BY <2>2, <3>3 DEF Range
    <3>5. QED BY <3>1, <3>2, <3>4 DEF Range
  <2>6. Before(d) = Range(gaps)
    BY <1>6 DEF Before
  <2>7. ASSUME NEW i \in DOMAIN list, NEW j \in DOMAIN list, i < j
        PROVE  list[i].event > list[j].event
    <3>1. j - 1 \in DOMAIN gaps /\ list[j] = gaps[j - 1]
      BY <1>4, <2>3, <2>4, <2>7
    <3>2. CASE i = 1
      BY <1>1, <1>2, <1>3, <2>2, <3>1, <3>2
    <3>3. CASE i # 1
      <4>1. i - 1 \in DOMAIN gaps /\ list[i] = gaps[i - 1]
        BY <2>4, <3>3
      <4>2. i - 1 < j - 1
        BY <2>3, <2>7
      <4>3. QED BY <3>1, <4>1, <4>2 DEF GapsInv
    <3>4. QED BY <3>2, <3>3
  <2>8. QED BY <2>2, <2>5, <2>6, <2>7 DEF list, new
<1>7. QED BY <1>5, <1>6

\* A list of gaps in order, each touched by the bar.
LEMMA FilledIs ==
    ASSUME NEW list \in Seq(GapRecords), NEW b, Len(b) \in Nat
    PROVE  /\ Filled(list, b) \in Seq(GapRecords)
           /\ DOMAIN Filled(list, b) = DOMAIN list
           /\ \A i \in DOMAIN list : /\ Filled(list, b)[i] = Touched(list[i], b)
                                     /\ Filled(list, b)[i].event = list[i].event
<1>1. ASSUME NEW g \in GapRecords
      PROVE  Touched(g, b) \in GapRecords /\ Touched(g, b).event = g.event
  BY DEF Touched, GapRecords
<1>2. DOMAIN list = 1 .. Len(list) /\ Len(list) \in Nat
  OBVIOUS
<1>3. \A i \in DOMAIN list : list[i] \in GapRecords
  OBVIOUS
<1>4. Filled(list, b) = [i \in DOMAIN list |-> Touched(list[i], b)]
  BY DEF Filled
<1>5. Filled(list, b) = [i \in 1 .. Len(list) |-> Touched(list[i], b)]
  BY <1>2, <1>4
<1>6. \A i \in 1 .. Len(list) : Touched(list[i], b) \in GapRecords
  BY <1>1, <1>2, <1>3
<1>7. Filled(list, b) \in Seq(GapRecords)
  BY <1>2, <1>5, <1>6
<1>8. QED BY <1>1, <1>3, <1>4, <1>7

\* The list with the gap of the bar, if it makes one.
LEMMA ListIs ==
    ASSUME BarsOK, ReadsBar, GapsInv
    PROVE  LET list == WithGap(WithGap(gaps, "BULLISH", bars'), "BEARISH", bars')
           IN  /\ list \in Seq(GapRecords)
               /\ \A i, j \in DOMAIN list : i < j => list[i].event > list[j].event
               /\ \A g : g \in Range(list) <=>
                    \/ /\ g \in Range(gaps)
                       /\ \A d \in Directions : MakesGap(d, bars', Now + 1) =>
                            ~(d \in inGap /\ g.event = Now)
                    \/ \E d \in Directions :
                         MakesGap(d, bars', Now + 1) /\ g = Gap(d, bars')
<1> DEFINE up == MakesGap("BULLISH", bars', Now + 1)
           down == MakesGap("BEARISH", bars', Now + 1)
<1>1. Now \in Nat /\ Len(bars') = Now + 1 /\ bars' \in Seq(Candles)
  BY Grows DEF Now
<1>2. ~(up /\ down)
  BY <1>1, OneWay
<1>3. Directions = {"BULLISH", "BEARISH"}
  BY DEF Directions
<1>4. \A list : ~MakesGap("BULLISH", bars', Now + 1) => WithGap(list, "BULLISH", bars') = list
  BY <1>1 DEF WithGap
<1>5. \A list : ~MakesGap("BEARISH", bars', Now + 1) => WithGap(list, "BEARISH", bars') = list
  BY <1>1 DEF WithGap
<1>6. CASE up
  <2>1. /\ WithGap(gaps, "BULLISH", bars') \in Seq(GapRecords)
        /\ Range(WithGap(gaps, "BULLISH", bars')) = Before("BULLISH") \cup {Gap("BULLISH", bars')}
        /\ \A i, j \in DOMAIN WithGap(gaps, "BULLISH", bars') :
             i < j => WithGap(gaps, "BULLISH", bars')[i].event
                        > WithGap(gaps, "BULLISH", bars')[j].event
    BY <1>3, <1>6, WithGapIs
  <2>2. WithGap(WithGap(gaps, "BULLISH", bars'), "BEARISH", bars')
          = WithGap(gaps, "BULLISH", bars')
    BY <1>2, <1>5, <1>6
  <2>3. \A g : g \in Before("BULLISH") <=> g \in Range(gaps) /\ ~("BULLISH" \in inGap /\ g.event = Now)
    BY DEF Before
  <2>4. ~MakesGap("BEARISH", bars', Now + 1)
    BY <1>2, <1>6
  <2>5. QED BY <1>3, <1>6, <2>1, <2>2, <2>3, <2>4
<1>7. CASE down
  <2>1. /\ WithGap(gaps, "BEARISH", bars') \in Seq(GapRecords)
        /\ Range(WithGap(gaps, "BEARISH", bars')) = Before("BEARISH") \cup {Gap("BEARISH", bars')}
        /\ \A i, j \in DOMAIN WithGap(gaps, "BEARISH", bars') :
             i < j => WithGap(gaps, "BEARISH", bars')[i].event
                        > WithGap(gaps, "BEARISH", bars')[j].event
    BY <1>3, <1>7, WithGapIs
  <2>2. WithGap(gaps, "BULLISH", bars') = gaps
    BY <1>2, <1>4, <1>7
  <2>3. \A g : g \in Before("BEARISH") <=> g \in Range(gaps) /\ ~("BEARISH" \in inGap /\ g.event = Now)
    BY DEF Before
  <2>4. ~MakesGap("BULLISH", bars', Now + 1)
    BY <1>2, <1>7
  <2>5. QED BY <1>3, <1>7, <2>1, <2>2, <2>3, <2>4
<1>8. CASE ~up /\ ~down
  BY <1>4, <1>5, <1>8, <1>3 DEF GapsInv
<1>9. QED BY <1>6, <1>7, <1>8

LEMMA GapsStep ==
    ASSUME BarsOK, ReadsBar, GapsInv, GapBar(bars')
    PROVE  GapsInv'
<1> DEFINE list == WithGap(WithGap(gaps, "BULLISH", bars'), "BEARISH", bars')
           made(d) == MakesGap(d, bars', Now + 1)
<1>1. /\ Now \in Nat /\ Now' = Now + 1 /\ Len(bars') = Now + 1
  BY Grows DEF Now
<1>2. /\ list \in Seq(GapRecords)
      /\ \A i, j \in DOMAIN list : i < j => list[i].event > list[j].event
      /\ \A g : g \in Range(list) <=>
           \/ /\ g \in Range(gaps)
              /\ \A d \in Directions : made(d) => ~(d \in inGap /\ g.event = Now)
           \/ \E d \in Directions : made(d) /\ g = Gap(d, bars')
  BY ListIs
<1>3. gaps' = Filled(list, bars') /\ inGap' = {d \in Directions : MakesGap(d, bars', Len(bars'))}
  BY DEF GapBar
<1>4. inGap' = {d \in Directions : MakesGap(d, bars', Now')}
  BY <1>1, <1>3
<1> HIDE DEF list
<1>5. /\ gaps' \in Seq(GapRecords) /\ DOMAIN gaps' = DOMAIN list
      /\ \A i \in DOMAIN list : /\ gaps'[i] = Touched(list[i], bars')
                                /\ gaps'[i].event = list[i].event
  BY <1>1, <1>2, <1>3, FilledIs
<1>6. \A i, j \in DOMAIN gaps' : i < j => gaps'[i].event > gaps'[j].event
  BY <1>2, <1>5
<1>7. \A d \in Directions :
        /\ GapEnds(d) \subseteq 3 .. Now
        /\ MakesGap(d, bars, Now) => Now \in GapEnds(d)
        /\ GapEnds(d)' = {i \in GapEnds(d) : ~(made(d) /\ i = Now)}
                            \cup (IF made(d) THEN {Now + 1} ELSE {})
  BY EndsMove
<1>8. \A d \in Directions : d \in inGap <=> MakesGap(d, bars, Now)
  BY DEF GapsInv
<1>9. ASSUME NEW d \in Directions, made(d), NEW n, n = Now + 1
      PROVE  Touched(Gap(d, bars'), bars') = GapAt(d, n)'
  BY <1>9, NewGapIs
<1>10. ASSUME NEW d \in Directions, NEW i \in GapEnds(d)
       PROVE  /\ Touched(GapAt(d, i), bars') = GapAt(d, i)'
              /\ GapAt(d, i).event = i /\ GapAt(d, i) \in Range(gaps)
              /\ MakesGap(d, bars, i)
  BY <1>7, DefinedAre, TouchedIs, GapAtIs DEF GapsInv, GapEnds, GapBars
<1>11. ASSUME NEW d \in Directions, NEW e \in Directions,
              MakesGap(d, bars, Now), MakesGap(e, bars, Now)
       PROVE  d = e
  BY <1>11, <1>1, OneWay DEF MakesGap, BarsOK, Now, Directions
<1>12. PICK n : n = Now + 1
  OBVIOUS
<1>13. \A x : x \in Defined' <=> \E d \in Directions : \E i \in GapEnds(d)' : x = GapAt(d, i)'
  BY DEF Defined
<1>14. ASSUME NEW x \in Range(list) PROVE Touched(x, bars') \in Defined'
  <2>1. CASE /\ x \in Range(gaps)
             /\ \A d \in Directions : made(d) => ~(d \in inGap /\ x.event = Now)
    <3>1. PICK e \in Directions : \E i \in GapEnds(e) : x = GapAt(e, i)
      BY <2>1, DefinedAre DEF GapsInv
    <3>2. PICK i \in GapEnds(e) : x = GapAt(e, i)
      BY <3>1
    <3>3. x.event = i /\ MakesGap(e, bars, i) /\ Touched(x, bars') = GapAt(e, i)'
      BY <1>10, <3>2
    <3>4. ~(made(e) /\ i = Now)
      BY <1>8, <2>1, <3>3
    <3>5. i \in GapEnds(e)'
      BY <1>7, <3>4
    <3>6. QED BY <1>13, <3>3, <3>5
  <2>2. CASE \E d \in Directions : made(d) /\ x = Gap(d, bars')
    <3>1. PICK d \in Directions : made(d) /\ x = Gap(d, bars')
      BY <2>2
    <3>2. Touched(x, bars') = GapAt(d, n)' /\ n \in GapEnds(d)'
      BY <1>7, <1>9, <1>12, <3>1
    <3>3. QED BY <1>13, <3>2
  <2>3. QED BY <1>2, <2>1, <2>2
<1>15. ASSUME NEW x \in Defined' PROVE \E y \in Range(list) : x = Touched(y, bars')
  <2>1. PICK e \in Directions : \E i \in GapEnds(e)' : x = GapAt(e, i)'
    BY <1>13
  <2>2. PICK i \in GapEnds(e)' : x = GapAt(e, i)'
    BY <2>1
  <2>3. CASE i = Now + 1 /\ made(e)
    BY <1>9, <2>2, <2>3, <1>2
  <2>4. CASE i \in GapEnds(e) /\ ~(made(e) /\ i = Now)
    <3>1. /\ x = Touched(GapAt(e, i), bars') /\ GapAt(e, i) \in Range(gaps)
          /\ GapAt(e, i).event = i /\ MakesGap(e, bars, i)
      BY <1>10, <2>2, <2>4
    <3>2. ASSUME NEW d \in Directions, made(d), d \in inGap, i = Now PROVE FALSE
      <4>1. d = e
        BY <1>8, <1>11, <3>1, <3>2
      <4>2. QED BY <2>4, <3>2, <4>1
    <3>3. GapAt(e, i) \in Range(list)
      BY <1>2, <3>1, <3>2
    <3>4. QED BY <3>1, <3>3
  <2>5. QED BY <1>7, <2>3, <2>4
<1>16. Range(gaps') = Defined'
  <2>1. ASSUME NEW x \in Range(gaps') PROVE x \in Defined'
    <3>1. PICK i \in DOMAIN list : x = Touched(list[i], bars')
      BY <1>5 DEF Range
    <3>2. list[i] \in Range(list)
      BY DEF Range
    <3>3. QED BY <1>14, <3>1, <3>2
  <2>2. ASSUME NEW x \in Defined' PROVE x \in Range(gaps')
    <3>1. PICK y \in Range(list) : x = Touched(y, bars')
      BY <1>15
    <3>2. PICK i \in DOMAIN list : y = list[i]
      BY DEF Range
    <3>3. i \in DOMAIN gaps' /\ gaps'[i] = x
      BY <1>5, <3>1, <3>2
    <3>4. QED BY <3>3 DEF Range
  <2>3. QED BY <2>1, <2>2
<1>17. QED BY <1>4, <1>5, <1>6, <1>16 DEF GapsInv

-----------------------------------------------------------------------------
LEMMA GapsInit ==
    ASSUME Unread
    PROVE  BarsOK /\ GapsInv
<1>1. bars = <<>> /\ gaps = <<>> /\ inGap = {} /\ Now = 0
  BY DEF Unread, IctInit, Now
<1>2. \A d \in Directions : ~MakesGap(d, bars, Now) /\ GapEnds(d) = {}
  BY <1>1 DEF MakesGap, GapEnds, GapBars
<1>3. Defined = {}
  BY <1>2 DEF Defined
<1>4. Range(gaps) = {} /\ DOMAIN gaps = {}
  BY <1>1 DEF Range
<1>5. QED BY <1>1, <1>2, <1>3, <1>4 DEF Unread, BarsOK, GapsInv

LEMMA GapsNext ==
    ASSUME BarsOK, GapsInv, [Next]_vars
    PROVE  BarsOK' /\ GapsInv'
<1>1. CASE NextBar
  BY <1>1, Grows, GapsStep DEF NextBar, IctBar, BarsOK
<1>2. CASE UNCHANGED vars
  <2>1. bars' = bars /\ gaps' = gaps /\ inGap' = inGap
    BY <1>2 DEF vars, ictVars
  <2>2. Defined' = Defined
    BY <2>1 DEF Defined, GapEnds, GapBars, GapAt, Reached, Now
  <2>3. QED BY <1>2, <2>1, <2>2 DEF vars, BarsOK, GapsInv, Now
<1>3. CASE Slide
  <2>1. Unread'
    BY <1>3, Restarts
  <2>2. QED BY <2>1, GapsInit, PTL
<1>4. QED BY <1>1, <1>2, <1>3 DEF Next

\* The list of gaps is what the definition over the whole window says: those of
\* the last bars of all runs of gap bars, with the state the later bars tell.
THEOREM GapsAreDefined == Spec => []GapsMatchDefinition
<1>1. Init => BarsOK /\ GapsInv
  BY AtFirst, GapsInit
<1>2. BarsOK /\ GapsInv /\ [Next]_vars => BarsOK' /\ GapsInv'
  BY GapsNext
<1>3. BarsOK /\ GapsInv => GapsMatchDefinition
  <2> SUFFICES ASSUME GapsInv PROVE GapsMatchDefinition
    OBVIOUS
  <2>1. ASSUME NEW i \in DOMAIN gaps, NEW j \in DOMAIN gaps, i < j
        PROVE  gaps[i].event >= gaps[j].event
    <3>1. gaps[i].event \in Nat /\ gaps[j].event \in Nat
      <4>1. gaps[i] \in GapRecords /\ gaps[j] \in GapRecords
        BY DEF GapsInv
      <4>2. QED BY <4>1 DEF GapRecords
    <3>2. gaps[i].event > gaps[j].event
      BY <2>1 DEF GapsInv
    <3>3. QED BY <3>1, <3>2
  <2>2. QED BY <2>1 DEF GapsInv, GapsMatchDefinition, Defined
<1>4. QED BY <1>1, <1>2, <1>3, PTL DEF Spec

-----------------------------------------------------------------------------
(* Gaps of a window that has moved on.                                      *)

LEMMA ReachIs ==
    /\ Reach \in Nat /\ Reach >= 3 /\ (NeedsDisplacement => Reach >= DisplacementLength + 1)
    /\ \A j \in Nat : j >= 3 /\ (NeedsDisplacement => j >= DisplacementLength + 1) => j >= Reach
<1>1. DisplacementLength \in Nat /\ NeedsDisplacement \in BOOLEAN
  BY IctAssumption
<1>2. PICK S, n : S = {3, DisplacementLength + 1} /\ n = DisplacementLength + 4
  OBVIOUS
<1>3. n \in Nat /\ S \in SUBSET (0 .. n) /\ S # {}
  BY <1>1, <1>2
<1>4. Max(S) \in S /\ \A t \in S : Max(S) >= t
  BY <1>3, MaxIsGreatest
<1>5. QED BY <1>1, <1>2, <1>4 DEF Reach

\* Where it reaches back to, a window makes the gaps that a longer one makes.
LEMMA MakesAlike ==
    ASSUME NEW f \in Seq(Candles), NEW b \in Seq(Candles), NEW k \in Nat, PartOf(f, b, k),
           NEW d, NEW j \in 1 .. Len(f)
    PROVE  MakesGap(d, f, j) <=> j >= Reach /\ MakesGap(d, b, j + k)
<1>1. /\ Len(f) \in Nat /\ Len(b) \in Nat /\ j + k \in 1 .. Len(b)
      /\ \A i \in 1 .. Len(f) : f[i] = b[i + k] /\ i + k \in 1 .. Len(b) /\ f[i] \in Candles
  BY DEF PartOf
<1>2. DisplacementLength \in Nat \ {0}
  BY IctAssumption
<1>3. ASSUME j > 2, j - 1 >= DisplacementLength
      PROVE  Displaces(d, f, j - 1) <=> Displaces(d, b, j + k - 1)
  <2>1. PICK n, x, y : /\ n = DisplacementLength
                       /\ x = j - 1 - n + 1 /\ y = j + k - 1 - n + 1
    OBVIOUS
  <2>2. /\ n \in Nat \ {0} /\ x \in Nat \ {0} /\ y = x + k /\ j - 1 \in 1 .. Len(f)
        /\ (j - 1) + k = j + k - 1 /\ j + k - 1 \in Nat
    BY <1>1, <1>2, <1>3, <2>1
  <2>3. /\ SubSeq(f, x, j - 1) \in Seq(Candles)
        /\ Len(SubSeq(f, x, j - 1)) = IF x <= j - 1 THEN (j - 1) - x + 1 ELSE 0
        /\ \A i \in 1 .. (j - 1) - x + 1 : SubSeq(f, x, j - 1)[i] = f[x + i - 1]
    <3>1. \A i \in x .. j - 1 : i \in 1 .. Len(f)
      BY <1>1, <2>2
    <3>2. \A i \in x .. j - 1 : f[i] \in Candles
      BY <1>1, <3>1
    <3>3. x \in Int /\ j - 1 \in Int
      BY <2>2
    <3>4. QED BY <3>2, <3>3, SubSeqProperties
  <2>4. /\ SubSeq(b, y, j + k - 1) \in Seq(Candles)
        /\ Len(SubSeq(b, y, j + k - 1)) = IF y <= j + k - 1 THEN (j + k - 1) - y + 1 ELSE 0
        /\ \A i \in 1 .. (j + k - 1) - y + 1 : SubSeq(b, y, j + k - 1)[i] = b[y + i - 1]
    <3>1. \A i \in y .. j + k - 1 : i \in 1 .. Len(b)
      BY <1>1, <2>2
    <3>2. \A i \in y .. j + k - 1 : b[i] \in Candles
      BY <3>1
    <3>3. y \in Int /\ j + k - 1 \in Int
      BY <2>2
    <3>4. QED BY <3>2, <3>3, SubSeqProperties
  <2>5. Len(SubSeq(f, x, j - 1)) = Len(SubSeq(b, y, j + k - 1))
    BY <2>2, <2>3, <2>4
  <2>6. ASSUME NEW i \in 1 .. Len(SubSeq(f, x, j - 1))
        PROVE  SubSeq(f, x, j - 1)[i] = SubSeq(b, y, j + k - 1)[i]
    <3>1. /\ i \in 1 .. (j - 1) - x + 1 /\ i \in 1 .. (j + k - 1) - y + 1
          /\ x + i - 1 \in 1 .. Len(f) /\ (x + i - 1) + k = y + i - 1
      BY <1>1, <2>2, <2>3
    <3>2. f[x + i - 1] = b[(x + i - 1) + k]
      BY <1>1, <3>1
    <3>3. QED BY <2>3, <2>4, <3>1, <3>2
  <2>7. SubSeq(f, x, j - 1) = SubSeq(b, y, j + k - 1)
    BY <2>3, <2>4, <2>5, <2>6, SeqEqual
  <2>8. MeanBody(f, j - 1, n) = MeanBody(b, j + k - 1, n)
    <3>1. ~(j - 1 < n) /\ ~(j + k - 1 < n)
      BY <1>3, <2>1, <2>2
    <3>2. MeanBody(f, j - 1, n) = [num |-> TotalBody(SubSeq(f, x, j - 1)), den |-> n]
      BY <2>1, <3>1 DEF MeanBody
    <3>3. PICK m : m = j + k - 1
      OBVIOUS
    <3>4. ~(m < n) /\ y = m - n + 1
      BY <2>1, <2>2, <3>1, <3>3
    <3>5. MeanBody(b, m, n) = [num |-> TotalBody(SubSeq(b, y, m)), den |-> n]
      BY <3>4 DEF MeanBody
    <3>6. QED BY <2>7, <3>2, <3>3, <3>5
  <2>9. f[j - 1] = b[j + k - 1]
    BY <1>1, <2>2
  <2>10. QED BY <2>1, <2>8, <2>9 DEF Displaces
<1>4. ASSUME j > 2, Displaces(d, f, j - 1) PROVE j - 1 >= DisplacementLength
  <2>1. MeanBody(f, j - 1, DisplacementLength) # None
    BY <1>4 DEF Displaces
  <2>2. QED BY <1>1, <1>2, <2>1 DEF MeanBody
<1>5. ASSUME j > 2 PROVE f[j] = b[j + k] /\ f[j - 2] = b[j + k - 2]
  <2>1. j - 2 \in 1 .. Len(f) /\ (j - 2) + k = j + k - 2
    BY <1>1, <1>5
  <2>2. QED BY <1>1, <2>1
<1>6. ASSUME MakesGap(d, f, j) PROVE j >= Reach /\ MakesGap(d, b, j + k)
  <2>1. j > 2 /\ (NeedsDisplacement => j - 1 >= DisplacementLength)
    BY <1>4, <1>6 DEF MakesGap
  <2>2. j >= Reach
    <3>1. j \in Nat /\ j >= 3 /\ (NeedsDisplacement => j >= DisplacementLength + 1)
      BY <1>1, <1>2, <2>1
    <3>2. QED BY <3>1, ReachIs
  <2>3. j + k > 2
    BY <1>1, <2>1
  <2>4. QED BY <1>3, <1>5, <1>6, <2>1, <2>2, <2>3 DEF MakesGap
<1>7. ASSUME j >= Reach, MakesGap(d, b, j + k) PROVE MakesGap(d, f, j)
  <2>1. j > 2 /\ (NeedsDisplacement => j - 1 >= DisplacementLength)
    BY <1>1, <1>2, <1>7, ReachIs
  <2>2. QED BY <1>3, <1>5, <1>7, <2>1 DEF MakesGap
<1>8. QED BY <1>6, <1>7

LEMMA EndsAlike ==
    ASSUME NEW f \in Seq(Candles), NEW b \in Seq(Candles), NEW k \in Nat, PartOf(f, b, k),
           NEW d, NEW j \in Nat
    PROVE  /\ j \in EndsOf(f, d) =>
                /\ j \in 3 .. Len(f) /\ j >= Reach /\ j + k \in MadeIn(b, d)
                /\ j < Len(f) => j + k \in EndsOf(b, d)
           /\ j + k \in EndsOf(b, d) /\ j >= Reach /\ j <= Len(f) => j \in EndsOf(f, d)
<1>1. Len(f) \in Nat /\ Len(b) \in Nat /\ Len(f) + k <= Len(b) /\ Reach \in Nat /\ Reach >= 3
  BY ReachIs DEF PartOf
<1>2. \A i \in 1 .. Len(f) : MakesGap(d, f, i) <=> i >= Reach /\ MakesGap(d, b, i + k)
  BY MakesAlike
<1>3. \A i \in Nat : i \in MadeIn(f, d) <=> i <= Len(f) /\ i >= Reach /\ i + k \in MadeIn(b, d)
  BY <1>1, <1>2 DEF MadeIn
<1>4. j + 1 \in Nat /\ (j + 1) + k = (j + k) + 1
  OBVIOUS
<1>5. j + 1 \in MadeIn(f, d) <=> j + 1 <= Len(f) /\ j + 1 >= Reach /\ (j + k) + 1 \in MadeIn(b, d)
  BY <1>3, <1>4
<1>6. j \in MadeIn(f, d) => j \in 3 .. Len(f)
  BY DEF MadeIn
<1>7. QED BY <1>1, <1>3, <1>5, <1>6 DEF EndsOf

LEMMA GapIsTold ==
    ASSUME BarsOK, NEW d \in Directions, NEW i \in 3 .. Now
    PROVE  GapAt(d, i) = ToldOf(bars, d, i)
<1>1. /\ Now \in Nat /\ Now = Len(bars)
      /\ \A j \in 1 .. i : bars[j] \in Candles
  BY DEF BarsOK, Now
<1>2. PICK s : s = SubSeq(bars, 1, i)
  OBVIOUS
<1>3. Len(s) = i /\ s[i] = bars[i] /\ s[i - 2] = bars[i - 2]
  <2>1. Len(s) = i /\ \A j \in 1 .. i : s[j] = bars[j]
    BY <1>1, <1>2, SubSeqProperties
  <2>2. i \in 1 .. i /\ i - 2 \in 1 .. i
    BY <1>1
  <2>3. QED BY <2>1, <2>2
<1>4. Gap(d, s) = [direction |-> d, event |-> i, known |-> i, state |-> "ACTIVE",
                   lower |-> IF d = "BULLISH" THEN bars[i - 2].high ELSE bars[i].high,
                   upper |-> IF d = "BULLISH" THEN bars[i].low ELSE bars[i - 2].low]
  BY <1>3 DEF Gap
<1>5. \A level : Reached(d, i, level) = Touches(bars, d, i, level)
  BY <1>1 DEF Reached, Touches, Reaches
<1>6. PICK gap : gap = Gap(d, s)
  OBVIOUS
<1>7. /\ Near(bars, d, i) = IF d = "BULLISH" THEN gap.upper ELSE gap.lower
      /\ Far(bars, d, i) = IF d = "BULLISH" THEN gap.lower ELSE gap.upper
  BY <1>4, <1>6 DEF Near, Far
<1>8. PICK near, far : /\ near = Touches(bars, d, i, Near(bars, d, i))
                       /\ far = Touches(bars, d, i, Far(bars, d, i))
  OBVIOUS
<1>9. GapAt(d, i) =
        [gap EXCEPT
           !.state = IF far # {} THEN "FULL" ELSE IF near # {} THEN "PARTIAL" ELSE "ACTIVE",
           !.known = IF far # {} THEN Min(far) ELSE IF near # {} THEN Min(near) ELSE i]
  BY <1>2, <1>5, <1>6, <1>7, <1>8 DEF GapAt
<1>10. PICK known, state :
         /\ known = IF far # {} THEN Min(far) ELSE IF near # {} THEN Min(near) ELSE i
         /\ state = IF far # {} THEN "FULL" ELSE IF near # {} THEN "PARTIAL" ELSE "ACTIVE"
  OBVIOUS
<1>11. PICK low, high :
         /\ low = IF d = "BULLISH" THEN bars[i - 2].high ELSE bars[i].high
         /\ high = IF d = "BULLISH" THEN bars[i].low ELSE bars[i - 2].low
  OBVIOUS
<1>12. GapAt(d, i) = [gap EXCEPT !.state = state, !.known = known]
  BY <1>9, <1>10
<1>13. gap = [direction |-> d, event |-> i, known |-> i, state |-> "ACTIVE",
              lower |-> low, upper |-> high]
  BY <1>4, <1>6, <1>11
<1>14. ToldOf(bars, d, i) = [direction |-> d, event |-> i, known |-> known, state |-> state,
                             lower |-> low, upper |-> high]
  BY <1>8, <1>10, <1>11 DEF ToldOf
<1>15. QED BY <1>12, <1>13, <1>14

LEMMA ToldIsKnown ==
    ASSUME NEW b \in Seq(Candles), NEW d, NEW i \in 3 .. Len(b)
    PROVE  /\ ToldOf(b, d, i).event = i /\ i \in Nat
           /\ ToldOf(b, d, i).known \in Nat /\ ToldOf(b, d, i).known >= i
<1>1. PICK near, far : /\ near = Touches(b, d, i, Near(b, d, i))
                       /\ far = Touches(b, d, i, Far(b, d, i))
  OBVIOUS
<1>2. /\ near \in SUBSET Nat /\ far \in SUBSET Nat /\ i \in Nat
      /\ \A k \in near \cup far : k >= i
  BY <1>1 DEF Touches
<1>3. (far # {} => Min(far) \in far) /\ (near # {} => Min(near) \in near)
  BY <1>2, MinIsLeast
<1>4. ToldOf(b, d, i).known = IF far # {} THEN Min(far) ELSE IF near # {} THEN Min(near) ELSE i
  BY <1>1 DEF ToldOf
<1>5. ToldOf(b, d, i).event = i
  BY DEF ToldOf
<1>6. PICK known : known = ToldOf(b, d, i).known
  OBVIOUS
<1>7. known \in near \cup far \cup {i}
  BY <1>3, <1>4, <1>6
<1>8. QED BY <1>2, <1>5, <1>6, <1>7

\* The bars that touch a level in both windows are the same, and the first is.
LEMMA TouchesAlike ==
    ASSUME NEW f \in Seq(Candles), NEW b \in Seq(Candles), NEW k \in Nat, PartOf(f, b, k),
           NEW d, NEW level, NEW i \in 3 .. Len(f)
    PROVE  LET F == Touches(f, d, i, level)
               B == Touches(b, d, i + k, level)
           IN  /\ B # {} => Min(B) \in Nat /\ Min(B) > i + k
               /\ F # {} => B # {} /\ Min(F) \in Nat /\ Min(F) > i /\ Min(B) = Min(F) + k
               /\ F = {} /\ B # {} => Min(B) > Len(f) + k
<1>1. Len(f) \in Nat /\ Len(b) \in Nat /\ Len(f) + k <= Len(b)
  BY DEF PartOf
<1>2. PICK F, B : F = Touches(f, d, i, level) /\ B = Touches(b, d, i + k, level)
  OBVIOUS
<1>3. F \in SUBSET Nat /\ B \in SUBSET Nat /\ (\A x \in F : x > i) /\ (\A x \in B : x > i + k)
  BY <1>1, <1>2 DEF Touches
<1>4. \A x \in F : x + k \in B
  BY <1>1, <1>2 DEF Touches, PartOf
<1>5. \A x \in B : x <= Len(f) + k => x - k \in F
  <2>1. SUFFICES ASSUME NEW x \in B, x <= Len(f) + k PROVE x - k \in F
    OBVIOUS
  <2>2. x \in i + k + 1 .. Len(b) /\ Reaches(d, b[x], level)
    BY <1>2 DEF Touches
  <2>3. x - k \in i + 1 .. Len(f) /\ x - k \in 1 .. Len(f) /\ (x - k) + k = x
    BY <1>1, <2>1, <2>2
  <2>4. f[x - k] = b[x]
    BY <2>3 DEF PartOf
  <2>5. QED BY <1>2, <2>2, <2>3, <2>4 DEF Touches
<1>6. B # {} => Min(B) \in B /\ \A x \in B : Min(B) <= x
  BY <1>3, MinIsLeast
<1>7. F # {} => Min(F) \in F /\ \A x \in F : Min(F) <= x
  BY <1>3, MinIsLeast
<1>8. ASSUME F # {} PROVE B # {} /\ Min(F) \in Nat /\ Min(F) > i /\ Min(B) = Min(F) + k
  <2>1. Min(F) \in F /\ Min(F) + k \in B /\ Min(F) \in 1 .. Len(f)
    BY <1>1, <1>2, <1>4, <1>7, <1>8 DEF Touches
  <2>2. Min(B) \in B /\ Min(B) <= Min(F) + k /\ Min(B) \in Nat
    BY <1>3, <1>6, <2>1
  <2>3. Min(B) - k \in F
    BY <1>1, <1>5, <2>1, <2>2
  <2>4. Min(F) <= Min(B) - k
    BY <1>7, <1>8, <2>3
  <2>5. QED BY <1>3, <2>1, <2>2, <2>4
<1>9. ASSUME F = {}, B # {} PROVE Min(B) > Len(f) + k
  <2>1. Min(B) \in B /\ Min(B) \in Nat
    BY <1>3, <1>6, <1>9
  <2>2. ~(Min(B) <= Len(f) + k)
    BY <1>5, <1>9, <2>1
  <2>3. QED BY <1>1, <2>1, <2>2
<1>10. QED BY <1>2, <1>3, <1>6, <1>8, <1>9

\* A gap is told alike in both, or has had news since.
LEMMA ToldAlike ==
    ASSUME NEW f \in Seq(Candles), NEW b \in Seq(Candles), NEW k \in Nat, PartOf(f, b, k),
           NEW d, NEW i \in 3 .. Len(f)
    PROVE  /\ \/ ToldOf(f, d, i) = Earlier(ToldOf(b, d, i + k), k)
              \/ ToldOf(b, d, i + k).known > Len(f) + k
           /\ Len(f) + k = Len(b) => ToldOf(f, d, i) = Earlier(ToldOf(b, d, i + k), k)
<1>1. /\ Len(f) \in Nat /\ Len(b) \in Nat /\ i \in Nat
      /\ f[i] = b[i + k] /\ f[i - 2] = b[i + k - 2]
  <2>1. i \in 1 .. Len(f) /\ i - 2 \in 1 .. Len(f) /\ (i - 2) + k = i + k - 2
    OBVIOUS
  <2>2. f[i] = b[i + k] /\ f[i - 2] = b[(i - 2) + k]
    BY <2>1 DEF PartOf
  <2>3. QED BY <2>1, <2>2
<1>2. PICK nearF, farF, nearB, farB :
        /\ nearF = Touches(f, d, i, Near(f, d, i)) /\ farF = Touches(f, d, i, Far(f, d, i))
        /\ nearB = Touches(b, d, i + k, Near(b, d, i + k))
        /\ farB = Touches(b, d, i + k, Far(b, d, i + k))
  OBVIOUS
<1>3. /\ nearB = Touches(b, d, i + k, Near(f, d, i))
      /\ farB = Touches(b, d, i + k, Far(f, d, i))
  BY <1>1, <1>2 DEF Near, Far
<1>4. /\ farB # {} => Min(farB) \in Nat /\ Min(farB) > i + k
      /\ farF # {} => farB # {} /\ Min(farF) \in Nat /\ Min(farB) = Min(farF) + k
      /\ farF = {} /\ farB # {} => Min(farB) > Len(f) + k
  BY <1>2, <1>3, TouchesAlike
<1>5. /\ nearB # {} => Min(nearB) \in Nat /\ Min(nearB) > i + k
      /\ nearF # {} => nearB # {} /\ Min(nearF) \in Nat /\ Min(nearB) = Min(nearF) + k
      /\ nearF = {} /\ nearB # {} => Min(nearB) > Len(f) + k
  BY <1>2, <1>3, TouchesAlike
<1>6. PICK knownF, stateF, knownB, stateB :
        /\ knownF = IF farF # {} THEN Min(farF) ELSE IF nearF # {} THEN Min(nearF) ELSE i
        /\ stateF = IF farF # {} THEN "FULL" ELSE IF nearF # {} THEN "PARTIAL" ELSE "ACTIVE"
        /\ knownB = IF farB # {} THEN Min(farB) ELSE IF nearB # {} THEN Min(nearB) ELSE i + k
        /\ stateB = IF farB # {} THEN "FULL" ELSE IF nearB # {} THEN "PARTIAL" ELSE "ACTIVE"
  OBVIOUS
<1>7. PICK low, high :
        /\ low = IF d = "BULLISH" THEN f[i - 2].high ELSE f[i].high
        /\ high = IF d = "BULLISH" THEN f[i].low ELSE f[i - 2].low
  OBVIOUS
<1>8. ToldOf(f, d, i) = [direction |-> d, event |-> i, known |-> knownF, state |-> stateF,
                       lower |-> low, upper |-> high]
  BY <1>2, <1>6, <1>7 DEF ToldOf
<1>9. ToldOf(b, d, i + k) = [direction |-> d, event |-> i + k, known |-> knownB,
                           state |-> stateB, lower |-> low, upper |-> high]
  BY <1>1, <1>2, <1>6, <1>7 DEF ToldOf
<1>10. Earlier(ToldOf(b, d, i + k), k) =
         [direction |-> d, event |-> i, known |-> knownB - k, state |-> stateB,
          lower |-> low, upper |-> high]
  <2>1. PICK g : g = ToldOf(b, d, i + k)
    OBVIOUS
  <2>2. PICK event, known : event = i + k /\ known = knownB - k
    OBVIOUS
  <2>3. g.event - k = i /\ g.known - k = known
    BY <1>1, <1>9, <2>1, <2>2
  <2>4. Earlier(g, k) = [g EXCEPT !.event = i, !.known = known]
    BY <2>3 DEF Earlier
  <2>5. PICK h : h = [g EXCEPT !.event = i]
    OBVIOUS
  <2>6. h = [direction |-> d, event |-> i, known |-> knownB, state |-> stateB,
             lower |-> low, upper |-> high]
    <3>1. h = [[direction |-> d, event |-> event, known |-> knownB, state |-> stateB,
                lower |-> low, upper |-> high] EXCEPT !.event = i]
      BY <1>9, <2>1, <2>2, <2>5
    <3>2. QED BY <3>1
  <2>7. [h EXCEPT !.known = known] =
          [direction |-> d, event |-> i, known |-> known, state |-> stateB,
           lower |-> low, upper |-> high]
    <3>1. [h EXCEPT !.known = known] =
            [[direction |-> d, event |-> i, known |-> knownB, state |-> stateB,
              lower |-> low, upper |-> high] EXCEPT !.known = known]
      BY <2>6
    <3>2. QED BY <3>1
  <2>8. Earlier(g, k) = [h EXCEPT !.known = known]
    <3>1. [g EXCEPT !.event = i, !.known = known] = [[g EXCEPT !.event = i] EXCEPT !.known = known]
      OBVIOUS
    <3>2. QED BY <2>4, <2>5, <3>1
  <2>9. QED BY <2>1, <2>2, <2>7, <2>8
<1>11. \/ knownF = knownB - k /\ stateF = stateB
       \/ knownB > Len(f) + k
  <2>1. CASE farB # {}
    <3>1. CASE farF # {}
      BY <1>4, <1>6, <2>1, <3>1
    <3>2. CASE farF = {}
      BY <1>4, <1>6, <2>1, <3>2
    <3>3. QED BY <3>1, <3>2
  <2>2. CASE farB = {}
    <3>1. farF = {}
      BY <1>4, <2>2
    <3>2. CASE nearB # {}
      BY <1>5, <1>6, <2>2, <3>1, <3>2
    <3>3. CASE nearB = {}
      BY <1>1, <1>5, <1>6, <2>2, <3>1, <3>3
    <3>4. QED BY <3>2, <3>3
  <2>3. QED BY <2>1, <2>2
<1>12. knownB > Len(f) + k => ToldOf(b, d, i + k).known > Len(f) + k
  BY <1>9
<1>13. ASSUME Len(f) + k = Len(b) PROVE ~(knownB > Len(f) + k)
  <2>1. (farB # {} => Min(farB) \in farB) /\ (nearB # {} => Min(nearB) \in nearB)
    <3>1. farB \in SUBSET Nat /\ nearB \in SUBSET Nat
      BY <1>1, <1>2 DEF Touches
    <3>2. QED BY <3>1, MinIsLeast
  <2>2. \A x \in farB \cup nearB : x <= Len(b)
    BY <1>1, <1>2 DEF Touches
  <2>3. i + k <= Len(b)
    BY <1>1, <1>13
  <2>4. QED BY <1>1, <1>4, <1>5, <1>6, <1>13, <2>1, <2>2, <2>3
<1>14. QED BY <1>8, <1>10, <1>11, <1>12, <1>13

-----------------------------------------------------------------------------
LEMMA GapsAreTold ==
    ASSUME BarsOK, GapsInv
    PROVE  /\ Now \in Nat /\ Now = Len(bars)
           /\ \A g : g \in Range(gaps) <=>
                \E d \in Directions : \E i \in EndsOf(bars, d) : g = ToldOf(bars, d, i)
<1>1. Now \in Nat /\ Now = Len(bars)
  BY DEF BarsOK, Now
<1>2. \A d : GapEnds(d) = EndsOf(bars, d)
  BY <1>1 DEF GapEnds, GapBars, EndsOf, MadeIn
<1>3. \A d \in Directions : \A i \in EndsOf(bars, d) : GapAt(d, i) = ToldOf(bars, d, i)
  <2>1. \A d : EndsOf(bars, d) \subseteq 3 .. Now
    BY <1>1 DEF EndsOf, MadeIn
  <2>2. QED BY <2>1, GapIsTold
<1>4. Range(gaps) = Defined
  BY DEF GapsInv
<1>5. QED BY <1>1, <1>2, <1>3, <1>4 DEF Defined

\* A window reports what is told from its bars.
LEMMA ReportsGaps ==
    ASSUME BarsOK, GapsInv, Slide
    PROVE  ReportInv'
<1>1. PICK k \in 1 .. Now :
        /\ bars' = <<>> /\ former' = SubSeq(bars, k + 1, Now)
        /\ reported' = [i \in DOMAIN gaps |-> Earlier(gaps[i], k)]
  BY DEF Slide, WindowMoves
<1>2. /\ Now \in Nat /\ Now = Len(bars)
      /\ \A g : g \in Range(gaps) <=>
           \E d \in Directions : \E i \in EndsOf(bars, d) : g = ToldOf(bars, d, i)
  BY GapsAreTold
<1>3. PICK f : f = former'
  OBVIOUS
<1>4. f \in Seq(Candles) /\ Len(f) + k = Len(bars) /\ PartOf(f, bars, k) /\ k \in Nat
  <2>1. \A j \in k + 1 .. Now : bars[j] \in Candles
    BY <1>2 DEF BarsOK
  <2>2. k + 1 \in Int /\ Now \in Int /\ k \in Nat /\ k <= Now
    BY <1>1, <1>2
  <2>3. /\ f \in Seq(Candles) /\ Len(f) = (IF k + 1 <= Now THEN Now - (k + 1) + 1 ELSE 0)
        /\ \A j \in 1 .. Now - (k + 1) + 1 : f[j] = bars[k + 1 + j - 1]
    BY <1>1, <1>3, <2>1, <2>2, SubSeqProperties
  <2>4. Len(f) = Now - k
    BY <2>2, <2>3
  <2>5. ASSUME NEW j \in 1 .. Len(f) PROVE f[j] = bars[j + k]
    <3>1. j \in 1 .. Now - (k + 1) + 1 /\ k + 1 + j - 1 = j + k
      BY <2>2, <2>4
    <3>2. QED BY <2>3, <3>1
  <2>6. QED BY <1>2, <2>2, <2>3, <2>4, <2>5 DEF PartOf
<1>5. bars \in Seq(Candles)
  BY DEF BarsOK
<1>6. \A o : o \in Range(reported') <=> \E g \in Range(gaps) : o = Earlier(g, k)
  BY <1>1 DEF Range
<1>7. \A d, j : j \in EndsOf(f, d) =>
        j \in Nat /\ j \in 3 .. Len(f) /\ j + k \in EndsOf(bars, d)
  <2>1. SUFFICES ASSUME NEW d, NEW j, j \in EndsOf(f, d)
                 PROVE  j \in 3 .. Len(f) /\ j + k \in EndsOf(bars, d)
    OBVIOUS
  <2>2. j \in Nat /\ j \in 3 .. Len(f)
    BY <2>1 DEF EndsOf, MadeIn
  <2>3. j + k \in MadeIn(bars, d) /\ (j < Len(f) => j + k \in EndsOf(bars, d))
    BY <1>4, <1>5, <2>1, <2>2, EndsAlike
  <2>4. j = Len(f) => (j + k) + 1 \notin MadeIn(bars, d)
    BY <1>2, <1>4 DEF MadeIn
  <2>5. QED BY <2>2, <2>3, <2>4 DEF EndsOf
<1>8. \A d, j : j \in 3 .. Len(f) => ToldOf(f, d, j) = Earlier(ToldOf(bars, d, j + k), k)
  BY <1>4, <1>5, ToldAlike
<1>9. ASSUME NEW d \in Directions, NEW j \in EndsOf(f, d)
      PROVE  ToldOf(f, d, j) \in Range(reported')
  <2>1. j \in 3 .. Len(f) /\ j + k \in EndsOf(bars, d)
    BY <1>7
  <2>2. ToldOf(bars, d, j + k) \in Range(gaps)
    BY <1>2, <2>1
  <2>3. QED BY <1>6, <1>8, <2>1, <2>2
<1>10. ASSUME NEW o \in Range(reported'), o.event >= Reach
       PROVE  \E d \in Directions : \E j \in EndsOf(f, d) : o = ToldOf(f, d, j)
  <2>1. PICK g \in Range(gaps) : o = Earlier(g, k)
    BY <1>6
  <2>2. PICK d, i : d \in Directions /\ i \in EndsOf(bars, d) /\ g = ToldOf(bars, d, i)
    BY <1>2
  <2>3. i \in 3 .. Now
    BY <1>2, <2>2 DEF EndsOf, MadeIn
  <2>4. g.event = i /\ o.event = i - k
    <3>1. PICK x, known, state, y, z :
            g = [direction |-> x, event |-> i, known |-> known, state |-> state,
                 lower |-> y, upper |-> z]
      BY <2>2 DEF ToldOf
    <3>2. QED BY <2>1, <3>1 DEF Earlier
  <2>5. PICK j : j = i - k
    OBVIOUS
  <2>6. j \in Nat /\ j \in 3 .. Len(f) /\ j >= Reach /\ j + k = i
    BY <1>2, <1>4, <1>10, <2>3, <2>4, <2>5, ReachIs
  <2>7. j \in EndsOf(f, d)
    BY <1>4, <1>5, <2>2, <2>6, EndsAlike
  <2>8. o = ToldOf(f, d, j)
    BY <1>8, <2>1, <2>2, <2>6
  <2>9. QED BY <2>2, <2>7, <2>8
<1>11. \A j \in 1 .. Len(f) : ~(j <= Now')
  BY <1>1, <1>4 DEF Now
<1>12. QED BY <1>3, <1>9, <1>10, <1>11 DEF ReportInv

LEMMA ReportStays ==
    ASSUME BarsOK, GapsInv, ReportInv, [Next]_vars
    PROVE  ReportInv'
<1>1. CASE NextBar
  <2>1. /\ ReadsBar /\ former' = former /\ reported' = reported
        /\ \E c \in Candles : bars' = Append(bars, c) /\ (Now < Len(former) => c = former[Now + 1])
    BY <1>1 DEF NextBar, ReadsBar, BarsOK, Now
  <2>2. /\ Now \in Nat /\ Now' = Now + 1 /\ \A i \in 1 .. Now : bars'[i] = bars[i]
        /\ Now = Len(bars) /\ Len(former) \in Nat
    BY <2>1, Grows DEF BarsOK
  <2>3. Now < Len(former) => bars'[Now + 1] = former[Now + 1]
    BY <2>1, <2>2 DEF BarsOK
  <2>4. \A j \in 1 .. Len(former) : j <= Now + 1 => bars'[j] = former[j]
    BY <2>2, <2>3 DEF ReportInv
  <2>5. QED BY <2>1, <2>2, <2>4 DEF ReportInv
<1>2. CASE UNCHANGED vars
  BY <1>2 DEF vars, ReportInv, Now
<1>3. CASE Slide
  BY <1>3, ReportsGaps
<1>4. QED BY <1>1, <1>2, <1>3 DEF Next

LEMMA LastMade ==
    ASSUME NEW b \in Seq(Candles), NEW d, NEW i \in MadeIn(b, d)
    PROVE  \E m \in EndsOf(b, d) : m >= i
<1>1. PICK n, S : n = Len(b) /\ S = MadeIn(b, d)
  OBVIOUS
<1>2. n \in Nat /\ S \in SUBSET (0 .. n) /\ S # {}
  BY <1>1 DEF MadeIn
<1>3. Max(S) \in S /\ \A t \in S : Max(S) >= t
  BY <1>2, MaxIsGreatest
<1>4. PICK m \in S : \A t \in S : m >= t
  BY <1>3
<1>5. m \in Nat /\ m + 1 \notin S
  BY <1>2, <1>4
<1>6. QED BY <1>1, <1>4, <1>5 DEF EndsOf

LEMMA ReportHolds ==
    ASSUME BarsOK, GapsInv, ReportInv
    PROVE  GapsOutliveTheWindow
<1> SUFFICES ASSUME Now >= Len(former) PROVE GapsOutliveTheWindow
  BY DEF GapsOutliveTheWindow
<1>1. /\ Now \in Nat /\ Now = Len(bars)
      /\ \A g : g \in Range(gaps) <=>
           \E d \in Directions : \E i \in EndsOf(bars, d) : g = ToldOf(bars, d, i)
  BY GapsAreTold
<1>2. /\ former \in Seq(Candles) /\ bars \in Seq(Candles) /\ PartOf(former, bars, 0)
      /\ Len(former) \in Nat /\ 0 \in Nat
  BY <1>1 DEF BarsOK, ReportInv, PartOf
<1>3. \A d, i : /\ ToldOf(bars, d, i).direction = d /\ ToldOf(bars, d, i).event = i
                /\ ToldOf(former, d, i).direction = d /\ ToldOf(former, d, i).event = i
  BY DEF ToldOf
<1>4. \A d : \A i \in 3 .. Len(former) :
        ToldOf(former, d, i) = ToldOf(bars, d, i) \/ ToldOf(bars, d, i).known > Len(former)
  <2>1. SUFFICES ASSUME NEW d, NEW i \in 3 .. Len(former)
                 PROVE  \/ ToldOf(former, d, i) = ToldOf(bars, d, i)
                        \/ ToldOf(bars, d, i).known > Len(former)
    OBVIOUS
  <2>2. i + 0 = i /\ Len(former) + 0 = Len(former) /\ Len(bars) \in Nat
    BY <1>1, <1>2
  <2>3. ToldOf(former, d, i) = Earlier(ToldOf(bars, d, i), 0) \/ ToldOf(bars, d, i).known > Len(former)
    BY <1>2, <2>2, ToldAlike
  <2>4. Earlier(ToldOf(bars, d, i), 0) = ToldOf(bars, d, i)
    <3>1. ToldOf(bars, d, i).event \in Int /\ ToldOf(bars, d, i).known \in Int
      BY <1>1, <2>1, ToldIsKnown, <1>2 DEF PartOf
    <3>2. PICK g : g = ToldOf(bars, d, i)
      OBVIOUS
    <3>3. g.event - 0 = g.event /\ g.known - 0 = g.known
      BY <3>1, <3>2
    <3>4. PICK x, event, known, state, y, z :
            g = [direction |-> x, event |-> event, known |-> known, state |-> state,
                 lower |-> y, upper |-> z]
      BY <3>2 DEF ToldOf
    <3>5. QED BY <3>2, <3>3, <3>4 DEF Earlier
  <2>5. QED BY <2>3, <2>4
<1>5. ASSUME NEW g \in Range(gaps)
      PROVE  g \in Range(reported) \/ g.known > Len(former)
  <2>1. PICK d, i : d \in Directions /\ i \in EndsOf(bars, d) /\ g = ToldOf(bars, d, i)
    BY <1>1
  <2>2. i \in 3 .. Now /\ i \in Nat /\ MakesGap(d, bars, i)
    BY <1>1, <2>1 DEF EndsOf, MadeIn
  <2>3. CASE i <= Len(former)
    <3>1. i \in 1 .. Len(bars) /\ i + 0 = i /\ PartOf(bars, bars, 0)
      BY <1>1, <2>2 DEF PartOf
    <3>2. i >= Reach
      BY <1>2, <2>2, <3>1, MakesAlike
    <3>3. i \in EndsOf(former, d)
      BY <1>2, <2>1, <2>2, <2>3, <3>1, <3>2, EndsAlike
    <3>4. ToldOf(former, d, i) \in Range(reported) /\ i \in 3 .. Len(former)
      BY <1>2, <2>1, <2>2, <2>3, <3>3 DEF ReportInv
    <3>5. QED BY <1>4, <2>1, <3>4
  <2>4. CASE i > Len(former)
    <3>1. g.known >= i /\ g.known \in Int
      BY <1>1, <1>2, <2>1, <2>2, ToldIsKnown
    <3>2. QED BY <1>2, <2>2, <2>4, <3>1
  <2>5. QED BY <1>2, <2>2, <2>3, <2>4
<1>6. ASSUME NEW o \in Range(reported), o.event >= Reach
      PROVE  \E g \in Range(gaps) :
               /\ g.direction = o.direction
               /\ \/ g = o
                  \/ g.known > Len(former) /\ g.event = o.event
                  \/ o.event = Len(former) /\ g.event > o.event
  <2>1. PICK d, i : d \in Directions /\ i \in EndsOf(former, d) /\ o = ToldOf(former, d, i)
    BY <1>6 DEF ReportInv
  <2>2. i \in 3 .. Len(former) /\ i \in Nat
    BY <1>2, <2>1 DEF EndsOf, MadeIn
  <2>3. i + 0 = i /\ i \in MadeIn(bars, d) /\ (i < Len(former) => i \in EndsOf(bars, d))
    BY <1>2, <2>1, <2>2, EndsAlike
  <2>4. o.event = i /\ o.direction = d
    BY <1>3, <2>1
  <2>5. CASE i \in EndsOf(bars, d)
    <3>1. ToldOf(bars, d, i) \in Range(gaps)
      BY <1>1, <2>1, <2>5
    <3>2. QED BY <1>3, <1>4, <2>1, <2>2, <2>4, <3>1
  <2>6. CASE i \notin EndsOf(bars, d)
    <3>1. i = Len(former) /\ i + 1 \in MadeIn(bars, d)
      BY <1>2, <2>2, <2>3, <2>6 DEF EndsOf
    <3>2. PICK m \in EndsOf(bars, d) : m >= i + 1
      BY <1>2, <3>1, LastMade
    <3>3. ToldOf(bars, d, m) \in Range(gaps) /\ m \in Nat /\ m > i
      BY <1>1, <2>1, <2>2, <3>2 DEF EndsOf, MadeIn
    <3>4. QED BY <1>3, <2>4, <3>1, <3>3
  <2>7. QED BY <2>5, <2>6
<1>7. QED BY <1>5, <1>6 DEF GapsOutliveTheWindow

\* The window moves on but a gap stays: it was reported by the evaluation before, at
\* the same time and in the same words, or is news of the bars that closed since; and
\* what was reported is found again, unless the bars that made it have left the window.
THEOREM GapsOutlive == Spec => []GapsOutliveTheWindow
<1>1. Init => BarsOK /\ GapsInv /\ ReportInv
  <2> SUFFICES ASSUME Init PROVE ReportInv
    BY AtFirst, GapsInit
  <2>1. PICK none : none = <<>> /\ former = none /\ reported = none
    BY DEF Init
  <2>2. Len(none) = 0 /\ Range(none) = {}
    BY <2>1 DEF Range
  <2>3. \A d : EndsOf(none, d) = {}
    BY <2>2 DEF EndsOf, MadeIn
  <2>4. QED BY <2>1, <2>2, <2>3 DEF ReportInv
<1>2. BarsOK /\ GapsInv /\ ReportInv /\ [Next]_vars => BarsOK' /\ GapsInv' /\ ReportInv'
  BY GapsNext, ReportStays
<1>3. BarsOK /\ GapsInv /\ ReportInv => GapsOutliveTheWindow
  BY ReportHolds
<1>4. QED BY <1>1, <1>2, <1>3, PTL DEF Spec

-----------------------------------------------------------------------------
(* Liquidity zones.                                                         *)

\* The latest zone of a side is the first one of the list.
LEMMA LatestOnIs ==
    ASSUME NEW zones, IsList(zones), NEW side
    PROVE  LET i == LatestOn(zones, side)
           IN  \/ /\ i = 0
                  /\ \A j \in DOMAIN zones : zones[j].side # side
               \/ /\ i \in DOMAIN zones /\ i # 0 /\ zones[i].side = side
                  /\ \A j \in DOMAIN zones : j < i => zones[j].side # side
<1> DEFINE I == {i \in 1 .. Len(zones) : zones[i].side = side}
<1>1. Len(zones) \in Nat /\ DOMAIN zones = 1 .. Len(zones)
  BY ListHas
<1>2. LatestOn(zones, side) = IF I # {} THEN Min(I) ELSE 0
  BY DEF LatestOn, SelectInSeq
<1>3. CASE I = {}
  BY <1>1, <1>2, <1>3
<1>4. CASE I # {}
  <2>1. I \in SUBSET Nat
    BY <1>1
  <2>2. Min(I) \in I /\ \A j \in I : Min(I) <= j
    <3> HIDE DEF I
    <3>1. QED BY <1>4, <2>1, MinIsLeast
  <2>3. PICK i \in I : i = LatestOn(zones, side) /\ \A j \in I : i <= j
    BY <1>2, <1>4, <2>2
  <2>4. i \in DOMAIN zones /\ i # 0 /\ zones[i].side = side
    BY <1>1
  <2>5. \A j \in DOMAIN zones : j < i => zones[j].side # side
    BY <1>1, <2>3, <2>4
  <2>6. QED BY <2>3, <2>4, <2>5
<1>5. QED BY <1>3, <1>4

-----------------------------------------------------------------------------
LEMMA SweptByThen ==
    ASSUME NEW n \in Nat, NEW b, NEW z, TellsSweep(z, b, n), z.state = "FULL"
    PROVE  z.known \in z.event + 1 .. n
<1>1. Closes(z, b, n) \in SUBSET Nat /\ Closes(z, b, n) # {}
  BY DEF TellsSweep, Closes
<1>2. Min(Closes(z, b, n)) \in Closes(z, b, n)
  BY <1>1, MinIsLeast
<1>3. QED BY <1>2 DEF TellsSweep, Closes

\* One more bar: the close of it sweeps a zone or leaves it.
LEMMA AfterCloseTells ==
    ASSUME NEW n \in Nat, NEW b, Len(b) = n + 1, NEW zones, NEW z, TellsSweep(z, b, n)
    PROVE  LET a == AfterClose(z, zones, b)
           IN  /\ TellsSweep(a, b, n + 1)
               /\ a.side = z.side /\ a.anchor = z.anchor /\ a.event = z.event
               /\ z.state = "FULL" => a = z
               /\ a = z \/ a.known = n + 1
<1> DEFINE a == AfterClose(z, zones, b)
           new == IF ReachesFar(z, b[n + 1]) THEN {n + 1} ELSE {}
<1>1. IsZone(z) /\ z.event \in Nat /\ z.event <= n
  BY DEF TellsSweep
<1>2. /\ IsZone(a) /\ a.side = z.side /\ a.anchor = z.anchor /\ a.event = z.event
      /\ a.lower = z.lower /\ a.upper = z.upper
  BY <1>1 DEF AfterClose, IsZone
<1>3. \A c : ReachesFar(a, c) = ReachesFar(z, c)
  BY <1>2 DEF ReachesFar
<1>4. Closes(a, b, n + 1) = Closes(z, b, n) \cup new
  BY <1>1, <1>2, <1>3 DEF Closes
<1>5. CASE z.state = "FULL"
  <2>1. a = z
    BY <1>5 DEF AfterClose, IsFinal
  <2>2. Closes(z, b, n) \in SUBSET Nat /\ Closes(z, b, n) # {}
    BY <1>1, <1>5 DEF TellsSweep, Closes
  <2>3. \A t \in Closes(z, b, n) : t <= n + 1
    BY <1>1 DEF Closes
  <2>4. Min(Closes(z, b, n) \cup {n + 1}) = Min(Closes(z, b, n))
    BY <2>2, <2>3, MinStays
  <2>5. Min(Closes(z, b, n) \cup new) = Min(Closes(z, b, n))
    BY <2>4
  <2> HIDE DEF a, new
  <2>6. TellsSweep(a, b, n + 1)
    <3>1. Closes(z, b, n + 1) = Closes(z, b, n) \cup new
      BY <1>4, <2>1
    <3>2. Closes(z, b, n + 1) # {} /\ Min(Closes(z, b, n + 1)) = Min(Closes(z, b, n))
      BY <2>2, <2>5, <3>1
    <3>3. z.event \in Nat /\ z.event <= n + 1
      BY <1>1
    <3>4. z.known = Min(Closes(z, b, n + 1))
      BY <1>5, <3>2 DEF TellsSweep
    <3>5. z.swept = IF z.side = "BUYSIDE" THEN b[z.known].high ELSE b[z.known].low
      BY <1>5 DEF TellsSweep
    <3>6. TellsSweep(z, b, n + 1)
      BY <1>1, <1>5, <3>2, <3>3, <3>4, <3>5 DEF TellsSweep
    <3>7. QED BY <2>1, <3>6
  <2>7. QED BY <2>1, <2>6 DEF a
<1>6. CASE z.state # "FULL" /\ ReachesFar(z, b[n + 1])
  <2>1. Closes(z, b, n) = {}
    BY <1>6 DEF TellsSweep
  <2>2. Closes(a, b, n + 1) = {n + 1} /\ Min({n + 1}) = n + 1
    BY <1>4, <1>6, <2>1, MinOfOne
  <2>3. /\ a.state = "FULL" /\ a.known = n + 1
        /\ a.swept = IF z.side = "BUYSIDE" THEN b[n + 1].high ELSE b[n + 1].low
    BY <1>1, <1>6 DEF AfterClose, IsFinal, IsZone
  <2> HIDE DEF a, new
  <2>4. TellsSweep(a, b, n + 1)
    <3>1. a.event \in Nat /\ a.event <= n + 1
      BY <1>1, <1>2
    <3>2. Closes(a, b, n + 1) # {} /\ Min(Closes(a, b, n + 1)) = n + 1
      BY <2>2
    <3>3. a.swept = IF a.side = "BUYSIDE" THEN b[a.known].high ELSE b[a.known].low
      BY <1>2, <2>3
    <3>4. QED BY <1>2, <2>3, <3>1, <3>2, <3>3 DEF TellsSweep
  <2>5. QED BY <1>2, <1>6, <2>3, <2>4 DEF a
<1>7. CASE z.state # "FULL" /\ ~ReachesFar(z, b[n + 1])
  <2>1. Closes(a, b, n + 1) = {}
    BY <1>4, <1>7 DEF TellsSweep
  <2>2. a.state # "FULL" /\ (a = z \/ a.known = n + 1)
    BY <1>1, <1>7 DEF AfterClose, IsFinal, IsZone
  <2> HIDE DEF a, new
  <2>3. TellsSweep(a, b, n + 1)
    BY <1>1, <1>2, <2>1, <2>2 DEF TellsSweep
  <2>4. QED BY <1>2, <1>7, <2>2, <2>3 DEF a
<1>8. QED BY <1>5, <1>6, <1>7

LEMMA TraversedTells ==
    ASSUME NEW n \in Nat, NEW b, Len(b) = n + 1, NEW zones, ZonesOK(zones, b, n)
    PROVE  ZonesOK(Traversed(zones, b), b, n + 1) /\ Keeps(zones, Traversed(zones, b), n + 1)
<1> DEFINE new == Traversed(zones, b)
<1>1. Len(zones) \in Nat /\ DOMAIN zones = 1 .. Len(zones) /\ IsList(zones)
  BY ListHas DEF ZonesOK
<1>2. new = [i \in 1 .. Len(zones) |-> AfterClose(zones[i], zones, b)]
  BY <1>1 DEF Traversed
<1>3. /\ IsList(new) /\ Len(new) = Len(zones) /\ DOMAIN new = DOMAIN zones
  <2> DEFINE S == {AfterClose(zones[i], zones, b) : i \in 1 .. Len(zones)}
  <2>1. \A i \in 1 .. Len(zones) : AfterClose(zones[i], zones, b) \in S
    OBVIOUS
  <2> HIDE DEF S
  <2>2. new \in Seq(S)
    BY <1>1, <1>2, <2>1
  <2>3. IsList(new)
    BY <2>2 DEF IsList
  <2>4. DOMAIN new = 1 .. Len(zones)
    BY <1>2
  <2> HIDE DEF new
  <2>5. Len(new) = Len(zones)
    BY <1>1, <2>2, <2>4
  <2>6. QED BY <1>1, <2>3, <2>4, <2>5
<1>4. ASSUME NEW i \in DOMAIN zones
      PROVE  /\ TellsSweep(zones[i], b, n) /\ TellsSweep(new[i], b, n + 1)
             /\ new[i].side = zones[i].side /\ new[i].anchor = zones[i].anchor
             /\ new[i].event = zones[i].event
             /\ zones[i].state = "FULL" => new[i] = zones[i]
             /\ new[i] = zones[i] \/ new[i].known = n + 1
  <2>1. TellsSweep(zones[i], b, n)
    BY DEF ZonesOK
  <2>2. new[i] = AfterClose(zones[i], zones, b)
    BY <1>1, <1>2
  <2> HIDE DEF new
  <2>3. QED BY <2>1, <2>2, AfterCloseTells
<1> HIDE DEF new
<1>5. ASSUME NEW i \in DOMAIN new, NEW j \in i + 1 .. Len(new)
      PROVE  Succeeds(new, i, j)
  <2>1. i \in DOMAIN zones /\ j \in DOMAIN zones /\ j \in i + 1 .. Len(zones)
    BY <1>1, <1>3
  <2>2. \A m \in i + 1 .. j - 1 : m \in DOMAIN zones
    BY <1>1, <2>1
  <2>3. Succeeds(zones, i, j)
    BY <2>1 DEF ZonesOK
  <2>4. QED BY <1>4, <2>1, <2>2, <2>3 DEF Succeeds
<1>6. ZonesOK(new, b, n + 1)
  BY <1>3, <1>4, <1>5 DEF ZonesOK
<1>7. Keeps(zones, new, n + 1)
  BY <1>3, <1>4 DEF Keeps
<1>8. QED BY <1>6, <1>7 DEF new

\* A zone that is drawn, or drawn again.
LEMMA WithZoneTells ==
    ASSUME NEW n \in Nat, NEW b, Len(b) = n + 1, NEW zones, ZonesOK(zones, b, n),
           NEW kind, NEW matching, NEW margin
    PROVE  LET new == WithZone(zones, kind, matching, margin, b)
           IN  ZonesOK(new, b, n) /\ Keeps(zones, new, n + 1)
<1> DEFINE new == WithZone(zones, kind, matching, margin, b)
<1>1. PICK anchor, lower, upper, side :
        /\ anchor = matching[Len(matching)]
        /\ lower = Minus(Center(matching), margin)
        /\ upper = Plus(Center(matching), margin)
        /\ side = Side(kind)
  OBVIOUS
<1>2. PICK i : i = Growing(zones, side, anchor.index)
  OBVIOUS
<1>3. Len(zones) \in Nat /\ DOMAIN zones = 1 .. Len(zones) /\ IsList(zones)
  BY ListHas DEF ZonesOK
<1>4. \A k \in DOMAIN zones : TellsSweep(zones[k], b, n)
  BY DEF ZonesOK
<1>5. \A k \in DOMAIN zones : zones[k].state = "FULL" => zones[k].known \in Int /\ zones[k].known <= n
  <2>1. SUFFICES ASSUME NEW k \in DOMAIN zones, zones[k].state = "FULL"
        PROVE  zones[k].known \in Int /\ zones[k].known <= n
    OBVIOUS
  <2>2. zones[k].event \in Nat
    BY <1>4 DEF TellsSweep
  <2>3. zones[k].known \in zones[k].event + 1 .. n
    BY <1>4, <2>1, SweptByThen
  <2>4. QED BY <2>2, <2>3
<1>6. PICK first :
        /\ first = LatestOn(zones, side)
        /\ \/ /\ first = 0
              /\ \A j \in DOMAIN zones : zones[j].side # side
           \/ /\ first \in DOMAIN zones /\ first # 0 /\ zones[first].side = side
              /\ \A j \in DOMAIN zones : j < first => zones[j].side # side
  BY <1>3, LatestOnIs
<1>7. i = IF /\ first # 0 /\ zones[first].state # "FULL"
             /\ zones[first].anchor = anchor.index
          THEN first ELSE 0
  BY <1>2, <1>6 DEF Growing
<1>8. CASE i # 0
  <2>1. /\ i \in DOMAIN zones /\ zones[i].state # "FULL" /\ zones[i].side = side
        /\ \A j \in DOMAIN zones : j < i => zones[j].side # side
    BY <1>6, <1>7, <1>8
  <2>2. PICK z : z = [zones[i] EXCEPT !.lower = lower, !.upper = upper,
                                      !.event = Len(b) - 1, !.known = Len(b)]
    OBVIOUS
  <2>3. new = [zones EXCEPT ![i] = z]
    BY <1>1, <1>2, <1>8, <2>2 DEF WithZone
  <2>4. /\ IsZone(z) /\ z.event = n /\ z.known = n + 1 /\ z.state = zones[i].state
        /\ z.side = zones[i].side /\ z.anchor = zones[i].anchor
    <3>1. IsZone(zones[i])
      BY <1>4, <2>1 DEF TellsSweep
    <3>2. PICK y : y = zones[i]
      OBVIOUS
    <3>3. z = [y EXCEPT !.lower = lower, !.upper = upper, !.event = n, !.known = n + 1]
      <4>1. Len(b) - 1 = n
        OBVIOUS
      <4>2. QED BY <2>2, <3>2, <4>1
    <3>4. IsZone(y)
      BY <3>1, <3>2
    <3>5. /\ IsZone(z) /\ z.event = n /\ z.known = n + 1 /\ z.state = y.state
          /\ z.side = y.side /\ z.anchor = y.anchor
      BY <3>3, <3>4 DEF IsZone
    <3>6. QED BY <3>2, <3>5
  <2>5. Closes(z, b, n) = {}
    BY <2>4 DEF Closes
  <2>6. TellsSweep(z, b, n)
    BY <2>1, <2>4, <2>5 DEF TellsSweep
  <2> HIDE DEF new
  <2>7. /\ IsList(new) /\ DOMAIN new = DOMAIN zones /\ Len(new) = Len(zones)
        /\ \A j \in DOMAIN zones : new[j] = IF j = i THEN z ELSE zones[j]
    BY <1>3, <2>1, <2>3, ListChanges
  <2>8. \A j \in DOMAIN zones : /\ new[j].side = zones[j].side
                                /\ new[j].anchor = zones[j].anchor
    BY <2>4, <2>7
  <2>9. ASSUME NEW k \in DOMAIN new, NEW j \in k + 1 .. Len(new)
        PROVE  Succeeds(new, k, j)
    <3>1. SUFFICES ASSUME new[j].side = new[k].side, new[j].anchor = new[k].anchor,
                          \A m \in k + 1 .. j - 1 : new[m].side # new[k].side
          PROVE  new[j].state = "FULL" /\ new[j].known <= new[k].event
      BY DEF Succeeds
    <3>2. k \in DOMAIN zones /\ j \in DOMAIN zones /\ j \in k + 1 .. Len(zones) /\ k < j
      BY <1>3, <2>7
    <3>3. \A m \in k + 1 .. j - 1 : m \in DOMAIN zones
      BY <1>3, <3>2
    <3>4. zones[j].state = "FULL" /\ zones[j].known <= zones[k].event
      BY <3>2, <2>8, <3>1, <3>3 DEF ZonesOK, Succeeds
    <3>5. new[j] = zones[j]
      BY <2>1, <2>7, <3>2, <3>4
    <3>6. new[k] = zones[k] \/ new[k].event = n
      BY <2>4, <2>7, <3>2
    <3>7. QED BY <1>5, <3>2, <3>4, <3>5, <3>6
  <2>10. ZonesOK(new, b, n)
    BY <1>4, <2>6, <2>7, <2>9 DEF ZonesOK
  <2>11. Keeps(zones, new, n + 1)
    BY <2>1, <2>4, <2>7 DEF Keeps
  <2>12. QED BY <2>10, <2>11 DEF new
<1>9. CASE i = 0
  <2>1. PICK z : z = [side |-> side, lower |-> lower, upper |-> upper,
                level |-> anchor.level, event |-> Len(b) - 1, known |-> Len(b),
                anchor |-> anchor.index, state |-> "ACTIVE",
                opposing |-> None, swept |-> None]
    OBVIOUS
  <2>2. new = <<z>> \o zones
    BY <1>1, <1>2, <1>9, <2>1 DEF WithZone
  <2>3. /\ IsZone(z) /\ z.event = n /\ z.known = n + 1 /\ z.state = "ACTIVE"
        /\ z.side = side /\ z.anchor = anchor.index
    BY <2>1 DEF IsZone
  <2>4. Closes(z, b, n) = {}
    BY <2>3 DEF Closes
  <2>5. TellsSweep(z, b, n)
    BY <2>3, <2>4 DEF TellsSweep
  <2> HIDE DEF new
  <2>6. /\ IsList(new) /\ Len(new) = Len(zones) + 1 /\ new[1] = z
        /\ \A j \in 1 .. Len(zones) : new[j + 1] = zones[j]
    BY <1>3, <2>2, ListAdds
  <2>7. DOMAIN new = 1 .. Len(zones) + 1
    BY <2>6, ListHas
  <2>8. \A j \in DOMAIN new : j # 1 => j - 1 \in DOMAIN zones /\ new[j] = zones[j - 1]
    <3>1. SUFFICES ASSUME NEW j \in DOMAIN new, j # 1
          PROVE  j - 1 \in DOMAIN zones /\ new[j] = zones[j - 1]
      OBVIOUS
    <3>2. j - 1 \in 1 .. Len(zones) /\ (j - 1) + 1 = j
      BY <1>3, <2>7, <3>1
    <3>3. new[(j - 1) + 1] = zones[j - 1]
      BY <2>6, <3>2
    <3>4. QED BY <1>3, <3>2, <3>3
  <2>9. ASSUME NEW k \in DOMAIN new, NEW j \in k + 1 .. Len(new)
        PROVE  Succeeds(new, k, j)
    <3>1. SUFFICES ASSUME new[j].side = new[k].side, new[j].anchor = new[k].anchor,
                          \A m \in k + 1 .. j - 1 : new[m].side # new[k].side
          PROVE  new[j].state = "FULL" /\ new[j].known <= new[k].event
      BY DEF Succeeds
    <3>2. /\ k \in Nat /\ j \in Nat /\ j # 1 /\ k < j /\ j \in DOMAIN new
          /\ j - 1 \in 1 .. Len(zones)
      BY <1>3, <2>6, <2>7
    <3>3. new[j] = zones[j - 1]
      BY <2>8, <3>2
    <3>4. CASE k = 1
      <4>1. zones[j - 1].side = side /\ zones[j - 1].anchor = anchor.index
        BY <2>3, <2>6, <3>1, <3>3, <3>4
      <4>2. \A m \in 1 .. j - 2 : zones[m].side # side
        <5>1. SUFFICES ASSUME NEW m \in 1 .. j - 2 PROVE zones[m].side # side
          OBVIOUS
        <5>2. m + 1 \in k + 1 .. j - 1 /\ m \in 1 .. Len(zones)
          BY <1>3, <3>2, <3>4
        <5>3. new[m + 1] = zones[m] /\ new[m + 1].side # new[k].side
          BY <2>6, <3>1, <5>2
        <5>4. QED BY <2>3, <2>6, <3>4, <5>3
      <4>3. first = j - 1
        <5>1. first # 0 /\ first \in 1 .. Len(zones) /\ zones[first].side = side
          BY <1>3, <1>6, <3>2, <4>1
        <5>2. ~(first < j - 1)
          <6>1. SUFFICES ASSUME first < j - 1 PROVE FALSE
            OBVIOUS
          <6>2. first \in 1 .. j - 2
            BY <3>2, <5>1, <6>1
          <6>3. QED BY <4>2, <5>1, <6>2
        <5>3. ~(j - 1 < first)
          BY <1>3, <1>6, <3>2, <4>1, <5>1
        <5>4. QED BY <3>2, <5>1, <5>2, <5>3
      <4>4. zones[j - 1].state = "FULL"
        BY <1>7, <1>9, <3>2, <4>1, <4>3
      <4>5. zones[j - 1].known <= n
        BY <1>3, <1>5, <3>2, <4>4
      <4>6. QED BY <2>3, <2>6, <3>3, <3>4, <4>4, <4>5
    <3>5. CASE k # 1
      <4>1. new[k] = zones[k - 1] /\ k - 1 \in DOMAIN zones
        BY <2>8, <3>5
      <4>2. j - 1 \in (k - 1) + 1 .. Len(zones)
        BY <3>2
      <4>3. \A m \in (k - 1) + 1 .. (j - 1) - 1 : zones[m].side # zones[k - 1].side
        <5>1. SUFFICES ASSUME NEW m \in (k - 1) + 1 .. (j - 1) - 1
              PROVE  zones[m].side # zones[k - 1].side
          OBVIOUS
        <5>2. m + 1 \in k + 1 .. j - 1 /\ m \in 1 .. Len(zones)
          <6>1. k - 1 \in 1 .. Len(zones)
            BY <1>3, <4>1
          <6>2. QED BY <1>3, <3>2, <6>1
        <5>3. new[m + 1] = zones[m] /\ new[m + 1].side # new[k].side
          BY <2>6, <3>1, <5>2
        <5>4. QED BY <4>1, <5>3
      <4>4. Succeeds(zones, k - 1, j - 1)
        BY <4>1, <4>2 DEF ZonesOK
      <4>5. QED BY <3>1, <3>3, <4>1, <4>3, <4>4 DEF Succeeds
    <3>6. QED BY <3>4, <3>5
  <2>10. \A j \in DOMAIN new : TellsSweep(new[j], b, n)
    BY <1>4, <2>5, <2>6, <2>8
  <2>11. ZonesOK(new, b, n)
    BY <2>6, <2>9, <2>10 DEF ZonesOK
  <2>12. Keeps(zones, new, n + 1)
    <3>1. \A j \in DOMAIN zones : j + 1 \in DOMAIN new /\ new[j + 1] = zones[j]
      BY <1>3, <2>6, <2>7
    <3>2. \A j \in DOMAIN new : new[j].known = n + 1 \/ \E k \in DOMAIN zones : new[j] = zones[k]
      BY <2>3, <2>6, <2>8
    <3>3. QED BY <3>1, <3>2 DEF Keeps
  <2>13. QED BY <2>11, <2>12 DEF new
<1>10. QED BY <1>8, <1>9

-----------------------------------------------------------------------------
LEMMA ClusteredTells ==
    ASSUME NEW n \in Nat, NEW b, Len(b) = n + 1, NEW l, IsBook(l), ZonesOK(l.zones, b, n),
           NEW kind
    PROVE  LET new == Clustered(l, kind, b)
           IN  /\ IsBook(new) /\ ZonesOK(new.zones, b, n)
               /\ Keeps(l.zones, new.zones, n + 1)
<1> DEFINE new == Clustered(l, kind, b)
<1> PICK points : points = UpdateZigzag(l.points, NewPoint(kind, b))
  OBVIOUS
<1> PICK atr : atr = WilderAtr(b, ClusterAtr)
  OBVIOUS
<1> PICK margin : margin = Times(Margin, atr)
  OBVIOUS
<1> PICK matching : matching = Matching(points, kind, NewPoint(kind, b).level, margin)
  OBVIOUS
<1> PICK cluster : cluster = <<kind, [i \in DOMAIN matching |-> matching[i].index]>>
  OBVIOUS
<1>1. new = IF ~IsPivot(kind, b, ClusterWidth) \/ points = l.points THEN l
            ELSE IF atr = None \/ Len(matching) < MinimumPivots \/ cluster \in l.seen
            THEN [l EXCEPT !.points = points]
            ELSE [points |-> points, seen |-> l.seen \cup {cluster},
                  zones |-> WithZone(l.zones, kind, matching, margin, b)]
  BY DEF Clustered
<1> HIDE DEF new
<1>2. CASE new.zones = l.zones /\ IsBook(new)
  BY <1>2 DEF Keeps, new
<1>3. CASE new.zones = WithZone(l.zones, kind, matching, margin, b) /\ IsBook(new)
  BY <1>3, WithZoneTells DEF new
<1>4. \/ new.zones = l.zones /\ IsBook(new)
      \/ new.zones = WithZone(l.zones, kind, matching, margin, b) /\ IsBook(new)
  BY <1>1 DEF IsBook
<1>5. QED BY <1>2, <1>3, <1>4

LEMMA KeepsOn ==
    ASSUME NEW old, NEW mid, NEW new, NEW m, Keeps(old, mid, m), Keeps(mid, new, m)
    PROVE  Keeps(old, new, m)
BY DEF Keeps

\* Later bars do not change what was told of the bars before them.
LEMMA ZonesStay ==
    ASSUME BarsOK, ReadsBar, NEW zones
    PROVE  ZonesOK(zones, bars', Now) <=> ZonesOK(zones, bars, Now)
<1>1. Now \in Nat /\ \A i \in 1 .. Now : bars'[i] = bars[i]
  BY Grows
<1>2. ASSUME NEW z, z.event \in Nat
      PROVE  Closes(z, bars', Now) = Closes(z, bars, Now)
  BY <1>1, <1>2 DEF Closes
<1>3. ASSUME NEW z, z.event \in Nat, Closes(z, bars, Now) # {}
      PROVE  Min(Closes(z, bars, Now)) \in 1 .. Now
  BY <1>3, <1>1, MinIsLeast DEF Closes
<1>4. ASSUME NEW z
      PROVE  TellsSweep(z, bars', Now) <=> TellsSweep(z, bars, Now)
  <2>1. CASE z.event \notin Nat
    BY <2>1 DEF TellsSweep
  <2>2. CASE z.event \in Nat
    BY <1>1, <1>2, <1>3, <2>2 DEF TellsSweep
  <2>3. QED BY <2>1, <2>2
<1>5. QED BY <1>4 DEF ZonesOK

LEMMA ZonesStep ==
    ASSUME BarsOK, ReadsBar, ZonesInv, LiquidityBar(bars')
    PROVE  ZonesInv' /\ Keeps(liquidity.zones, liquidity'.zones, Now')
<1>1. /\ Now \in Nat /\ Now' = Now + 1 /\ Len(bars') = Now + 1
  BY Grows DEF Now
<1>2. PICK n, b, l, h, low :
        /\ n = Now /\ b = bars' /\ l = liquidity
        /\ h = Clustered(l, "HIGH", b) /\ low = Clustered(h, "LOW", b)
  OBVIOUS
<1>3. IsBook(l) /\ ZonesOK(l.zones, b, n)
  BY <1>2, ZonesStay DEF ZonesInv
<1>4. n \in Nat /\ Len(b) = n + 1
  BY <1>1, <1>2
<1>5. IsBook(h) /\ ZonesOK(h.zones, b, n) /\ Keeps(l.zones, h.zones, n + 1)
  BY <1>2, <1>3, <1>4, ClusteredTells
<1>6. IsBook(low) /\ ZonesOK(low.zones, b, n) /\ Keeps(h.zones, low.zones, n + 1)
  BY <1>2, <1>4, <1>5, ClusteredTells
<1>7. /\ ZonesOK(Traversed(low.zones, b), b, n + 1)
      /\ Keeps(low.zones, Traversed(low.zones, b), n + 1)
  BY <1>4, <1>6, TraversedTells
<1>8. liquidity' = [low EXCEPT !.zones = Traversed(@, b)]
  BY <1>2 DEF LiquidityBar
<1>9. IsBook(liquidity') /\ liquidity'.zones = Traversed(low.zones, b)
  BY <1>6, <1>8 DEF IsBook
<1>10. Keeps(l.zones, liquidity'.zones, n + 1)
  BY <1>5, <1>6, <1>7, <1>9, KeepsOn
<1>11. QED BY <1>1, <1>2, <1>7, <1>9, <1>10 DEF ZonesInv

-----------------------------------------------------------------------------
LEMMA ZonesInit ==
    ASSUME Unread
    PROVE  BarsOK /\ ZonesInv
<1>1. bars = <<>> /\ liquidity = [points |-> <<>>, zones |-> <<>>, seen |-> {}]
  BY DEF Unread, IctInit, NoBook
<1>2. BarsOK
  BY <1>1 DEF Unread, BarsOK
<1>3. IsBook(liquidity) /\ liquidity.zones = <<>>
  BY <1>1 DEF IsBook
<1>4. IsList(<<>>) /\ DOMAIN <<>> = {}
  BY DEF IsList
<1>5. QED BY <1>2, <1>3, <1>4 DEF ZonesInv, ZonesOK

LEMMA ZonesNext ==
    ASSUME BarsOK, ZonesInv, [Next]_vars
    PROVE  BarsOK' /\ ZonesInv'
<1>1. CASE NextBar
  BY <1>1, Grows, ZonesStep DEF NextBar, IctBar, BarsOK
<1>2. CASE UNCHANGED vars
  BY <1>2 DEF vars, ictVars, BarsOK, ZonesInv, Now
<1>3. CASE Slide
  <2>1. Unread'
    BY <1>3, Restarts
  <2>2. QED BY <2>1, ZonesInit, PTL
<1>4. QED BY <1>1, <1>2, <1>3 DEF Next

\* A zone tells its sweep: the first close beyond its far edge since it was drawn
\* last, and a zone over the same oldest pivot is drawn after that only.
THEOREM ZonesAreTold == Spec => []ZonesTellTheirSweep
<1>1. Init => BarsOK /\ ZonesInv
  BY AtFirst, ZonesInit
<1>2. BarsOK /\ ZonesInv /\ [Next]_vars => BarsOK' /\ ZonesInv'
  BY ZonesNext
<1>3. BarsOK /\ ZonesInv => ZonesTellTheirSweep
  <2> SUFFICES ASSUME BarsOK, ZonesInv PROVE ZonesTellTheirSweep
    OBVIOUS
  <2>1. PICK zones : zones = liquidity.zones
    OBVIOUS
  <2>2. \A i \in DOMAIN zones : TellsSweep(zones[i], bars, Now)
    BY <2>1 DEF ZonesInv, ZonesOK
  <2>3. \A i \in DOMAIN zones : \A j \in i + 1 .. Len(zones) : Succeeds(zones, i, j)
    BY <2>1 DEF ZonesInv, ZonesOK
  <2>4. QED BY <2>1, <2>2, <2>3 DEF ZonesTellTheirSweep, TellsSweep, Closes, Succeeds
<1>4. QED BY <1>1, <1>2, <1>3, PTL DEF Spec

-----------------------------------------------------------------------------
(* Events and order blocks: what is added to a list leaves it as it was.    *)

LEMMA ConfirmedKeeps ==
    ASSUME NEW b, NEW size, NEW s
    PROVE  /\ IsSwing(s) => /\ IsSwing(Confirmed(b, size, s))
                            /\ Confirmed(b, size, s).events = s.events
           /\ IsEqual(s) => /\ IsEqual(Confirmed(b, size, s))
                            /\ Confirmed(b, size, s).events = s.events
           /\ IsBlocks(s) => /\ IsBlocks(Confirmed(b, size, s))
                             /\ Confirmed(b, size, s).active = s.active
<1> DEFINE new == Confirmed(b, size, s)
<1>1. PICK leg, pivot : new = IF leg = s.leg THEN s
                               ELSE [s EXCEPT !.leg = leg, !.pivot = pivot]
  <2>1. PICK leg, i : leg = NextLeg(b, size, s.leg) /\ i = Len(b) - size
    OBVIOUS
  <2>2. PICK p : p = [level |-> Extreme(leg, b[i]), index |-> i, crossed |-> FALSE]
    OBVIOUS
  <2>3. new = IF leg = s.leg THEN s ELSE [s EXCEPT !.leg = leg, !.pivot[leg] = p]
    BY <2>1, <2>2 DEF Confirmed
  <2>4. PICK pivot : pivot = [s.pivot EXCEPT ![leg] = p]
    OBVIOUS
  <2> HIDE DEF new
  <2>5. new = IF leg = s.leg THEN s ELSE [s EXCEPT !.leg = leg, !.pivot = pivot]
    BY <2>3, <2>4
  <2>6. QED BY <2>5
<1> HIDE DEF new
<1>2. IsSwing(s) => IsSwing(new) /\ new.events = s.events
  BY <1>1 DEF IsSwing
<1>3. IsEqual(s) => IsEqual(new) /\ new.events = s.events
  BY <1>1 DEF IsEqual
<1>4. IsBlocks(s) => IsBlocks(new) /\ new.active = s.active
  BY <1>1 DEF IsBlocks
<1>5. QED BY <1>2, <1>3, <1>4 DEF new

LEMMA BreaksListed ==
    ASSUME NEW b, NEW s, NEW t
    PROVE  /\ Broken(b, s) \in SUBSET {"HIGH", "LOW"}
           /\ IsList(SetToSeq({BreakEvent(kind, t, Len(b)) : kind \in Broken(b, s)}))
<1>1. Broken(b, s) \in SUBSET {"HIGH", "LOW"}
  BY DEF Broken, Kinds
<1>2. PICK x, y : x = BreakEvent("HIGH", t, Len(b)) /\ y = BreakEvent("LOW", t, Len(b))
  OBVIOUS
<1>3. PICK X : X = {BreakEvent(kind, t, Len(b)) : kind \in Broken(b, s)}
  OBVIOUS
<1>4. X \in SUBSET {x, y}
  BY <1>1, <1>2, <1>3
<1>5. SetToSeq(X) \in Seq(X)
  BY <1>4, PairIsListed
<1>6. QED BY <1>1, <1>3, <1>5 DEF IsList

LEMMA SwingIs ==
    ASSUME ListsInv, NEW b, SwingBar(b)
    PROVE  LET s == Confirmed(b, SwingLength, swing)
               pivots == IF s.leg = swing.leg THEN <<>>
                         ELSE <<PivotEvent(swing, s, Len(b))>>
               breaks == SetToSeq({BreakEvent(kind, s, Len(b)) : kind \in Broken(b, s)})
           IN  /\ IsSwing(s) /\ s.events = swing.events
               /\ IsList(pivots) /\ IsList(breaks)
               /\ IsSwing(swing') /\ swing'.events = (swing.events \o pivots) \o breaks
               /\ swing'.leg = s.leg
               /\ swing'.pivot = CrossOff(s, Broken(b, s)).pivot
               /\ swing'.trend = IF Broken(b, s) = {} THEN s.trend
                                 ELSE CHOOSE kind \in Broken(b, s) : TRUE
<1>1. PICK s : s = Confirmed(b, SwingLength, swing)
  OBVIOUS
<1>2. IsSwing(s) /\ s.events = swing.events
  BY <1>1, ConfirmedKeeps DEF ListsInv
<1>3. PICK pivots : pivots = IF s.leg = swing.leg THEN <<>>
                             ELSE <<PivotEvent(swing, s, Len(b))>>
  OBVIOUS
<1>4. IsList(pivots)
  <2>1. PICK x : x = PivotEvent(swing, s, Len(b))
    OBVIOUS
  <2>2. <<>> \in Seq({x}) /\ <<x>> \in Seq({x})
    OBVIOUS
  <2>3. pivots = <<>> \/ pivots = <<x>>
    BY <1>3, <2>1
  <2>4. QED BY <2>2, <2>3 DEF IsList
<1>5. PICK breaks : breaks = SetToSeq({BreakEvent(kind, s, Len(b)) : kind \in Broken(b, s)})
  OBVIOUS
<1>6. IsList(breaks)
  BY <1>5, BreaksListed
<1>7. PICK off : off = CrossOff(s, Broken(b, s))
  OBVIOUS
<1>8. IsSwing(off) /\ off.events = swing.events /\ off.leg = s.leg /\ off.trend = s.trend
  BY <1>2, <1>7 DEF CrossOff, IsSwing
<1>9. PICK trend : /\ trend = IF Broken(b, s) = {} THEN s.trend
                              ELSE CHOOSE kind \in Broken(b, s) : TRUE
                   /\ swing' = [off EXCEPT !.trend = trend, !.events = (@ \o pivots) \o breaks]
  <2>1. swing' = [off EXCEPT !.trend = IF Broken(b, s) = {} THEN @
                                       ELSE CHOOSE kind \in Broken(b, s) : TRUE,
                             !.events = (@ \o pivots) \o breaks]
    BY <1>1, <1>3, <1>5, <1>7 DEF SwingBar
  <2>2. PICK trend : trend = IF Broken(b, s) = {} THEN s.trend
                              ELSE CHOOSE kind \in Broken(b, s) : TRUE
    OBVIOUS
  <2>3. QED BY <1>8, <2>1, <2>2
<1>10. /\ IsSwing(swing') /\ swing'.events = (swing.events \o pivots) \o breaks
       /\ swing'.leg = s.leg /\ swing'.pivot = off.pivot /\ swing'.trend = trend
  BY <1>8, <1>9 DEF IsSwing
<1>11. QED BY <1>1, <1>2, <1>3, <1>4, <1>5, <1>6, <1>7, <1>9, <1>10

LEMMA SwingAdds ==
    ASSUME ListsInv, NEW b, SwingBar(b)
    PROVE  IsSwing(swing') /\ IsList(swing'.events) /\ IsPrefix(swing.events, swing'.events)
<1>1. PICK pivots, breaks :
        /\ IsList(pivots) /\ IsList(breaks)
        /\ IsSwing(swing') /\ swing'.events = (swing.events \o pivots) \o breaks
  BY SwingIs
<1>2. QED BY <1>1, PrefixOfSum DEF ListsInv

LEMMA EqualAdds ==
    ASSUME ListsInv, NEW b, EqualBar(b)
    PROVE  /\ IsEqual(equals') /\ IsList(equals'.events)
           /\ IsPrefix(equals.events, equals'.events)
<1>1. PICK s : s = Confirmed(b, ConfirmationBars, equals)
  OBVIOUS
<1>2. IsEqual(s) /\ s.events = equals.events
  BY <1>1, ConfirmedKeeps DEF ListsInv
<1>3. \E x : equals' = [s EXCEPT !.events = Append(@, x)] \/ equals' = s
  BY <1>1 DEF EqualBar
<1>4. PICK x : equals' = [s EXCEPT !.events = Append(@, x)] \/ equals' = s
  BY <1>3
<1>5. IsEqual(equals') /\ equals'.events \in {Append(equals.events, x), equals.events}
  BY <1>2, <1>4 DEF IsEqual
<1>6. QED BY <1>5, PrefixOfMore DEF ListsInv

LEMMA StructureAdds ==
    ASSUME ListsInv, NEW b, StructureBar(b)
    PROVE  /\ IsStructure(structure') /\ IsList(structure'.events)
           /\ IsPrefix(structure.events, structure'.events)
           /\ \/ structure'.events = structure.events
              \/ \E x : x.event = Len(b) /\ structure'.events = Append(structure.events, x)
<1>1. PICK s : s = structure
  OBVIOUS
<1>2. IsStructure(s) /\ IsList(s.events)
  BY <1>1 DEF ListsInv
<1> DEFINE News(t) == /\ IsStructure(t)
                      /\ \/ t.events = s.events
                         \/ \E x : x.event = Len(b) /\ t.events = Append(s.events, x)
<1>3. ASSUME NEW kind, NEW points
      PROVE  /\ News(Shifted(s, kind, points, b))
             /\ News(Continued(s, kind, points, b))
             /\ News([s EXCEPT !.points = points])
  <2>1. PICK x, y, level : /\ x = StructureEvent("MSS", kind, points, b)
                           /\ y = StructureEvent("BOS", kind, points, b)
                           /\ level = Selected(points, kind).level
    OBVIOUS
  <2>2. PICK mss, bos : mss = [s.mss EXCEPT ![kind] = level] /\ bos = [s.bos EXCEPT ![kind] = level]
    OBVIOUS
  <2>3. Shifted(s, kind, points, b) =
          [s EXCEPT !.points = points, !.trend = kind, !.mss = mss,
                    !.events = Append(s.events, x)]
    BY <2>1, <2>2 DEF Shifted
  <2>4. Continued(s, kind, points, b) =
          [s EXCEPT !.points = points, !.bos = bos, !.events = Append(s.events, y)]
    BY <2>1, <2>2 DEF Continued
  <2>5. PICK p, q : p = Append(s.events, x) /\ q = Append(s.events, y)
    OBVIOUS
  <2>6. ASSUME NEW t, t = [s EXCEPT !.points = points, !.trend = kind, !.mss = mss, !.events = p]
        PROVE  IsStructure(t) /\ t.events = p
    BY <1>2, <2>6 DEF IsStructure
  <2>7. ASSUME NEW t, t = [s EXCEPT !.points = points, !.bos = bos, !.events = q]
        PROVE  IsStructure(t) /\ t.events = q
    BY <1>2, <2>7 DEF IsStructure
  <2>8. ASSUME NEW t, t = [s EXCEPT !.points = points]
        PROVE  IsStructure(t) /\ t.events = s.events
    BY <1>2, <2>8 DEF IsStructure
  <2>9. News(Shifted(s, kind, points, b))
    <3>1. PICK t : t = Shifted(s, kind, points, b)
      OBVIOUS
    <3>2. IsStructure(t) /\ t.events = p
      BY <2>3, <2>5, <2>6, <3>1
    <3>3. x.event = Len(b)
      BY <2>1 DEF StructureEvent
    <3>4. QED BY <2>5, <3>1, <3>2, <3>3
  <2>10. News(Continued(s, kind, points, b))
    <3>1. PICK t : t = Continued(s, kind, points, b)
      OBVIOUS
    <3>2. IsStructure(t) /\ t.events = q
      BY <2>4, <2>5, <2>7, <3>1
    <3>3. y.event = Len(b)
      BY <2>1 DEF StructureEvent
    <3>4. QED BY <2>5, <3>1, <3>2, <3>3
  <2>11. QED BY <2>8, <2>9, <2>10
<1>4. PICK points : points = StructurePoints(s.points, b)
  OBVIOUS
<1>5. \/ structure' = Shifted(s, "HIGH", points, b)
      \/ structure' = Shifted(s, "LOW", points, b)
      \/ structure' = Continued(s, "HIGH", points, b)
      \/ structure' = Continued(s, "LOW", points, b)
      \/ structure' = [s EXCEPT !.points = points]
  BY <1>1, <1>4 DEF StructureBar
<1> HIDE DEF News
<1>6. News(structure')
  <2>1. /\ News(Shifted(s, "HIGH", points, b)) /\ News(Shifted(s, "LOW", points, b))
        /\ News(Continued(s, "HIGH", points, b)) /\ News(Continued(s, "LOW", points, b))
        /\ News([s EXCEPT !.points = points])
    BY <1>3
  <2>2. PICK t : t = structure'
    OBVIOUS
  <2>3. News(t)
    BY <1>5, <2>1, <2>2
  <2>4. QED BY <2>2, <2>3
<1>7. QED BY <1>1, <1>2, <1>6, PrefixOfMore DEF News

LEMMA UnmitigatedTurns ==
    ASSUME NEW S, NEW list \in Seq(S), NEW c
    PROVE  \E kept : Unmitigated(list, c) = kept[Len(list)] /\ Leaves(kept, list, c)
<1> DEFINE n == Len(list)
           Turn(f, i) == IF i = 0 THEN <<>>
                         ELSE IF Mitigates(list[i], c) THEN f[i - 1]
                         ELSE Append(f[i - 1], list[i])
           Loop(f, m) == f = [i \in 0 .. m |-> Turn(f, i)]
           Reaching == {m \in Nat : \E f : Loop(f, m)}
           kept == CHOOSE f : Loop(f, n)
<1>1. n \in Nat /\ \A i \in 1 .. n : list[i] \in S
  OBVIOUS
<1>2. 0 \in Reaching
  <2> DEFINE f == [i \in 0 .. 0 |-> <<>>]
  <2>1. \A i \in 0 .. 0 : Turn(f, i) = <<>>
    OBVIOUS
  <2> HIDE DEF Turn
  <2>2. Loop(f, 0)
    BY <2>1
  <2>3. QED BY <2>2
<1>3. ASSUME NEW m \in Nat, m \in Reaching PROVE m + 1 \in Reaching
  <2>1. PICK f : Loop(f, m)
    BY <1>3
  <2> DEFINE g == [i \in 0 .. m + 1 |-> IF i <= m THEN f[i] ELSE Turn(f, i)]
  <2>2. \A i \in 0 .. m : g[i] = f[i] /\ f[i] = Turn(f, i)
    <3>1. \A i \in 0 .. m : f[i] = Turn(f, i)
      <4> HIDE DEF Turn, g
      <4>1. QED BY <2>1
    <3>2. \A i \in 0 .. m : g[i] = f[i]
      <4> HIDE DEF Turn
      <4>1. \A i \in 0 .. m : i \in 0 .. m + 1 /\ i <= m
        OBVIOUS
      <4>2. QED BY <4>1
    <3> HIDE DEF Turn, g
    <3>3. QED BY <3>1, <3>2
  <2>3. \A i \in 0 .. m + 1 : i = 0 \/ i - 1 \in 0 .. m
    OBVIOUS
  <2>4. ASSUME NEW i \in 0 .. m + 1 PROVE g[i] = Turn(g, i)
    <3>1. Turn(g, i) = Turn(f, i)
      BY <2>2, <2>3
    <3>2. g[i] = Turn(f, i)
      <4>1. g[i] = IF i <= m THEN f[i] ELSE Turn(f, i)
        <5> HIDE DEF Turn
        <5>1. QED OBVIOUS
      <4>2. i <= m => f[i] = Turn(f, i)
        <5> HIDE DEF Turn, g
        <5>1. QED BY <2>2
      <4> HIDE DEF Turn, g
      <4>3. QED BY <4>1, <4>2
    <3>3. QED BY <3>1, <3>2
  <2>5. g = [i \in 0 .. m + 1 |-> g[i]]
    OBVIOUS
  <2> HIDE DEF g, Turn
  <2>6. Loop(g, m + 1)
    BY <2>4, <2>5
  <2>7. QED BY <2>6
<1>4. n \in Reaching
  <2> HIDE DEF Reaching, n
  <2>1. Nat \subseteq Reaching
    BY <1>2, <1>3, Induction
  <2>2. QED BY <1>1, <2>1
<1>5. Loop(kept, n)
  BY <1>4
<1>6. Unmitigated(list, c) = kept[n]
  BY DEF Unmitigated
<1> HIDE DEF kept
<1>7. kept[0] = <<>> /\ \A i \in 0 .. n : i # 0 =>
         kept[i] = IF Mitigates(list[i], c) THEN kept[i - 1] ELSE Append(kept[i - 1], list[i])
  <2>1. \A i \in 0 .. n : kept[i] = Turn(kept, i)
    <3> HIDE DEF Turn, n
    <3>1. QED BY <1>5
  <2>2. 0 \in 0 .. n
    BY <1>1
  <2>3. QED BY <2>1, <2>2
<1>8. Leaves(kept, list, c)
  BY <1>1, <1>7 DEF Leaves
<1>9. QED BY <1>6, <1>8

\* They are those of the list that it does not go through.
LEMMA UnmitigatedIs ==
    ASSUME NEW S, NEW list \in Seq(S), NEW c
    PROVE  /\ Unmitigated(list, c) \in Seq(S)
           /\ Len(Unmitigated(list, c)) <= Len(list)
           /\ Range(Unmitigated(list, c)) = {e \in Range(list) : ~Mitigates(e, c)}
<1>1. PICK n : n = Len(list)
  OBVIOUS
<1>2. n \in Nat /\ \A i \in 1 .. n : list[i] \in S
  BY <1>1
<1>3. PICK kept : Unmitigated(list, c) = kept[n] /\ Leaves(kept, list, c)
  BY <1>1, UnmitigatedTurns
<1> DEFINE First(i) == {e \in {list[j] : j \in 1 .. i} : ~Mitigates(e, c)}
           Right(i) == /\ kept[i] \in Seq(S) /\ Len(kept[i]) <= i
                       /\ Range(kept[i]) = First(i)
           Good == {i \in Nat : i <= n => Right(i)}
<1>7. kept[0] = <<>> /\ \A i \in 0 .. n : i # 0 =>
         kept[i] = IF Mitigates(list[i], c) THEN kept[i - 1] ELSE Append(kept[i - 1], list[i])
  BY <1>1, <1>2, <1>3 DEF Leaves
<1>8. 0 \in Good
  <2>1. Range(<<>>) = {} /\ First(0) = {} /\ Len(<<>>) = 0
    BY DEF Range
  <2>2. Right(0)
    <3>1. <<>> \in Seq(S) /\ Len(<<>>) <= 0 /\ kept[0] = <<>>
      BY <1>7
    <3>2. Range(kept[0]) = First(0)
      <4> HIDE DEF First
      <4>1. QED BY <2>1, <3>1
    <3> HIDE DEF First
    <3>3. QED BY <3>1, <3>2
  <2> HIDE DEF Right
  <2>3. QED BY <2>2
<1>9. ASSUME NEW i \in Nat, i \in Good PROVE i + 1 \in Good
  <2>1. SUFFICES ASSUME i + 1 <= n PROVE Right(i + 1)
    OBVIOUS
  <2>2. Right(i) /\ i + 1 \in 1 .. n /\ i + 1 \in 0 .. n /\ i + 1 # 0 /\ (i + 1) - 1 = i
    BY <1>2, <1>9, <2>1
  <2>3. 1 .. i + 1 = (1 .. i) \cup {i + 1}
    OBVIOUS
  <2>4. {list[j] : j \in 1 .. i + 1} = {list[j] : j \in 1 .. i} \cup {list[i + 1]}
    BY <2>3
  <2> DEFINE x == list[i + 1]
             s == kept[i]
  <2>5. x \in S /\ s \in Seq(S) /\ Len(s) <= i
    BY <1>2, <2>2
  <2>6. CASE ~Mitigates(x, c)
    <3>1. kept[i + 1] = Append(s, x)
      BY <1>7, <2>2, <2>6
    <3>2. First(i + 1) = First(i) \cup {x}
      BY <2>4, <2>6
    <3> HIDE DEF x, s, First
    <3>3. Range(Append(s, x)) = Range(s) \cup {x}
      <4>1. /\ DOMAIN s = 1 .. Len(s) /\ DOMAIN Append(s, x) = 1 .. Len(s) + 1 /\ Len(s) \in Nat
            /\ Append(s, x)[Len(s) + 1] = x
            /\ \A j \in 1 .. Len(s) : Append(s, x)[j] = s[j]
        BY <2>5
      <4>2. QED BY <4>1 DEF Range
    <3>4. Append(s, x) \in Seq(S) /\ Len(Append(s, x)) <= i + 1
      BY <2>5
    <3>5. Range(s) = First(i)
      BY <2>2 DEF s
    <3>6. QED BY <3>1, <3>2, <3>3, <3>4, <3>5
  <2>7. CASE Mitigates(x, c)
    <3>1. kept[i + 1] = s
      BY <1>7, <2>2, <2>7
    <3>2. First(i + 1) = First(i)
      BY <2>4, <2>7
    <3> HIDE DEF First
    <3>3. Len(s) <= i + 1
      BY <2>5
    <3>4. QED BY <2>2, <3>1, <3>2, <3>3
  <2>8. QED BY <2>6, <2>7
<1>10. Right(n)
  <2> HIDE DEF Good, Right
  <2>1. Nat \subseteq Good
    BY <1>8, <1>9, Induction
  <2>2. QED BY <1>2, <2>1 DEF Good
<1>11. First(n) = {e \in Range(list) : ~Mitigates(e, c)}
  BY <1>1 DEF Range
<1>12. QED BY <1>1, <1>2, <1>3, <1>10, <1>11

\* A block of the list was in it before, or is made by the bar.
LEMMA BlocksAdd ==
    ASSUME ListsInv, NEW b, Len(b) \in Nat, BlockBar(b)
    PROVE  /\ IsBlocks(blocks') /\ IsList(blocks'.active)
           /\ \A p \in Range(blocks'.active) : p.event = Len(b) \/ p \in Range(blocks.active)
<1>1. PICK s : s = Confirmed(b, BlockSize, blocks)
  OBVIOUS
<1>2. IsBlocks(s) /\ s.active = blocks.active
  BY <1>1, ConfirmedKeeps DEF ListsInv
<1>3. PICK X : X = {Block(kind, b, s.pivot[kind]) : kind \in Broken(b, s)}
  OBVIOUS
<1>4. \A p \in X : p.event = Len(b)
  BY <1>3 DEF Block
<1>5. SetToSeq(X) \in Seq(X)
  <2>1. PICK x, y : x = Block("HIGH", b, s.pivot["HIGH"]) /\ y = Block("LOW", b, s.pivot["LOW"])
    OBVIOUS
  <2>2. X \in SUBSET {x, y}
    BY <1>3, <2>1 DEF Broken, Kinds
  <2>3. QED BY <2>2, PairIsListed
<1>6. PICK all : all = SetToSeq(X) \o blocks.active
  OBVIOUS
<1>7. PICK S : blocks.active \in Seq(S)
  BY DEF ListsInv, IsList
<1>8. PICK T : T = X \cup Range(blocks.active)
  OBVIOUS
<1>9. all \in Seq(T)
  BY <1>7, SeqOfRange, <1>5, <1>8, <1>6
<1>10. PICK left : left = Unmitigated(all, b[Len(b)])
  OBVIOUS
<1>11. left \in Seq(T)
  BY <1>9, <1>10, UnmitigatedIs
<1>12. Latest(left) \in Seq(T)
  <2>1. Len(left) \in Nat
    BY <1>11
  <2>2. {MaximumBlocks, Len(left)} \in SUBSET Nat
    BY <2>1, SmcAssumption
  <2>3. Min({MaximumBlocks, Len(left)}) \in Nat /\ Min({MaximumBlocks, Len(left)}) <= Len(left)
    BY <2>2, MinIsLeast
  <2>4. PICK m \in Nat : m = Min({MaximumBlocks, Len(left)}) /\ m <= Len(left)
    BY <2>3
  <2>5. \A i \in 1 .. m : left[i] \in T
    BY <1>11, <2>1, <2>4
  <2>6. SubSeq(left, 1, m) \in Seq(T)
    BY <2>5, SubSeqProperties
  <2>7. QED BY <2>4, <2>6 DEF Latest
<1>13. PICK off : off = CrossOff(s, Broken(b, s))
  OBVIOUS
<1>14. IsBlocks(off) /\ off.active = blocks.active
  BY <1>2, <1>13 DEF CrossOff, IsBlocks
<1>15. blocks' = [off EXCEPT !.active = Latest(Unmitigated(SetToSeq(X) \o @, b[Len(b)]))]
  BY <1>1, <1>3, <1>13 DEF BlockBar
<1>16. IsBlocks(blocks') /\ blocks'.active = Latest(left)
  BY <1>6, <1>10, <1>14, <1>15 DEF IsBlocks
<1>17. Range(Latest(left)) \subseteq T
  BY <1>12, RangeOfSeq
<1>18. QED BY <1>4, <1>8, <1>12, <1>16, <1>17 DEF IsList

-----------------------------------------------------------------------------
(* When what the scans keep happened and became known.                      *)

\* A turned leg has the pivot that the last bar confirms.
LEMMA ConfirmedTurns ==
    ASSUME NEW b, Len(b) \in Nat, NEW size \in Nat, NEW s, IsTurning(s),
           IsSwing(s) \/ IsEqual(s) \/ IsBlocks(s)
    PROVE  LET t == Confirmed(b, size, s)
           IN  /\ IsTurning(t)
               /\ t.leg # s.leg => /\ Len(b) - size >= 1
                                   /\ t.pivot[t.leg].index = Len(b) - size
               /\ \A kind \in Kinds : kind # t.leg \/ t.leg = s.leg => t.pivot[kind] = s.pivot[kind]
<1> DEFINE t == Confirmed(b, size, s)
<1>1. PICK leg, i : leg = NextLeg(b, size, s.leg) /\ i = Len(b) - size
  OBVIOUS
<1>2. leg \in Kinds /\ (leg # s.leg => i >= 1)
  BY <1>1 DEF NextLeg, Kinds, IsTurning
<1>3. PICK p : p = [level |-> Extreme(leg, b[i]), index |-> i, crossed |-> FALSE]
  OBVIOUS
<1>4. t = IF leg = s.leg THEN s ELSE [s EXCEPT !.leg = leg, !.pivot[leg] = p]
  BY <1>1, <1>3 DEF Confirmed
<1>5. PICK pivot : pivot = [s.pivot EXCEPT ![leg] = p]
  OBVIOUS
<1> HIDE DEF t
<1>6. /\ pivot = [kind \in Kinds |-> pivot[kind]] /\ pivot[leg] = p
      /\ \A kind \in Kinds : kind # leg => pivot[kind] = s.pivot[kind]
  BY <1>2, <1>5 DEF IsTurning
<1>7. CASE leg = s.leg
  <2>1. t = s
    BY <1>4, <1>7
  <2>2. QED BY <2>1 DEF t
<1>8. CASE leg # s.leg
  <2>1. t = [s EXCEPT !.leg = leg, !.pivot = pivot]
    BY <1>4, <1>5, <1>8
  <2>2. t.leg = leg /\ t.pivot = pivot
    BY <2>1 DEF IsSwing, IsEqual, IsBlocks
  <2>3. p.index = i
    BY <1>3
  <2>4. QED BY <1>1, <1>2, <1>6, <1>8, <2>2, <2>3 DEF IsTurning, t
<1>9. QED BY <1>7, <1>8 DEF t

LEMMA SwingTimes ==
    ASSUME BarsOK, ReadsBar, ListsInv, TimesInv, SwingBar(bars')
    PROVE  /\ IsTurning(swing')
           /\ \A i \in DOMAIN swing'.events : Timely(swing'.events[i], Now')
<1>1. PICK b, n : b = bars' /\ n = Now'
  OBVIOUS
<1>2. /\ Now \in Nat /\ n = Now + 1 /\ Len(b) = n /\ n \in Nat
  BY <1>1, Grows DEF Now
<1>3. PICK s, pivots, breaks :
        /\ s = Confirmed(b, SwingLength, swing)
        /\ pivots = IF s.leg = swing.leg THEN <<>> ELSE <<PivotEvent(swing, s, Len(b))>>
        /\ breaks = SetToSeq({BreakEvent(kind, s, Len(b)) : kind \in Broken(b, s)})
  OBVIOUS
<1>4. /\ IsSwing(s) /\ s.events = swing.events /\ IsList(pivots) /\ IsList(breaks)
      /\ IsSwing(swing') /\ swing'.events = (swing.events \o pivots) \o breaks
      /\ swing'.leg = s.leg /\ swing'.pivot = CrossOff(s, Broken(b, s)).pivot
  BY <1>1, <1>3, SwingIs
<1>5. SwingLength \in Nat \ {0}
  BY SmcAssumption
<1>6. IsTurning(swing) /\ IsSwing(swing)
  BY DEF TimesInv, ListsInv
<1>7. /\ IsTurning(s)
      /\ s.leg # swing.leg => /\ n - SwingLength >= 1
                              /\ s.pivot[s.leg].index = n - SwingLength
  BY <1>2, <1>3, <1>5, <1>6, ConfirmedTurns
<1>8. IsTurning(swing')
  <2>1. PICK f : f = CrossOff(s, Broken(b, s)).pivot
    OBVIOUS
  <2>2. f = [kind \in Kinds |-> f[kind]]
    <3>1. PICK g : g = [kind \in Kinds |->
             IF kind \in Broken(b, s) THEN [s.pivot[kind] EXCEPT !.crossed = TRUE]
             ELSE s.pivot[kind]]
      OBVIOUS
    <3>2. CrossOff(s, Broken(b, s)) = [s EXCEPT !.pivot = g]
      BY <3>1 DEF CrossOff
    <3>3. f = g
      BY <1>4, <2>1, <3>2 DEF IsSwing
    <3>4. QED BY <3>1, <3>3
  <2>3. QED BY <1>4, <1>7, <2>1, <2>2 DEF IsTurning
<1>9. \A i \in DOMAIN pivots : Timely(pivots[i], n)
  <2>1. CASE s.leg = swing.leg
    BY <1>3, <2>1
  <2>2. CASE s.leg # swing.leg
    <3>1. PICK x : x = PivotEvent(swing, s, n)
      OBVIOUS
    <3>2. x.event = n - SwingLength /\ x.known = n
      BY <1>7, <2>2, <3>1 DEF PivotEvent
    <3>3. Timely(x, n)
      BY <1>2, <1>5, <1>7, <2>2, <3>2 DEF Timely
    <3>4. pivots = <<x>>
      BY <1>2, <1>3, <2>2, <3>1
    <3>5. QED BY <3>3, <3>4
  <2>3. QED BY <2>1, <2>2
<1>10. \A i \in DOMAIN breaks : Timely(breaks[i], n)
  <2>1. PICK x, y : x = BreakEvent("HIGH", s, n) /\ y = BreakEvent("LOW", s, n)
    OBVIOUS
  <2>2. PICK X : X = {BreakEvent(kind, s, n) : kind \in Broken(b, s)}
    OBVIOUS
  <2>3. X \in SUBSET {x, y}
    BY <2>1, <2>2 DEF Broken, Kinds
  <2>4. breaks \in Seq(X)
    BY <1>2, <1>3, <2>2, <2>3, PairIsListed
  <2>5. \A i \in DOMAIN breaks : breaks[i] \in X
    BY <2>4
  <2>6. Timely(x, n) /\ Timely(y, n)
    BY <1>2, <2>1 DEF BreakEvent, Timely
  <2>7. QED BY <2>3, <2>5, <2>6
<1>11. \A i \in DOMAIN swing.events : Timely(swing.events[i], n)
  BY <1>2 DEF TimesInv, Timely
<1>12. PICK old, most : old = swing.events /\ most = old \o pivots
  OBVIOUS
<1>13. IsList(old) /\ IsList(most)
  BY <1>4, <1>12, ListsJoin DEF ListsInv
<1>14. \A i \in DOMAIN most : Timely(most[i], n)
  BY <1>4, <1>9, <1>11, <1>12, <1>13, EitherList
<1>15. \A i \in DOMAIN (most \o breaks) : Timely((most \o breaks)[i], n)
  BY <1>4, <1>10, <1>13, <1>14, EitherList
<1>16. QED BY <1>1, <1>4, <1>8, <1>12, <1>15

LEMMA EqualTimesKept ==
    ASSUME BarsOK, ReadsBar, ListsInv, TimesInv, EqualBar(bars')
    PROVE  /\ IsTurning(equals')
           /\ \A i \in DOMAIN equals'.events : Timely(equals'.events[i], Now')
<1>1. PICK b, n : b = bars' /\ n = Now'
  OBVIOUS
<1>2. /\ Now \in Nat /\ n = Now + 1 /\ Len(b) = n /\ n \in Nat
  BY <1>1, Grows DEF Now
<1>3. PICK s : s = Confirmed(b, ConfirmationBars, equals)
  OBVIOUS
<1>4. IsEqual(s) /\ s.events = equals.events
  BY <1>3, ConfirmedKeeps DEF ListsInv
<1>5. ConfirmationBars \in Nat \ {0}
  BY SmcAssumption
<1>6. IsTurning(equals) /\ IsEqual(equals) /\ IsList(equals.events)
  BY DEF TimesInv, ListsInv
<1>7. /\ IsTurning(s)
      /\ s.leg # equals.leg => /\ n - ConfirmationBars >= 1
                               /\ s.pivot[s.leg].index = n - ConfirmationBars
  BY <1>2, <1>3, <1>5, <1>6, ConfirmedTurns
<1>8. PICK x : x = [type |-> IF s.leg = "HIGH" THEN "EQH" ELSE "EQL",
                    direction |-> Upward(Opposite(s.leg)), level |-> s.pivot[s.leg].level,
                    previous |-> equals.pivot[s.leg].level, event |-> s.pivot[s.leg].index,
                    known |-> Len(b)]
  OBVIOUS
<1>9. \/ s.leg # equals.leg /\ equals' = [s EXCEPT !.events = Append(@, x)]
      \/ equals' = s
  BY <1>1, <1>3, <1>8 DEF EqualBar
<1>10. \A i \in DOMAIN equals.events : Timely(equals.events[i], n)
  BY <1>2 DEF TimesInv, Timely
<1>11. CASE equals' = s
  BY <1>1, <1>4, <1>7, <1>10, <1>11
<1>12. CASE s.leg # equals.leg /\ equals' = [s EXCEPT !.events = Append(@, x)]
  <2>1. x.event = n - ConfirmationBars /\ x.known = n
    BY <1>2, <1>7, <1>8, <1>12
  <2>2. Timely(x, n)
    BY <1>2, <1>5, <1>7, <1>12, <2>1 DEF Timely
  <2>3. PICK more : more = Append(equals.events, x)
    OBVIOUS
  <2>4. PICK S : equals.events \in Seq(S)
    BY <1>6 DEF IsList
  <2>5. \A i \in DOMAIN more : more[i] = x \/ (i \in DOMAIN equals.events /\ more[i] = equals.events[i])
    BY <2>3, <2>4
  <2>6. equals' = [s EXCEPT !.events = more]
    BY <1>4, <1>12, <2>3
  <2>7. equals'.events = more /\ equals'.leg = s.leg /\ equals'.pivot = s.pivot
    BY <1>4, <2>6 DEF IsEqual
  <2>8. \A i \in DOMAIN more : Timely(more[i], n)
    BY <1>10, <2>2, <2>5
  <2>9. QED BY <1>1, <1>7, <2>7, <2>8 DEF IsTurning
<1>13. QED BY <1>9, <1>11, <1>12

LEMMA StructureTimes ==
    ASSUME BarsOK, ReadsBar, ListsInv, TimesInv, StructureBar(bars')
    PROVE  \A i \in DOMAIN structure'.events : structure'.events[i].event \in 0 .. Now'
<1>1. PICK b, n : b = bars' /\ n = Now'
  OBVIOUS
<1>2. /\ Now \in Nat /\ n = Now + 1 /\ Len(b) = n /\ n \in Nat
  BY <1>1, Grows DEF Now
<1>3. PICK old : old = structure.events
  OBVIOUS
<1>4. PICK S : old \in Seq(S)
  BY <1>3 DEF ListsInv, IsList
<1>5. structure'.events = old
      \/ \E x : x.event = n /\ structure'.events = Append(old, x)
  BY <1>1, <1>2, <1>3, StructureAdds
<1>6. \A i \in DOMAIN old : old[i].event \in 0 .. n
  BY <1>2, <1>3 DEF TimesInv
<1>7. CASE structure'.events = old
  BY <1>1, <1>6, <1>7
<1>8. ASSUME NEW x, x.event = n, structure'.events = Append(old, x)
      PROVE  \A i \in DOMAIN structure'.events : structure'.events[i].event \in 0 .. n
  <2>1. PICK more : more = Append(old, x)
    OBVIOUS
  <2>2. \A i \in DOMAIN more : more[i] = x \/ (i \in DOMAIN old /\ more[i] = old[i])
    BY <1>4, <2>1
  <2>3. \A i \in DOMAIN more : more[i].event \in 0 .. n
    BY <1>2, <1>6, <1>8, <2>2
  <2>4. QED BY <1>8, <2>1, <2>3
<1>9. QED BY <1>1, <1>5, <1>7, <1>8

LEMMA TimesNext ==
    ASSUME BarsOK, ReadsBar, ZonesInv, ListsInv, TimesInv, SwingBar(bars'), EqualBar(bars'),
           BlockBar(bars'), LiquidityBar(bars'), StructureBar(bars')
    PROVE  TimesInv'
<1>1. Now \in Nat /\ Now' = Now + 1 /\ Now' = Len(bars')
  BY Grows DEF Now
<1>2. \A p \in Range(blocks'.active) : p.event \in 0 .. Now'
  BY <1>1, BlocksAdd DEF TimesInv
<1>3. \A i \in DOMAIN liquidity'.zones : Timely(liquidity'.zones[i], Now')
  <2>1. ZonesInv' /\ Keeps(liquidity.zones, liquidity'.zones, Now')
    BY ZonesStep
  <2>2. PICK old, new, n : old = liquidity.zones /\ new = liquidity'.zones /\ n = Now'
    OBVIOUS
  <2>3. \A i \in DOMAIN new : new[i].event \in Nat /\ new[i].event <= n
    BY <2>1, <2>2 DEF ZonesInv, ZonesOK, TellsSweep
  <2>4. \A i \in DOMAIN old : Timely(old[i], n)
    BY <1>1, <2>2 DEF TimesInv, Timely
  <2>5. \A i \in DOMAIN new : new[i].known = n \/ \E j \in DOMAIN old : new[i] = old[j]
    BY <2>1, <2>2 DEF Keeps
  <2>6. \A i \in DOMAIN new : Timely(new[i], n)
    BY <1>1, <2>2, <2>3, <2>4, <2>5 DEF Timely
  <2>7. QED BY <2>2, <2>6
<1>4. QED BY <1>2, <1>3, SwingTimes, EqualTimesKept, StructureTimes DEF TimesInv

-----------------------------------------------------------------------------
LEMMA ScanInit ==
    ASSUME Unread
    PROVE  ScanInv
<1>1. BarsOK /\ GapsInv
  BY GapsInit
<1>2. BarsOK /\ ZonesInv
  BY ZonesInit
<1>3. IsList(<<>>)
  BY DEF IsList
<1>4. PICK pivot : pivot = [kind \in Kinds |-> None]
  OBVIOUS
<1>5. /\ swing = [leg |-> "HIGH", pivot |-> pivot, trend |-> None, events |-> <<>>]
      /\ equals = [leg |-> "HIGH", pivot |-> pivot, events |-> <<>>]
      /\ blocks = [leg |-> "HIGH", pivot |-> pivot, active |-> <<>>]
  BY <1>4 DEF Unread, SmcInit, NoPivots, NoSwing, NoEquals, NoBlocks
<1>6. PICK p : p = [kind \in Kinds |-> None]
  OBVIOUS
<1>7. /\ structure = [points |-> <<>>, trend |-> None, events |-> <<>>, mss |-> p, bos |-> p]
      /\ liquidity.zones = <<>>
  BY <1>6 DEF Unread, IctInit, NoStructure, NoLevels, NoBook
<1>8. ListsInv
  BY <1>3, <1>5, <1>7 DEF ListsInv, IsSwing, IsEqual, IsBlocks, IsStructure
<1>9. TimesInv
  BY <1>4, <1>5, <1>7 DEF IsTurning, Kinds, Range, TimesInv
<1>10. QED BY <1>1, <1>2, <1>8, <1>9 DEF ScanInv

LEMMA ScanNext ==
    ASSUME ScanInv, [Next]_vars
    PROVE  ScanInv'
<1>1. BarsOK' /\ GapsInv' /\ ZonesInv'
  BY GapsNext, ZonesNext DEF ScanInv
<1>2. CASE NextBar
  <2>1. ReadsBar /\ SwingBar(bars') /\ EqualBar(bars') /\ BlockBar(bars') /\ StructureBar(bars')
    BY <1>2 DEF NextBar, SmcBar, IctBar
  <2>2. Len(bars') \in Nat
    BY <2>1, Grows DEF ScanInv
  <2>3. ListsInv'
    BY <2>1, <2>2, SwingAdds, EqualAdds, BlocksAdd, StructureAdds DEF ScanInv, ListsInv
  <2>4. LiquidityBar(bars')
    BY <1>2 DEF NextBar, IctBar
  <2>5. TimesInv'
    BY <2>1, <2>4, TimesNext DEF ScanInv
  <2>6. QED BY <1>1, <2>3, <2>5 DEF ScanInv
<1>3. CASE UNCHANGED vars
  BY <1>3, <1>1 DEF vars, smcVars, ictVars, ScanInv, ListsInv, TimesInv, IsTurning, Now
<1>4. CASE Slide
  <2>1. Unread'
    BY <1>4, Restarts DEF ScanInv
  <2>2. QED BY <2>1, ScanInit, PTL
<1>5. QED BY <1>2, <1>3, <1>4 DEF Next

LEMMA ScanHolds == Spec => []ScanInv
BY AtFirst, ScanInit, ScanNext, PTL DEF Spec

-----------------------------------------------------------------------------
(* What the plugins answer.                                                 *)

\* The foremost entry is one of those it is chosen from.
LEMMA ForemostIs ==
    ASSUME NEW list, NEW n \in Nat, NEW m \in Nat, NEW I \in SUBSET (0 .. m), I # {},
           \A i \in I : list[i].known \in 0 .. n /\ list[i].event \in 0 .. n
    PROVE  \E i \in I : Foremost(list, I) = list[i]
<1>0. \A j \in I : j \in Nat
  OBVIOUS
<1> DEFINE K == {list[i].known : i \in I}
<1>1. PICK k \in K : \A t \in K : k >= t
  <2>1. K \in SUBSET (0 .. n) /\ K # {}
    OBVIOUS
  <2> HIDE DEF K
  <2>2. QED BY <2>1, MaxIsGreatest
<1>2. PICK I1 : I1 = {i \in I : list[i].known = k}
  OBVIOUS
<1> DEFINE E == {list[i].event : i \in I1}
<1>3. PICK e \in E : \A t \in E : e >= t
  <2>1. E \in SUBSET (0 .. n) /\ E # {}
    BY <1>1, <1>2
  <2> HIDE DEF E
  <2>2. QED BY <2>1, MaxIsGreatest
<1>4. PICK i \in I1 : list[i].event = e /\ \A j \in I1 : list[j].event = e => i <= j
  <2>1. PICK I2 : I2 = {j \in I1 : list[j].event = e}
    OBVIOUS
  <2>2. I2 \in SUBSET Nat
    <3>2. \A j \in I2 : j \in I
      BY <1>2, <2>1
    <3>3. QED BY <1>0, <3>2
  <2>3. PICK x \in I1 : list[x].event = e
    BY <1>3
  <2>4. I2 # {}
    BY <2>1, <2>3
  <2>5. PICK i \in I2 : \A j \in I2 : i <= j
    BY <2>2, <2>4, LeastExists
  <2>6. QED BY <2>1, <2>5
<1>5. i \in I /\ i \in Nat
  BY <1>0, <1>2
<1>6. ASSUME NEW j \in I
      PROVE  ~Ahead(list[j], list[i]) /\ (j < i => Ahead(list[i], list[j]))
  <2>1. /\ list[j].known \in Nat /\ list[j].event \in Nat
        /\ list[i].known \in Nat /\ list[i].event \in Nat
    BY <1>5
  <2>2. list[i].known = k /\ list[j].known <= k
    BY <1>1, <1>2, <1>4, <2>1
  <2>3. CASE list[j].known # k
    BY <2>1, <2>2, <2>3 DEF Ahead
  <2>4. CASE list[j].known = k
    <3>1. j \in I1 /\ list[j].event \in E
      BY <1>2, <2>4
    <3>2. list[j].event <= e
      BY <1>3, <1>4, <2>1, <3>1
    <3>3. j < i => list[j].event # e
      <4>1. list[j].event = e => i <= j
        BY <1>4, <3>1
      <4>2. i \in Nat /\ j \in Nat
        BY <1>0, <1>5
      <4>3. QED BY <4>1, <4>2, SMTT(30)
    <3>4. QED BY <1>4, <2>1, <2>2, <2>4, <3>2, <3>3 DEF Ahead
  <2>5. QED BY <2>3, <2>4
<1> HIDE DEF K, E
<1>7. PICK f \in I : /\ f = CHOOSE x \in I :
                            \A j \in I : /\ ~Ahead(list[j], list[x])
                                         /\ j < x => Ahead(list[x], list[j])
  BY <1>5, <1>6
<1>8. QED BY <1>7 DEF Foremost

\* What is wrong with one dependency.
LEMMA ProblemOfOne ==
    ASSUME NEW d, NEW time
    PROVE  DependencyProblem(<<d>>, time) =
             IF d.known # None /\ d.known > time
             THEN Observed("FAIL", "INVALID_DEPENDENCY_EVIDENCE")
             ELSE IF d.status = "FAIL"
             THEN [Observed("FAIL", "FAILED_DEPENDENCY") EXCEPT
                     !.event = d.event, !.known = d.known]
             ELSE IF d.status = "UNAVAILABLE"
             THEN Observed("UNAVAILABLE", "UNAVAILABLE") ELSE None
<1>1. PICK list : list = <<d>>
  OBVIOUS
<1>2. Len(list) = 1 /\ list[1] = d
  BY <1>1
<1> DEFINE Future == {i \in 1 .. Len(list) : list[i].known # None /\ list[i].known > time}
           Failed == {i \in 1 .. Len(list) : list[i].status = "FAIL"}
           Open == {i \in 1 .. Len(list) : list[i].status = "UNAVAILABLE"}
           select(I) == IF I # {} THEN Min(I) ELSE 0
<1>3. DependencyProblem(list, time) =
        CASE select(Future) # 0 -> Observed("FAIL", "INVALID_DEPENDENCY_EVIDENCE")
          [] select(Future) = 0 /\ select(Failed) # 0 ->
               [Observed("FAIL", "FAILED_DEPENDENCY") EXCEPT
                  !.event = list[select(Failed)].event, !.known = list[select(Failed)].known]
          [] select(Future) = 0 /\ select(Failed) = 0 /\ select(Open) # 0 ->
               Observed("UNAVAILABLE", "UNAVAILABLE")
          [] OTHER -> None
  BY DEF DependencyProblem, SelectInSeq
<1>4. /\ Future = IF d.known # None /\ d.known > time THEN {1} ELSE {}
      /\ Failed = IF d.status = "FAIL" THEN {1} ELSE {}
      /\ Open = IF d.status = "UNAVAILABLE" THEN {1} ELSE {}
  BY <1>2
<1>5. select({1}) = 1 /\ select({}) = 0
  <2>1. Min({1}) = 1
    BY MinIsLeast
  <2>2. QED BY <2>1
<1> HIDE DEF Future, Failed, Open, select
<1>6. CASE d.known # None /\ d.known > time
  BY <1>1, <1>3, <1>4, <1>5, <1>6
<1>7. CASE ~(d.known # None /\ d.known > time)
  <2>1. select(Future) = 0
    BY <1>4, <1>5, <1>7
  <2>2. CASE d.status = "FAIL"
    <3>1. select(Failed) = 1
      BY <1>4, <1>5, <2>2
    <3>2. QED BY <1>1, <1>2, <1>3, <1>7, <2>1, <2>2, <3>1
  <2>3. CASE d.status # "FAIL"
    <3>1. select(Failed) = 0
      BY <1>4, <1>5, <2>3
    <3>2. CASE d.status = "UNAVAILABLE"
      <4>1. select(Open) = 1
        BY <1>4, <1>5, <3>2
      <4>2. QED BY <1>1, <1>3, <1>7, <2>1, <2>3, <3>1, <3>2, <4>1
    <3>3. CASE d.status # "UNAVAILABLE"
      <4>1. select(Open) = 0
        BY <1>4, <1>5, <3>3
      <4>2. QED BY <1>1, <1>3, <1>7, <2>1, <2>3, <3>1, <3>3, <4>1
    <3>4. QED BY <3>2, <3>3
  <2>4. QED BY <2>2, <2>3
<1>8. QED BY <1>6, <1>7

\* What a dependency may answer.
LEMMA PossibleIs ==
    ASSUME Now \in Nat, NEW d \in Possible
    PROVE  /\ d.status \in Statuses
           /\ d.event \in Nat \cup {None} /\ d.known \in Nat \cup {None}
           /\ d.status = "PASS" => d.known \in Nat
<1>1. CASE d \in {Observed("UNAVAILABLE", "UNAVAILABLE"), Observed("FAIL", "NO_EVENT")}
  BY <1>1 DEF Observed, Statuses
<1>2. CASE d = [Observed("FAIL", "FAILED_DEPENDENCY") EXCEPT !.event = 1, !.known = Now]
  BY <1>2 DEF Observed, Statuses
<1>3. CASE \E x \in Directions, k \in {1, Now} : d = Evidence("ANY", x, 1, k, "ANY")
  BY <1>3 DEF Evidence, Statuses
<1>4. QED BY <1>1, <1>2, <1>3 DEF Possible

LEMMA AnswerIs ==
    ASSUME Now \in Nat, NEW d \in Possible, NEW warmup, NEW own, OwnIsSound(own)
    PROVE  LET o == Answer(<<d>>, warmup, own)
           IN  /\ o.status = "PASS" => /\ o = own /\ Timely(o, Now)
                                       /\ d.status = "PASS" /\ d.known \in Nat
               /\ o.status = "FAIL" /\ o.event # None =>
                    d.status = "FAIL" /\ o.event = d.event /\ o.known = d.known
<1>1. PICK o, problem : /\ o = Answer(<<d>>, warmup, own)
                        /\ problem = DependencyProblem(<<d>>, Now)
  OBVIOUS
<1>2. o = IF problem # None THEN problem
          ELSE IF Now < warmup THEN Observed("UNAVAILABLE", "UNAVAILABLE") ELSE own
  BY <1>1 DEF Answer
<1>3. problem = IF d.known # None /\ d.known > Now
                THEN Observed("FAIL", "INVALID_DEPENDENCY_EVIDENCE")
                ELSE IF d.status = "FAIL"
                THEN [Observed("FAIL", "FAILED_DEPENDENCY") EXCEPT
                        !.event = d.event, !.known = d.known]
                ELSE IF d.status = "UNAVAILABLE"
                THEN Observed("UNAVAILABLE", "UNAVAILABLE") ELSE None
  BY <1>1, ProblemOfOne
<1>4. /\ d.status \in Statuses
      /\ d.event \in Nat \cup {None} /\ d.known \in Nat \cup {None}
      /\ d.status = "PASS" => d.known \in Nat
  BY PossibleIs
<1>5. CASE problem = Observed("FAIL", "INVALID_DEPENDENCY_EVIDENCE")
  BY <1>5, NoneAssumption, <1>1, <1>2 DEF Observed, Statuses
<1>6. CASE /\ d.status = "FAIL"
           /\ problem = [Observed("FAIL", "FAILED_DEPENDENCY") EXCEPT
                           !.event = d.event, !.known = d.known]
  <2>1. problem.status = "FAIL" /\ problem.event = d.event /\ problem.known = d.known
    BY <1>6 DEF Observed
  <2>2. problem # None
    BY <1>4, <1>6, NoneAssumption DEF Observed, Statuses
  <2>3. QED BY <1>1, <1>2, <1>6, <2>1, <2>2
<1>7. CASE problem = Observed("UNAVAILABLE", "UNAVAILABLE")
  BY <1>7, NoneAssumption, <1>1, <1>2 DEF Observed, Statuses
<1>8. CASE d.status = "PASS" /\ problem = None
  <2>1. CASE o = Observed("UNAVAILABLE", "UNAVAILABLE")
    <3>1. o.status = "UNAVAILABLE"
      BY <2>1 DEF Observed
    <3>2. QED BY <1>1, <3>1
  <2>2. CASE o = own
    BY <1>1, <1>4, <1>8, <2>2 DEF OwnIsSound
  <2>3. QED BY <1>2, <1>8, <2>1, <2>2
<1>9. QED BY <1>3, <1>4, <1>5, <1>6, <1>7, <1>8 DEF Statuses

LEMMA OwnWithout ==
    ASSUME NEW state
    PROVE  OwnIsSound(Observed("FAIL", state))
BY DEF OwnIsSound, Observed

LEMMA OwnEvidence ==
    ASSUME Now \in Nat, NEW type, NEW direction, NEW state, NEW event \in Nat, NEW known \in Nat,
           event <= known, known <= Now
    PROVE  /\ OwnIsSound(Evidence(type, direction, event, known, state))
           /\ Evidence(type, direction, event, known, state).status = "PASS"
           /\ Evidence(type, direction, event, known, state).known = known
           /\ Evidence(type, direction, event, known, state).direction = direction
BY DEF OwnIsSound, Evidence, Timely

\* The latest event of a list.
LEMMA LatestEventIs ==
    ASSUME Now \in Nat, NEW events, IsList(events), NEW none, NEW state,
           \A i \in DOMAIN events : Timely(events[i], Now)
    PROVE  OwnIsSound(LatestEvent(events, none, state))
<1>1. CASE events = <<>>
  BY <1>1, OwnWithout DEF LatestEvent
<1>2. CASE events # <<>>
  <2>1. PICK S : events \in Seq(S)
    BY DEF IsList
  <2>2. Len(events) \in DOMAIN events
    BY <1>2, <2>1
  <2>3. PICK e : e = events[Len(events)]
    OBVIOUS
  <2>4. Timely(e, Now)
    BY <2>2, <2>3
  <2>5. OwnIsSound(Evidence(e.type, e.direction, e.event, e.known, state))
    BY <2>4, OwnEvidence DEF Timely
  <2>6. QED BY <1>2, <2>3, <2>5 DEF LatestEvent
<1>3. QED BY <1>1, <1>2

\* The gaps happened and became known in order.
LEMMA GapsAreTimely ==
    ASSUME BarsOK, GapsInv
    PROVE  \A i \in DOMAIN gaps : Timely(gaps[i], Now)
<1>1. SUFFICES ASSUME NEW x \in DOMAIN gaps PROVE Timely(gaps[x], Now)
  OBVIOUS
<1>2. gaps[x] \in Defined
  BY DEF GapsInv, Range
<1>3. PICK d \in Directions : \E i \in GapEnds(d) : gaps[x] = GapAt(d, i)
  BY <1>2, DefinedAre
<1>4. PICK i \in GapEnds(d) : gaps[x] = GapAt(d, i)
  BY <1>3
<1>5. i \in 3 .. Now /\ Now \in Nat
  BY DEF GapEnds, GapBars, BarsOK, Now
<1>6. GapAt(d, i) \in GapRecords /\ GapAt(d, i).event = i
  BY <1>5, GapAtIs
<1> DEFINE g == Gap(d, SubSeq(bars, 1, i))
           near == Reached(d, i, IF d = "BULLISH" THEN g.upper ELSE g.lower)
           far == Reached(d, i, IF d = "BULLISH" THEN g.lower ELSE g.upper)
<1>7. near \subseteq i + 1 .. Now /\ far \subseteq i + 1 .. Now
  BY DEF Reached
<1>8. PICK y, state : y = g
  OBVIOUS
<1>9. GapAt(d, i) =
        [g EXCEPT !.state = IF far # {} THEN "FULL"
                            ELSE IF near # {} THEN "PARTIAL" ELSE "ACTIVE",
                  !.known = IF far # {} THEN Min(far)
                            ELSE IF near # {} THEN Min(near) ELSE i]
  BY DEF GapAt
<1>10. GapAt(d, i).known = IF far # {} THEN Min(far)
                           ELSE IF near # {} THEN Min(near) ELSE i
  <2>1. g = [direction |-> g.direction, event |-> g.event, known |-> g.known,
             state |-> g.state, lower |-> g.lower, upper |-> g.upper]
    BY DEF Gap
  <2> HIDE DEF g, near, far
  <2>2. QED BY <1>9, <2>1
<1> HIDE DEF g, near, far
<1>11. near \in SUBSET Nat /\ far \in SUBSET Nat
  BY <1>5, <1>7
<1>12. (far # {} => Min(far) \in i + 1 .. Now) /\ (near # {} => Min(near) \in i + 1 .. Now)
  BY <1>7, <1>11, MinIsLeast
<1>13. GapAt(d, i).known \in i .. Now
  BY <1>5, <1>10, <1>12
<1>14. QED BY <1>4, <1>5, <1>6, <1>13 DEF Timely

LEMMA ForemostTimely ==
    ASSUME Now \in Nat, NEW list, IsList(list), NEW I \in SUBSET (DOMAIN list), I # {},
           \A i \in DOMAIN list : Timely(list[i], Now)
    PROVE  \E i \in I : Foremost(list, I) = list[i] /\ Timely(list[i], Now)
<1>1. Len(list) \in Nat /\ DOMAIN list = 1 .. Len(list)
  BY ListHas
<1>2. I \in SUBSET (0 .. Len(list))
  BY <1>1
<1>3. \A i \in I : list[i].known \in 0 .. Now /\ list[i].event \in 0 .. Now
  BY DEF Timely
<1>4. QED BY <1>1, <1>2, <1>3, ForemostIs

\* The latest break that is emitted.
LEMMA LastEmittedIs ==
    ASSUME IsList(structure.events)
    PROVE  LastEmitted = 0 \/ LastEmitted \in DOMAIN structure.events
<1>1. PICK list : list = structure.events
  OBVIOUS
<1>2. Len(list) \in Nat /\ DOMAIN list = 1 .. Len(list)
  BY <1>1, ListHas
<1> DEFINE I == {i \in 1 .. Len(list) : Emits(list[i])}
<1>3. LastEmitted = IF I # {} THEN Max(I) ELSE 0
  BY <1>1 DEF LastEmitted, SelectLastInSeq
<1>4. I \in SUBSET (0 .. Len(list)) /\ I \subseteq 1 .. Len(list)
  BY <1>2
<1> HIDE DEF I
<1>5. I # {} => Max(I) \in I
  BY <1>2, <1>4, MaxIsGreatest
<1>6. QED BY <1>1, <1>2, <1>3, <1>4, <1>5

\* Each of the six answers rests on entries whose times are in order, and a dependency
\* that does not pass is passed on with its own times.
THEOREM EvidenceKnown == Spec => []EvidenceIsKnown
<1>1. ScanInv => EvidenceIsKnown
  <2> SUFFICES ASSUME ScanInv, NEW d \in Possible
        PROVE  \A o \in {EqualObservation(d), BlockObservation(d), LiquidityObservation(d),
                         StructureObservation(d), GapObservation(d), SwingObservation} :
                 /\ o.status = "PASS" => /\ o.event <= o.known /\ o.known <= Now
                                         /\ o # SwingObservation => d.status = "PASS"
                 /\ o.status = "FAIL" /\ o.event # None =>
                      d.status = "FAIL" /\ o.event = d.event /\ o.known = d.known
                 /\ o.status = "PASS" /\ o = GapObservation(d) =>
                      d.known <= o.known /\ d.direction = o.direction
    BY DEF EvidenceIsKnown
  <2>1. Now \in Nat
    BY DEF ScanInv, BarsOK, Now
  <2> DEFINE Closed(o) ==
               /\ o.status = "PASS" => Timely(o, Now) /\ d.status = "PASS"
               /\ o.status = "FAIL" /\ o.event # None =>
                    d.status = "FAIL" /\ o.event = d.event /\ o.known = d.known
  <2>2. ASSUME NEW warmup, NEW own, OwnIsSound(own)
        PROVE  Closed(Answer(<<d>>, warmup, own))
    BY <2>1, <2>2, AnswerIs
  <2>3. Closed(EqualObservation(d))
    <3>1. OwnIsSound(LatestEvent(equals.events, "NO_EQUAL_LEVEL", "CONFIRMED_EQUAL_LEVEL"))
      BY <2>1, LatestEventIs DEF ScanInv, ListsInv, TimesInv
    <3> HIDE DEF Closed
    <3>2. QED BY <2>2, <3>1 DEF EqualObservation
  <2>4. Closed(BlockObservation(d))
    <3>1. PICK own : own = IF blocks.active = <<>> THEN Observed("FAIL", "NO_ACTIVE_BLOCK")
                           ELSE LET block == blocks.active[1]
                                IN  Evidence("ORDER_BLOCK", block.direction, block.event,
                                             block.event, "ACTIVE")
      OBVIOUS
    <3>2. OwnIsSound(own)
      <4>1. CASE blocks.active = <<>>
        BY <3>1, <4>1, OwnWithout
      <4>2. CASE blocks.active # <<>>
        <5>1. PICK S : blocks.active \in Seq(S)
          BY DEF ScanInv, ListsInv, IsList
        <5>2. blocks.active[1] \in Range(blocks.active)
          BY <4>2, <5>1 DEF Range
        <5>3. blocks.active[1].event \in 0 .. Now
          BY <5>2 DEF ScanInv, TimesInv
        <5>4. PICK block : block = blocks.active[1]
          OBVIOUS
        <5>5. OwnIsSound(Evidence("ORDER_BLOCK", block.direction, block.event, block.event,
                                  "ACTIVE"))
          BY <2>1, <5>3, <5>4, OwnEvidence
        <5>6. QED BY <3>1, <4>2, <5>4, <5>5
      <4>3. QED BY <4>1, <4>2
    <3> HIDE DEF Closed
    <3>3. QED BY <2>2, <3>1, <3>2 DEF BlockObservation
  <2>5. Closed(LiquidityObservation(d))
    <3>1. PICK zones : zones = liquidity.zones
      OBVIOUS
    <3>2. PICK z, own : /\ z = Foremost(zones, DOMAIN zones)
                        /\ own = IF zones = <<>> THEN Observed("FAIL", "NO_CLUSTER")
                                 ELSE Evidence("CLUSTERED_LIQUIDITY",
                                        IF z.side = "BUYSIDE" THEN "SHORT" ELSE "LONG",
                                        z.event, z.known, z.state)
      OBVIOUS
    <3>3. OwnIsSound(own)
      <4>1. CASE zones = <<>>
        BY <3>2, <4>1, OwnWithout
      <4>2. CASE zones # <<>>
        <5>1. IsList(zones) /\ \A i \in DOMAIN zones : Timely(zones[i], Now)
          BY <3>1 DEF ScanInv, ZonesInv, ZonesOK, TimesInv
        <5>2. DOMAIN zones # {}
          <6>1. PICK S : zones \in Seq(S)
            BY <5>1 DEF IsList
          <6>2. 1 \in DOMAIN zones
            BY <4>2, <6>1
          <6>3. QED BY <6>2
        <5>3. Timely(z, Now)
          BY <2>1, <3>2, <5>1, <5>2, ForemostTimely
        <5>4. \A side : OwnIsSound(Evidence("CLUSTERED_LIQUIDITY", side, z.event, z.known, z.state))
          BY <2>1, <5>3, OwnEvidence DEF Timely
        <5>5. QED BY <3>2, <4>2, <5>4
      <4>3. QED BY <4>1, <4>2
    <3> HIDE DEF Closed
    <3>4. QED BY <2>2, <3>1, <3>2, <3>3 DEF LiquidityObservation
  <2>6. Closed(StructureObservation(d))
    <3>1. PICK e, own : /\ e = structure.events[LastEmitted]
                        /\ own = IF LastEmitted = 0 THEN Observed("FAIL", "NO_BREAK")
                                 ELSE Evidence(e.type, Upward(e.kind), e.event, e.event,
                                               "CONFIRMED_BREAK")
      OBVIOUS
    <3>2. OwnIsSound(own)
      <4>1. CASE LastEmitted = 0
        BY <3>1, <4>1, OwnWithout
      <4>2. CASE LastEmitted # 0
        BY <4>2, LastEmittedIs, <3>1, <2>1, OwnEvidence DEF ScanInv, ListsInv, TimesInv
      <4>3. QED BY <4>1, <4>2
    <3> HIDE DEF Closed
    <3>3. QED BY <2>2, <3>1, <3>2 DEF StructureObservation
  <2>7. LET o == GapObservation(d)
        IN  /\ Closed(o)
            /\ o.status = "PASS" => d.known <= o.known /\ d.direction = o.direction
    <3>1. PICK g : g = Foremost(gaps, Live)
      OBVIOUS
    <3>2. PICK own : own = IF Live = {} THEN Observed("FAIL", "NO_ACTIVE_GAP")
               ELSE IF d.direction # g.direction \/ d.known = None
               THEN Observed("FAIL", "CONTRADICTORY_EVIDENCE")
               ELSE Evidence("FAIR_VALUE_GAP", g.direction, g.event, BothKnown(g, d), g.state)
      OBVIOUS
    <3>3. PICK o, warmup : o = GapObservation(d) /\ o = Answer(<<d>>, warmup, own)
      BY <3>1, <3>2 DEF GapObservation
    <3>4. Live # {} => Timely(g, Now)
      BY GapsAreTimely, <2>1, <3>1, ForemostTimely DEF ScanInv, GapsInv, IsList, Live
    <3>5. CASE Live = {} \/ d.direction # g.direction \/ d.known = None
      BY <3>2, <3>5, OwnWithout, <2>1, <3>3, AnswerIs DEF Observed
    <3>6. CASE ~(Live = {} \/ d.direction # g.direction \/ d.known = None) /\ d.known > Now
      <4>1. d.known \in Nat
        BY <2>1, <3>6, PossibleIs
      <4>2. PICK p : p = DependencyProblem(<<d>>, Now)
        OBVIOUS
      <4>3. p = Observed("FAIL", "INVALID_DEPENDENCY_EVIDENCE")
        BY <3>6, <4>2, ProblemOfOne
      <4>4. p # None
        BY <4>3, NoneAssumption DEF Observed, Statuses
      <4>5. o = p
        BY <3>3, <4>2, <4>4 DEF Answer
      <4>6. p.status = "FAIL" /\ p.event = None
        BY <4>3 DEF Observed
      <4>7. QED BY <3>3, <4>5, <4>6
    <3>7. CASE ~(Live = {} \/ d.direction # g.direction \/ d.known = None) /\ ~(d.known > Now)
      <4>1. d.known \in Nat /\ d.known <= Now
        BY <2>1, <3>7, PossibleIs
      <4>2. PICK k \in Nat : k = BothKnown(g, d) /\ g.known <= k /\ d.known <= k /\ k <= Now
        <5>1. {g.known, d.known} \in SUBSET (0 .. Now)
          BY <2>1, <3>4, <3>7, <4>1 DEF Timely
        <5>2. Max({g.known, d.known}) \in {g.known, d.known}
              /\ \A x \in {g.known, d.known} : Max({g.known, d.known}) >= x
          BY <2>1, <5>1, MaxIsGreatest
        <5>3. PICK k : k = Max({g.known, d.known})
          OBVIOUS
        <5>4. k \in 0 .. Now /\ k >= g.known /\ k >= d.known
          BY <5>1, <5>2, <5>3
        <5>5. g.known \in Nat
          BY <3>4, <3>7 DEF Timely
        <5>6. QED BY <2>1, <4>1, <5>3, <5>4, <5>5 DEF BothKnown
      <4>3. own = Evidence("FAIR_VALUE_GAP", g.direction, g.event, k, g.state)
        BY <3>2, <3>7, <4>2
      <4>4. /\ OwnIsSound(own) /\ own.known = k /\ own.direction = g.direction
        BY <3>4, <3>7, <4>2, <2>1, <4>3, OwnEvidence DEF Timely
      <4>5. Closed(o) /\ (o.status = "PASS" => o = own)
        BY <2>1, <3>3, <4>4, AnswerIs
      <4>6. QED BY <3>3, <3>7, <4>2, <4>4, <4>5
    <3>8. QED BY <3>5, <3>6, <3>7
  <2>8. LET o == SwingObservation
        IN  /\ o.status = "PASS" => Timely(o, Now)
            /\ o.status = "FAIL" => o.event = None
    <3>1. PICK own, state : /\ state = IF swing.events = <<>> THEN None
                                       ELSE swing.events[Len(swing.events)].state
                            /\ own = LatestEvent(swing.events, "NO_EVENT", state)
      OBVIOUS
    <3>2. OwnIsSound(own)
      BY <2>1, <3>1, LatestEventIs DEF ScanInv, ListsInv, TimesInv
    <3>3. DependencyProblem(<<>>, Now) = None
      <4>1. PICK list : list = <<>>
        OBVIOUS
      <4>2. Len(list) = 0
        BY <4>1
      <4>3. DependencyProblem(list, Now) = None
        BY <4>2 DEF DependencyProblem, SelectInSeq
      <4>4. QED BY <4>1, <4>3
    <3>4. SwingObservation = IF Now < SwingLength + 1 THEN Observed("UNAVAILABLE", "UNAVAILABLE")
                             ELSE own
      BY <3>1, <3>3 DEF SwingObservation, Answer
    <3>5. OwnIsSound(Observed("UNAVAILABLE", "UNAVAILABLE"))
      BY DEF OwnIsSound, Observed
    <3>6. QED BY <3>2, <3>4, <3>5 DEF OwnIsSound
  <2>9. QED BY <2>3, <2>4, <2>5, <2>6, <2>7, <2>8 DEF Timely
<1>2. QED BY <1>1, ScanHolds, PTL DEF Spec

-----------------------------------------------------------------------------
(* The zigzag of pivots.                                                    *)

LEMMA PrecedesIs ==
    /\ \A p, q, r \in PointRecords : Precedes(p, q) /\ Precedes(q, r) => Precedes(p, r)
    /\ \A p, q \in PointRecords : Precedes(p, q) => ~Precedes(q, p) /\ p # q
BY DEF Precedes, PointRecords, Kinds

LEMMA BeyondIs ==
    ASSUME NEW kind \in Kinds, NEW x \in Nat, NEW y \in Nat, NEW z \in Nat
    PROVE  /\ Beyond(kind, x, y) /\ Beyond(kind, y, z) => Beyond(kind, x, z)
           /\ Beyond(kind, x, y) => ~Beyond(kind, y, x) /\ x # y
           /\ Beyond(kind, x, y) \/ Beyond(kind, y, x) \/ x = y
BY DEF Beyond, Kinds

\* Of two points of a leg only one outdoes the other.
LEMMA OutdoesIs ==
    ASSUME NEW p \in PointRecords, NEW q \in PointRecords, p.kind = q.kind
    PROVE  Outdoes(p, q) => ~Outdoes(q, p)
<1>1. p.kind \in Kinds /\ p.level \in Nat /\ q.level \in Nat
  BY DEF PointRecords
<1>2. QED BY <1>1, BeyondIs, PrecedesIs DEF Outdoes

\* A pivot after all others leaves the legs before it alone.
LEMMA LegsStay ==
    ASSUME NEW P \in SUBSET PointRecords, NEW x \in PointRecords,
           \A p \in P : Precedes(p, x), NEW p \in P, NEW q \in P
    PROVE  SameLeg(P \cup {x}, p, q) <=> SameLeg(P, p, q)
<1>1. Precedes(p, x) /\ Precedes(q, x) /\ ~Precedes(x, q) /\ ~Precedes(x, p)
  BY PrecedesIs
<1>2. QED BY <1>1 DEF SameLeg

\* It belongs to the leg of the first point, if that is of its kind.
LEMMA LegGrows ==
    ASSUME NEW P \in SUBSET PointRecords, Successive(P), NEW x \in PointRecords,
           \A p \in P : Precedes(p, x), NEW first \in P,
           \A q \in P : Precedes(first, q) => q.kind = first.kind, NEW p \in P
    PROVE  SameLeg(P \cup {x}, p, x) <=> x.kind = first.kind /\ SameLeg(P, p, first)
<1>1. Precedes(p, x) /\ Precedes(first, x) /\ ~Precedes(x, p) /\ ~Precedes(x, first)
  BY PrecedesIs
<1>2. ASSUME SameLeg(P \cup {x}, p, x)
      PROVE  x.kind = first.kind /\ SameLeg(P, p, first)
  <2>1. p.kind = x.kind /\ ~\E o \in P \cup {x} : /\ o.kind # p.kind
                                               /\ Precedes(p, o) /\ Precedes(o, x)
    BY <1>2 DEF SameLeg
  <2>2. first.kind = p.kind
    <3>1. SUFFICES ASSUME first.kind # p.kind PROVE FALSE
      OBVIOUS
    <3>2. ~Precedes(p, first)
      BY <1>1, <2>1, <3>1
    <3>3. Precedes(first, p)
      BY <3>1, <3>2 DEF Successive
    <3>4. QED BY <3>1, <3>3
  <2>3. ASSUME NEW o \in P, o.kind # p.kind
        PROVE  /\ ~(Precedes(p, o) /\ Precedes(o, first))
               /\ ~(Precedes(first, o) /\ Precedes(o, p))
    BY <2>1, <2>2, <2>3
  <2>4. QED BY <2>1, <2>2, <2>3 DEF SameLeg
<1>3. ASSUME x.kind = first.kind, SameLeg(P, p, first)
      PROVE  SameLeg(P \cup {x}, p, x)
  <2>1. p.kind = x.kind
    BY <1>3 DEF SameLeg
  <2>2. ASSUME NEW o \in P, o.kind # p.kind, Precedes(p, o)
        PROVE  FALSE
    BY <1>3, <2>1, <2>2 DEF Successive, SameLeg
  <2>3. \A o \in P \cup {x} : o.kind # p.kind => o \in P /\ ~Precedes(x, o)
    BY <2>1, PrecedesIs
  <2>4. QED BY <2>1, <2>2, <2>3 DEF SameLeg
<1>4. QED BY <1>2, <1>3

\* The points of the zigzag after another pivot.
LEMMA ZigzagGrows ==
    ASSUME NEW P \in SUBSET PointRecords, Successive(P), NEW x \in PointRecords,
           \A p \in P : Precedes(p, x), NEW first \in Zigzag(P),
           \A q \in P : Precedes(first, q) => q.kind = first.kind
    PROVE  Zigzag(P \cup {x}) =
             IF first.kind # x.kind THEN Zigzag(P) \cup {x}
             ELSE IF Beyond(x.kind, x.level, first.level)
             THEN (Zigzag(P) \ {first}) \cup {x} ELSE Zigzag(P)
<1>1. first \in P /\ x \notin P
  BY PrecedesIs DEF Zigzag
<1>2. \A p \in P, q \in P : SameLeg(P \cup {x}, p, q) <=> SameLeg(P, p, q)
  BY LegsStay
<1>3. \A p \in P : SameLeg(P \cup {x}, p, x) <=> x.kind = first.kind /\ SameLeg(P, p, first)
  BY <1>1, LegGrows
<1>4. \A p \in P, q \in P : SameLeg(P, p, q) => SameLeg(P, q, p) /\ p.kind = q.kind
  BY DEF SameLeg
<1>5. \A p \in P : SameLeg(P \cup {x}, p, x) <=> SameLeg(P \cup {x}, x, p)
  BY DEF SameLeg
<1>6. \A p \in P : ~Precedes(x, p) /\ Precedes(p, x)
  BY PrecedesIs
<1>7. \A p \in P : Outdoes(x, p) <=> Beyond(x.kind, x.level, p.level)
  BY <1>6 DEF Outdoes
<1>8. \A p \in P : p \in Zigzag(P) <=>
        \A q \in P \ {p} : SameLeg(P, p, q) => Outdoes(p, q)
  BY DEF Zigzag
<1>9. \A p \in P : p \in Zigzag(P \cup {x}) <=>
        /\ p \in Zigzag(P)
        /\ x.kind = first.kind /\ SameLeg(P, p, first) => Outdoes(p, x)
  <2>1. SUFFICES ASSUME NEW p \in P
        PROVE  p \in Zigzag(P \cup {x}) <=>
                 /\ p \in Zigzag(P)
                 /\ x.kind = first.kind /\ SameLeg(P, p, first) => Outdoes(p, x)
    OBVIOUS
  <2>2. (P \cup {x}) \ {p} = (P \ {p}) \cup {x}
    BY <1>1
  <2>3. p \in Zigzag(P \cup {x}) <=>
          \A q \in (P \ {p}) \cup {x} : SameLeg(P \cup {x}, p, q) => Outdoes(p, q)
    BY <2>2 DEF Zigzag
  <2>4. QED BY <1>2, <1>3, <1>8, <2>3
<1>10. x \in Zigzag(P \cup {x}) <=>
         \A q \in P : x.kind = first.kind /\ SameLeg(P, q, first) => Outdoes(x, q)
  BY <1>1, <1>3, <1>5 DEF Zigzag
\* Another point of the zigzag is on another leg.
<1>11. \A p \in Zigzag(P) : SameLeg(P, p, first) <=> p = first
  <2>1. SUFFICES ASSUME NEW p \in Zigzag(P) PROVE SameLeg(P, p, first) <=> p = first
    OBVIOUS
  <2>2. p \in P /\ p \in PointRecords /\ first \in PointRecords
    BY <1>1 DEF Zigzag
  <2>3. ASSUME SameLeg(P, p, first), p # first PROVE FALSE
    BY <1>1, <1>4, <1>8, <2>2, <2>3, OutdoesIs
  <2>4. SameLeg(P, first, first)
    BY <2>2, PrecedesIs DEF SameLeg
  <2>5. QED BY <2>3, <2>4
<1>12. /\ x.kind \in Kinds /\ x.level \in Nat /\ first.level \in Nat
       /\ \A p \in P : p.kind \in Kinds /\ p.level \in Nat
  BY <1>1 DEF PointRecords
<1>13. Zigzag(P \cup {x}) \subseteq P \cup {x} /\ Zigzag(P) \subseteq P
  BY DEF Zigzag
<1>14. CASE first.kind # x.kind
  BY <1>9, <1>10, <1>13, <1>14
<1>15. CASE first.kind = x.kind /\ Beyond(x.kind, x.level, first.level)
  <2>1. ~Outdoes(first, x)
    BY <1>12, <1>15, BeyondIs DEF Outdoes
  <2>2. \A p \in P : p \in Zigzag(P \cup {x}) <=> p \in Zigzag(P) /\ p # first
    BY <1>9, <1>11, <1>15, <2>1
  <2>3. ASSUME NEW q \in P, SameLeg(P, q, first)
        PROVE  Beyond(x.kind, x.level, q.level)
    <3>1. q = first \/ Outdoes(first, q)
      BY <1>1, <1>4, <1>8, <2>3
    <3>2. q.level = first.level \/ Beyond(first.kind, first.level, q.level)
      BY <3>1 DEF Outdoes
    <3>3. QED BY <1>12, <1>15, <3>2, BeyondIs
  <2>4. x \in Zigzag(P \cup {x})
    BY <1>7, <1>10, <2>3
  <2>5. QED BY <1>13, <1>15, <2>2, <2>4
<1>16. CASE first.kind = x.kind /\ ~Beyond(x.kind, x.level, first.level)
  <2>1. Outdoes(first, x)
    BY <1>1, <1>6, <1>12, <1>16, BeyondIs DEF Outdoes
  <2>2. \A p \in P : p \in Zigzag(P \cup {x}) <=> p \in Zigzag(P)
    BY <1>9, <1>11, <1>16, <2>1
  <2>3. x \notin Zigzag(P \cup {x})
    BY <1>1, <1>7, <1>10, <1>11, <1>16
  <2>4. QED BY <1>13, <1>16, <2>2, <2>3
<1>17. QED BY <1>14, <1>15, <1>16

LEMMA ZigzagStep ==
    ASSUME NEW P \in SUBSET PointRecords, Successive(P), NEW x \in PointRecords,
           \A p \in P : Precedes(p, x), NEW points, ZigzagOK(points, P)
    PROVE  ZigzagOK(UpdateZigzag(points, x), P \cup {x}) /\ Successive(P \cup {x})
<1> DEFINE Q == P \cup {x}
           new == UpdateZigzag(points, x)
<1>1. Successive(Q)
  BY DEF Successive
<1>2. points \in Seq(P) /\ points \in Seq(Q) /\ x \in Q /\ Q \in SUBSET PointRecords
  BY DEF ZigzagOK
<1>3. /\ Len(points) \in Nat /\ DOMAIN points = 1 .. Len(points)
      /\ \A i \in DOMAIN points : points[i] \in P
  BY <1>2
<1>4. /\ Range(points) = Zigzag(P) /\ (points = <<>> <=> P = {})
      /\ \A i, j \in DOMAIN points : i < j => Precedes(points[j], points[i])
      /\ \A i \in 1 .. Len(points) - 1 : points[i].kind # points[i + 1].kind
      /\ points # <<>> => \A q \in P : Precedes(points[1], q) => q.kind = points[1].kind
  BY DEF ZigzagOK
<1>5. CASE points = <<>>
  <2>1. Q = {x} /\ new = <<x>>
    BY <1>4, <1>5 DEF UpdateZigzag
  <2>2. Zigzag(Q) = {x}
    BY <2>1 DEF Zigzag
  <2>3. new \in Seq(Q) /\ Range(new) = {x} /\ Len(new) = 1 /\ new[1] = x /\ new # <<>>
    BY <2>1 DEF Range
  <2>4. ~Precedes(x, x)
    BY PrecedesIs
  <2> HIDE DEF new
  <2>5. DOMAIN new = {1} /\ Q # {} /\ \A q \in Q : ~Precedes(new[1], q)
    BY <2>1, <2>3, <2>4
  <2>6. /\ \A i, j \in DOMAIN new : ~(i < j)
        /\ 1 .. Len(new) - 1 = {}
    BY <2>3, <2>5
  <2>7. ZigzagOK(new, Q)
    BY <2>2, <2>3, <2>5, <2>6 DEF ZigzagOK
  <2>8. QED BY <1>1, <2>7 DEF new
<1>6. CASE points # <<>>
  <2>1. 1 \in DOMAIN points /\ Len(points) >= 1
    BY <1>2, <1>6
  <2>2. PICK first : first = points[1]
    OBVIOUS
  <2>3. /\ first \in P /\ first \in Zigzag(P)
        /\ \A q \in P : Precedes(first, q) => q.kind = first.kind
    BY <1>3, <1>4, <1>6, <2>1, <2>2 DEF Range
  <2>4. Zigzag(Q) = IF first.kind # x.kind THEN Zigzag(P) \cup {x}
                    ELSE IF Beyond(x.kind, x.level, first.level)
                    THEN (Zigzag(P) \ {first}) \cup {x} ELSE Zigzag(P)
    BY <2>3, ZigzagGrows
  <2>5. \A q \in P : ~Precedes(x, q)
    BY PrecedesIs
  <2>6. \A i, j \in DOMAIN points : points[i] = points[j] => i = j
    BY <1>3, <1>4, PrecedesIs
  <2>7. ~Precedes(x, x)
    BY PrecedesIs
  <2>8. CASE first.kind # x.kind
    <3>1. new = <<x>> \o points
      BY <2>2, <2>8 DEF UpdateZigzag
    <3> HIDE DEF new
    <3>2. /\ new \in Seq(Q) /\ Len(new) = Len(points) + 1 /\ new[1] = x
          /\ \A i \in 1 .. Len(points) : new[i + 1] = points[i]
      BY <1>2, <3>1
    <3>3. DOMAIN new = 1 .. Len(points) + 1 /\ new # <<>>
      BY <1>3, <3>2
    <3>4. \A i \in DOMAIN new : i # 1 => i - 1 \in 1 .. Len(points) /\ new[i] = points[i - 1]
      <4>1. SUFFICES ASSUME NEW i \in DOMAIN new, i # 1
            PROVE  i - 1 \in 1 .. Len(points) /\ new[i] = points[i - 1]
        OBVIOUS
      <4>2. i - 1 \in 1 .. Len(points) /\ (i - 1) + 1 = i
        BY <1>3, <3>3, <4>1
      <4>3. QED BY <3>2, <4>2
    <3>5. Range(new) = Range(points) \cup {x}
      BY <1>3, <3>2, <3>3, <3>4 DEF Range
    <3>6. ASSUME NEW i \in DOMAIN new, NEW j \in DOMAIN new, i < j
          PROVE  Precedes(new[j], new[i])
      <4>1. j # 1
        BY <3>3, <3>6
      <4>2. new[j] = points[j - 1] /\ j - 1 \in DOMAIN points
        BY <1>3, <3>4, <4>1
      <4>3. CASE i = 1
        BY <1>3, <3>2, <4>2, <4>3
      <4>4. CASE i # 1
        <5>1. new[i] = points[i - 1] /\ i - 1 \in DOMAIN points
          BY <1>3, <3>4, <4>4
        <5>2. i - 1 < j - 1
          BY <3>3, <3>6
        <5>3. QED BY <1>4, <4>2, <5>1, <5>2
      <4>5. QED BY <4>3, <4>4
    <3>7. ASSUME NEW i \in 1 .. Len(new) - 1
          PROVE  new[i].kind # new[i + 1].kind
      <4>1. i + 1 \in DOMAIN new /\ i + 1 # 1 /\ (i + 1) - 1 = i /\ i \in DOMAIN new
        BY <1>3, <3>2, <3>3
      <4>2. new[i + 1] = points[i] /\ i \in 1 .. Len(points)
        BY <3>4, <4>1
      <4>3. CASE i = 1
        BY <2>2, <2>8, <3>2, <4>2, <4>3
      <4>4. CASE i # 1
        <5>1. new[i] = points[i - 1] /\ i - 1 \in 1 .. Len(points) - 1
          BY <1>3, <3>4, <4>1, <4>2, <4>4
        <5>2. points[i - 1].kind # points[(i - 1) + 1].kind
          BY <1>4, <5>1
        <5>3. (i - 1) + 1 = i
          BY <4>1, <3>3
        <5>4. QED BY <4>2, <5>1, <5>2, <5>3
      <4>5. QED BY <4>3, <4>4
    <3>8. \A q \in Q : ~Precedes(new[1], q)
      BY <2>5, <2>7, <3>2
    <3>9. ZigzagOK(new, Q)
      BY <1>4, <2>4, <2>8, <3>2, <3>3, <3>5, <3>6, <3>7, <3>8 DEF ZigzagOK
    <3>10. QED BY <1>1, <3>9 DEF new
  <2>9. CASE first.kind = x.kind /\ Beyond(x.kind, x.level, first.level)
    <3>1. new = [points EXCEPT ![1] = x]
      BY <1>6, <2>2, <2>9 DEF UpdateZigzag
    <3> HIDE DEF new
    <3>2. /\ new \in Seq(Q) /\ Len(new) = Len(points) /\ new[1] = x
          /\ \A i \in DOMAIN points : i # 1 => new[i] = points[i]
      BY <1>2, <1>3, <2>1, <3>1, ExceptSeq
    <3>3. DOMAIN new = DOMAIN points /\ new # <<>>
      BY <1>3, <2>1, <3>2
    <3>4. Range(new) = (Range(points) \ {first}) \cup {x}
      BY <2>1, <2>2, <2>6, <3>2, <3>3 DEF Range
    <3>5. ASSUME NEW i \in DOMAIN new, NEW j \in DOMAIN new, i < j
          PROVE  Precedes(new[j], new[i])
      BY <1>3, <3>3, <3>5, <3>2, <1>4
    <3>6. \A i \in DOMAIN new : new[i].kind = points[i].kind
      BY <2>2, <2>9, <3>2, <3>3
    <3>7. ASSUME NEW i \in 1 .. Len(new) - 1
          PROVE  new[i].kind # new[i + 1].kind
      BY <1>3, <3>2, <3>3, <1>4, <3>6
    <3>8. \A q \in Q : ~Precedes(new[1], q)
      BY <2>5, <2>7, <3>2
    <3>9. ZigzagOK(new, Q)
      BY <1>4, <2>4, <2>9, <3>2, <3>3, <3>4, <3>5, <3>7, <3>8 DEF ZigzagOK
    <3>10. QED BY <1>1, <3>9 DEF new
  <2>10. CASE first.kind = x.kind /\ ~Beyond(x.kind, x.level, first.level)
    <3>1. new = points
      BY <1>6, <2>2, <2>10 DEF UpdateZigzag
    <3> HIDE DEF new
    <3>2. \A q \in Q : Precedes(points[1], q) => q.kind = points[1].kind
      BY <2>2, <2>3, <2>10
    <3>3. ZigzagOK(points, Q)
      BY <1>2, <1>4, <1>6, <2>4, <2>10, <3>2 DEF ZigzagOK
    <3>4. QED BY <1>1, <3>1, <3>3 DEF new
  <2>11. QED BY <2>8, <2>9, <2>10
<1>7. QED BY <1>5, <1>6

-----------------------------------------------------------------------------
(* The pivots of a history that has grown by a bar.                         *)

LEMMA PivotsAre ==
    ASSUME NEW width, NEW q
    PROVE  q \in PivotsSoFar(width) <=>
             \E kind \in Kinds : \E k \in 1 .. Now :
               /\ IsPivot(kind, SubSeq(bars, 1, k), width)
               /\ q = NewPoint(kind, SubSeq(bars, 1, k))
<1> DEFINE found == {p \in Kinds \X (1 .. Now) : IsPivot(p[1], SubSeq(bars, 1, p[2]), width)}
<1>1. PivotsSoFar(width) = {NewPoint(p[1], SubSeq(bars, 1, p[2])) : p \in found}
  BY DEF PivotsSoFar
<1>2. ASSUME NEW p \in found, q = NewPoint(p[1], SubSeq(bars, 1, p[2]))
      PROVE  \E kind \in Kinds : \E k \in 1 .. Now :
               /\ IsPivot(kind, SubSeq(bars, 1, k), width)
               /\ q = NewPoint(kind, SubSeq(bars, 1, k))
  BY <1>2
<1>3. ASSUME NEW kind \in Kinds, NEW k \in 1 .. Now, IsPivot(kind, SubSeq(bars, 1, k), width),
             q = NewPoint(kind, SubSeq(bars, 1, k))
      PROVE  \E p \in found : q = NewPoint(p[1], SubSeq(bars, 1, p[2]))
  <2>1. PICK p : p = <<kind, k>>
    OBVIOUS
  <2>2. p \in Kinds \X (1 .. Now) /\ p[1] = kind /\ p[2] = k
    BY <2>1
  <2>3. p \in found
    BY <1>3, <2>2
  <2>4. QED BY <1>3, <2>2, <2>3
<1> HIDE DEF found
<1>4. QED BY <1>1, <1>2, <1>3

\* A pivot stands out from the bar after it.
LEMMA PivotIs ==
    ASSUME NEW b \in Seq(Candles), NEW width \in Nat \ {0}, NEW kind \in Kinds,
           IsPivot(kind, b, width)
    PROVE  LET q == NewPoint(kind, b)
           IN  /\ q \in PointRecords /\ q.kind = kind
               /\ q.index \in 1 .. Len(b) - 1 /\ q.index = Len(b) - 1
               /\ q.level = Extreme(kind, b[q.index])
               /\ Beyond(kind, q.level, Extreme(kind, b[q.index + 1]))
<1>1. PICK i : i = Len(b) - 1
  OBVIOUS
<1>2. /\ i > width
      /\ \A j \in (i - width .. i - 1) \cup {i + 1} :
           Beyond(kind, Extreme(kind, b[i]), Extreme(kind, b[j]))
  BY <1>1 DEF IsPivot
<1>3. Len(b) \in Nat /\ i \in 1 .. Len(b) /\ i \in Nat /\ i + 1 = Len(b)
  BY <1>1, <1>2
<1>4. b[i] \in Candles
  BY <1>3
<1>5. Extreme(kind, b[i]) \in Nat
  BY <1>4, CandleIs DEF Extreme
<1>6. PICK q : q = NewPoint(kind, b)
  OBVIOUS
<1>7. q = [kind |-> kind, index |-> i, level |-> Extreme(kind, b[i])]
  BY <1>1, <1>6 DEF NewPoint
<1>8. q \in PointRecords /\ q.kind = kind /\ q.index = i /\ q.level = Extreme(kind, b[i])
  BY <1>3, <1>5, <1>7 DEF PointRecords
<1>9. QED BY <1>1, <1>2, <1>3, <1>6, <1>8

LEMMA PivotsAreThere ==
    ASSUME BarsOK, NEW width \in Nat \ {0}, NEW q \in PivotsSoFar(width)
    PROVE  /\ q \in PointRecords /\ q.index \in 1 .. Now - 1
           /\ q.level = Extreme(q.kind, bars[q.index])
           /\ Beyond(q.kind, q.level, Extreme(q.kind, bars[q.index + 1]))
<1>1. PICK kind \in Kinds, k \in 1 .. Now :
        /\ IsPivot(kind, SubSeq(bars, 1, k), width)
        /\ q = NewPoint(kind, SubSeq(bars, 1, k))
  BY PivotsAre
<1>2. Now \in Nat /\ \A i \in 1 .. k : bars[i] \in Candles
  BY DEF BarsOK, Now
<1>3. PICK b : b = SubSeq(bars, 1, k)
  OBVIOUS
<1>4. b \in Seq(Candles) /\ Len(b) = k /\ \A i \in 1 .. k : b[i] = bars[i]
  BY <1>2, <1>3, SubSeqProperties
<1>5. /\ q \in PointRecords /\ q.kind = kind
      /\ q.index \in 1 .. k - 1 /\ q.index = k - 1
      /\ q.level = Extreme(kind, b[q.index])
      /\ Beyond(kind, q.level, Extreme(kind, b[q.index + 1]))
  <2>1. IsPivot(kind, b, width) /\ q = NewPoint(kind, b)
    BY <1>1, <1>3
  <2>2. QED BY <1>4, <2>1, PivotIs
<1>6. b[q.index] = bars[q.index] /\ b[q.index + 1] = bars[q.index + 1]
  BY <1>4, <1>5
<1>7. QED BY <1>2, <1>5, <1>6

LEMMA PivotsGrow ==
    ASSUME BarsOK, ReadsBar, NEW width \in Nat \ {0}
    PROVE  PivotsSoFar(width)' =
             (PivotsSoFar(width) \cup Fresh("HIGH", bars', width)) \cup Fresh("LOW", bars', width)
<1>1. Now \in Nat /\ Now' = Now + 1 /\ Now' = Len(bars') /\ bars' \in Seq(Candles)
  BY Grows DEF Now
<1>2. \A k \in 1 .. Now : SubSeq(bars', 1, k) = SubSeq(bars, 1, k)
  <2>1. 1 \in Nat \ {0} /\ \A k \in 1 .. Now : k \in 0 .. Now
    BY <1>1
  <2>2. QED BY <2>1, SeenAgain
<1>3. SubSeq(bars', 1, Now') = bars'
  <2>1. PICK b : b = bars'
    OBVIOUS
  <2>2. b \in Seq(Candles)
    BY <1>1, <2>1
  <2>3. \A i \in 1 .. Len(b) : b[i] \in Candles
    BY <2>2
  <2>4. /\ SubSeq(b, 1, Len(b)) \in Seq(Candles) /\ Len(SubSeq(b, 1, Len(b))) = Len(b)
        /\ \A i \in 1 .. Len(b) : SubSeq(b, 1, Len(b))[i] = b[i]
    BY <2>2, <2>3, SubSeqProperties
  <2>5. SubSeq(b, 1, Len(b)) = b
    BY <2>2, <2>4, SeqEqual
  <2>6. QED BY <1>1, <2>1, <2>5
<1>4. ASSUME NEW q
      PROVE  q \in PivotsSoFar(width)' <=>
               \E kind \in Kinds : \E k \in 1 .. Now' :
                 /\ IsPivot(kind, SubSeq(bars', 1, k), width)
                 /\ q = NewPoint(kind, SubSeq(bars', 1, k))
  <2>1. PICK n, b : n = Now' /\ b = bars'
    OBVIOUS
  <2> DEFINE found == {p \in Kinds \X (1 .. n) : IsPivot(p[1], SubSeq(b, 1, p[2]), width)}
  <2>2. PivotsSoFar(width)' = {NewPoint(p[1], SubSeq(b, 1, p[2])) : p \in found}
    BY <2>1 DEF PivotsSoFar
  <2>3. ASSUME NEW p \in found, q = NewPoint(p[1], SubSeq(b, 1, p[2]))
        PROVE  \E kind \in Kinds : \E k \in 1 .. n :
                 /\ IsPivot(kind, SubSeq(b, 1, k), width)
                 /\ q = NewPoint(kind, SubSeq(b, 1, k))
    BY <2>3
  <2>4. ASSUME NEW kind \in Kinds, NEW k \in 1 .. n, IsPivot(kind, SubSeq(b, 1, k), width),
               q = NewPoint(kind, SubSeq(b, 1, k))
        PROVE  \E p \in found : q = NewPoint(p[1], SubSeq(b, 1, p[2]))
    <3>1. PICK p : p = <<kind, k>>
      OBVIOUS
    <3>2. p \in Kinds \X (1 .. n) /\ p[1] = kind /\ p[2] = k
      BY <3>1
    <3>3. p \in found
      BY <2>4, <3>2
    <3>4. QED BY <2>4, <3>2, <3>3
  <2> HIDE DEF found
  <2>5. QED BY <2>1, <2>2, <2>3, <2>4
<1>5. ASSUME NEW q \in PivotsSoFar(width) PROVE q \in PivotsSoFar(width)'
  <2>1. PICK kind \in Kinds, k \in 1 .. Now :
          /\ IsPivot(kind, SubSeq(bars, 1, k), width)
          /\ q = NewPoint(kind, SubSeq(bars, 1, k))
    BY PivotsAre
  <2>2. k \in 1 .. Now' /\ SubSeq(bars', 1, k) = SubSeq(bars, 1, k)
    BY <1>1, <1>2
  <2>3. QED BY <1>4, <2>1, <2>2
<1>6. ASSUME NEW kind \in Kinds, IsPivot(kind, bars', width)
      PROVE  NewPoint(kind, bars') \in PivotsSoFar(width)'
  <2>1. Now' \in 1 .. Now'
    BY <1>1
  <2>2. QED BY <1>3, <1>4, <1>6, <2>1
<1>7. ASSUME NEW q \in PivotsSoFar(width)', q \notin PivotsSoFar(width)
      PROVE  \E kind \in Kinds : q \in Fresh(kind, bars', width)
  <2>1. PICK kind \in Kinds, k \in 1 .. Now' :
          /\ IsPivot(kind, SubSeq(bars', 1, k), width)
          /\ q = NewPoint(kind, SubSeq(bars', 1, k))
    BY <1>4
  <2>2. k \notin 1 .. Now
    BY <1>2, <1>7, <2>1, PivotsAre
  <2>3. k = Now'
    BY <1>1, <2>2
  <2>4. QED BY <1>3, <2>1, <2>3 DEF Fresh
<1>8. \A kind \in Kinds : Fresh(kind, bars', width) \subseteq PivotsSoFar(width)'
  BY <1>6 DEF Fresh
<1>9. QED BY <1>5, <1>7, <1>8 DEF Kinds

\* The high of a bar comes before its low.
LEMMA ZigzagHalf ==
    ASSUME BarsOK, ReadsBar, NEW width \in Nat \ {0}, NEW points,
           ZigzagOK(points, PivotsSoFar(width)), Successive(PivotsSoFar(width))
    PROVE  LET Q == PivotsSoFar(width) \cup Fresh("HIGH", bars', width)
           IN  /\ ZigzagOK(Onward(points, "HIGH", bars', width), Q) /\ Successive(Q)
               /\ \A q \in Q : /\ q \in PointRecords
                               /\ q.index < Now \/ (q.index = Now /\ q.kind = "HIGH")
<1>1. PICK b, P, Q : /\ b = bars' /\ P = PivotsSoFar(width)
                     /\ Q = P \cup Fresh("HIGH", b, width)
  OBVIOUS
<1>2. Now \in Nat /\ Len(b) = Now + 1 /\ b \in Seq(Candles)
  BY <1>1, Grows DEF Now
<1>4. \A q \in P : q \in PointRecords /\ q.index \in 1 .. Now - 1
  BY <1>1, PivotsAreThere
<1>5. ASSUME NEW kind \in Kinds, IsPivot(kind, b, width)
      PROVE  /\ NewPoint(kind, b) \in PointRecords /\ NewPoint(kind, b).kind = kind
             /\ NewPoint(kind, b).index = Now
  BY <1>2, <1>5, PivotIs
<1>6. PICK p : p = Onward(points, "HIGH", b, width)
  OBVIOUS
<1>7. ZigzagOK(p, Q) /\ Successive(Q)
  <2>1. CASE IsPivot("HIGH", b, width)
    <3>1. PICK x : x = NewPoint("HIGH", b)
      OBVIOUS
    <3>2. x \in PointRecords /\ x.index = Now
      BY <1>5, <2>1, <3>1 DEF Kinds
    <3>3. \A q \in P : Precedes(q, x)
      BY <1>2, <1>4, <3>2 DEF Precedes
    <3>4. P \in SUBSET PointRecords
      BY <1>4
    <3>5. Q = P \cup {x} /\ p = UpdateZigzag(points, x)
      BY <1>1, <1>6, <2>1, <3>1 DEF Fresh, Onward
    <3>6. QED BY <1>1, <3>2, <3>3, <3>4, <3>5, ZigzagStep
  <2>2. CASE ~IsPivot("HIGH", b, width)
    BY <1>1, <1>6, <2>2 DEF Fresh, Onward
  <2>3. QED BY <2>1, <2>2
<1>8. \A q \in Q : q \in PointRecords /\ (q.index < Now \/ (q.index = Now /\ q.kind = "HIGH"))
  BY <1>2, <1>4, <1>5, <1>1 DEF Fresh, Kinds
<1>9. QED BY <1>1, <1>6, <1>7, <1>8

LEMMA ZigzagNext ==
    ASSUME BarsOK, ReadsBar, NEW width \in Nat \ {0}, NEW points,
           ZigzagOK(points, PivotsSoFar(width)), Successive(PivotsSoFar(width))
    PROVE  /\ ZigzagOK(Onward(Onward(points, "HIGH", bars', width), "LOW", bars', width),
                       PivotsSoFar(width)')
           /\ Successive(PivotsSoFar(width)')
<1>1. PICK b, p, Q : /\ b = bars' /\ p = Onward(points, "HIGH", b, width)
                     /\ Q = PivotsSoFar(width) \cup Fresh("HIGH", b, width)
  OBVIOUS
<1>2. Now \in Nat /\ Len(b) = Now + 1 /\ b \in Seq(Candles)
  BY <1>1, Grows DEF Now
<1>3. PivotsSoFar(width)' = Q \cup Fresh("LOW", b, width)
  BY <1>1, PivotsGrow
<1>4. /\ ZigzagOK(p, Q) /\ Successive(Q)
      /\ \A q \in Q : q \in PointRecords /\ (q.index < Now \/ (q.index = Now /\ q.kind = "HIGH"))
  BY <1>1, ZigzagHalf
<1>5. PICK l : l = Onward(p, "LOW", b, width)
  OBVIOUS
<1>6. ZigzagOK(l, Q \cup Fresh("LOW", b, width)) /\ Successive(Q \cup Fresh("LOW", b, width))
  <2>1. CASE IsPivot("LOW", b, width)
    <3>1. PICK x : x = NewPoint("LOW", b)
      OBVIOUS
    <3>2. x \in PointRecords /\ x.index = Now /\ x.kind = "LOW"
      BY <1>2, <2>1, <3>1, PivotIs DEF Kinds
    <3>3. \A q \in Q : Precedes(q, x)
      BY <1>4, <3>2 DEF Precedes
    <3>4. Q \in SUBSET PointRecords
      BY <1>4
    <3>5. Fresh("LOW", b, width) = {x} /\ l = UpdateZigzag(p, x)
      BY <1>5, <2>1, <3>1 DEF Fresh, Onward
    <3>6. QED BY <1>4, <3>2, <3>3, <3>4, <3>5, ZigzagStep
  <2>2. CASE ~IsPivot("LOW", b, width)
    BY <1>5, <2>2, <1>4 DEF Fresh, Onward
  <2>3. QED BY <2>1, <2>2
<1>7. QED BY <1>1, <1>3, <1>5, <1>6

-----------------------------------------------------------------------------
(* Breaks of the market structure.                                          *)

LEMMA OppositeKinds ==
    /\ \A kind \in Kinds : Opposite(kind) \in Kinds /\ Opposite(kind) # kind
    /\ \A k, l \in Kinds : k = l \/ k = Opposite(l)
    /\ None \notin Kinds
BY NoneAssumption DEF Opposite, Kinds

\* What the last bar does to trend, levels and events.
LEMMA StructureIs ==
    ASSUME IsStructure(structure), NEW b, StructureBar(b)
    PROVE  LET s == structure
               points == StructurePoints(s.points, b)
               level(kind) == Selected(points, kind).level
           IN  /\ structure'.points = points
               /\ \/ \E kind \in Kinds :
                       /\ Shifts(s, points, kind, b)
                       /\ structure'.trend = kind
                       /\ structure'.mss = [s.mss EXCEPT ![kind] = level(kind)]
                       /\ structure'.bos = s.bos
                       /\ structure'.events =
                            Append(s.events, StructureEvent("MSS", kind, points, b))
                  \/ \E kind \in Kinds :
                       /\ Breaks(s, points, kind, b)
                       /\ structure'.trend = s.trend
                       /\ structure'.mss = s.mss
                       /\ structure'.bos = [s.bos EXCEPT ![kind] = level(kind)]
                       /\ structure'.events =
                            Append(s.events, StructureEvent("BOS", kind, points, b))
                  \/ /\ \A kind \in Kinds : ~Shifts(s, points, kind, b)
                     /\ structure'.trend = s.trend
                     /\ structure'.mss = s.mss /\ structure'.bos = s.bos
                     /\ structure'.events = s.events
<1>1. PICK s, points : s = structure /\ points = StructurePoints(s.points, b)
  OBVIOUS
<1>2. s = [points |-> s.points, trend |-> s.trend, events |-> s.events,
           mss |-> s.mss, bos |-> s.bos]
  BY <1>1 DEF IsStructure
<1>3. \/ \E kind \in Kinds : Shifts(s, points, kind, b) /\ structure' = Shifted(s, kind, points, b)
      \/ \E kind \in Kinds : Breaks(s, points, kind, b) /\ structure' = Continued(s, kind, points, b)
      \/ /\ \A kind \in Kinds : ~Shifts(s, points, kind, b)
         /\ structure' = [s EXCEPT !.points = points]
  BY <1>1 DEF StructureBar, Kinds
<1>4. ASSUME NEW kind \in Kinds
      PROVE  /\ Shifted(s, kind, points, b).points = points
             /\ Shifted(s, kind, points, b).trend = kind
             /\ Shifted(s, kind, points, b).mss = [s.mss EXCEPT ![kind] = Selected(points, kind).level]
             /\ Shifted(s, kind, points, b).bos = s.bos
             /\ Shifted(s, kind, points, b).events =
                  Append(s.events, StructureEvent("MSS", kind, points, b))
  <2>1. PICK mss, events : /\ mss = [s.mss EXCEPT ![kind] = Selected(points, kind).level]
                           /\ events = Append(s.events, StructureEvent("MSS", kind, points, b))
    OBVIOUS
  <2>2. PICK t : t = Shifted(s, kind, points, b)
    OBVIOUS
  <2>3. t = [s EXCEPT !.points = points, !.trend = kind, !.mss = mss, !.events = events]
    BY <2>1, <2>2 DEF Shifted
  <2>4. t.points = points /\ t.trend = kind /\ t.mss = mss /\ t.bos = s.bos /\ t.events = events
    BY <1>2, <2>3
  <2>5. QED BY <2>1, <2>2, <2>4
<1>5. ASSUME NEW kind \in Kinds
      PROVE  /\ Continued(s, kind, points, b).points = points
             /\ Continued(s, kind, points, b).trend = s.trend
             /\ Continued(s, kind, points, b).mss = s.mss
             /\ Continued(s, kind, points, b).bos = [s.bos EXCEPT ![kind] = Selected(points, kind).level]
             /\ Continued(s, kind, points, b).events =
                  Append(s.events, StructureEvent("BOS", kind, points, b))
  <2>1. PICK bos, events : /\ bos = [s.bos EXCEPT ![kind] = Selected(points, kind).level]
                           /\ events = Append(s.events, StructureEvent("BOS", kind, points, b))
    OBVIOUS
  <2>2. PICK t : t = Continued(s, kind, points, b)
    OBVIOUS
  <2>3. t = [s EXCEPT !.points = points, !.bos = bos, !.events = events]
    BY <2>1, <2>2 DEF Continued
  <2>4. t.points = points /\ t.trend = s.trend /\ t.mss = s.mss /\ t.bos = bos /\ t.events = events
    BY <1>2, <2>3
  <2>5. QED BY <2>1, <2>2, <2>4
<1>6. CASE \E kind \in Kinds : Shifts(s, points, kind, b) /\ structure' = Shifted(s, kind, points, b)
  <2>1. PICK kind \in Kinds : Shifts(s, points, kind, b) /\ structure' = Shifted(s, kind, points, b)
    BY <1>6
  <2>2. PICK t : t = Shifted(s, kind, points, b)
    OBVIOUS
  <2>3. /\ t.points = points /\ t.trend = kind
        /\ t.mss = [s.mss EXCEPT ![kind] = Selected(points, kind).level]
        /\ t.bos = s.bos /\ t.events = Append(s.events, StructureEvent("MSS", kind, points, b))
    BY <1>4, <2>2
  <2>4. QED BY <1>1, <2>1, <2>2, <2>3
<1>7. CASE \E kind \in Kinds : Breaks(s, points, kind, b) /\ structure' = Continued(s, kind, points, b)
  <2>1. PICK kind \in Kinds : Breaks(s, points, kind, b) /\ structure' = Continued(s, kind, points, b)
    BY <1>7
  <2>2. PICK t : t = Continued(s, kind, points, b)
    OBVIOUS
  <2>3. /\ t.points = points /\ t.trend = s.trend /\ t.mss = s.mss
        /\ t.bos = [s.bos EXCEPT ![kind] = Selected(points, kind).level]
        /\ t.events = Append(s.events, StructureEvent("BOS", kind, points, b))
    BY <1>5, <2>2
  <2>4. QED BY <1>1, <2>1, <2>2, <2>3
<1>8. CASE /\ \A kind \in Kinds : ~Shifts(s, points, kind, b)
           /\ structure' = [s EXCEPT !.points = points]
  <2>1. PICK t : t = [s EXCEPT !.points = points]
    OBVIOUS
  <2>2. /\ t.points = points /\ t.trend = s.trend /\ t.mss = s.mss /\ t.bos = s.bos
        /\ t.events = s.events
    BY <1>2, <2>1
  <2>3. QED BY <1>1, <1>8, <2>1, <2>2
<1>9. QED BY <1>3, <1>6, <1>7, <1>8

\* The latest level of a type and kind in a longer list.
LEMMA LatestStays ==
    ASSUME NEW ev, IsList(ev), NEW x, NEW type, NEW kind, NEW i \in 1 .. Len(ev) + 1
    PROVE  LatestBefore(Append(ev, x), i, type, kind) = LatestBefore(ev, i, type, kind)
<1> PICK S : ev \in Seq(S)
  BY DEF IsList
<1>1. PICK new, n : new = Append(ev, x) /\ n = Len(ev)
  OBVIOUS
<1>2. n \in Nat /\ i \in 1 .. n + 1 /\ \A j \in 1 .. n : new[j] = ev[j]
  BY <1>1
<1> DEFINE Of(list) == {j \in 1 .. i - 1 : list[j].type = type /\ list[j].kind = kind}
<1>3. \A list : LatestBefore(list, i, type, kind) =
                  IF Of(list) = {} THEN None ELSE list[Max(Of(list))].level
  BY DEF LatestBefore
<1>4. \A j \in 1 .. i - 1 : j \in 1 .. n
  BY <1>2
<1>5. Of(new) = Of(ev) /\ Of(ev) \in SUBSET (0 .. i) /\ Of(ev) \subseteq 1 .. n
  BY <1>2, <1>4
<1>6. ASSUME Of(ev) # {} PROVE Max(Of(ev)) \in 1 .. n
  <2> HIDE DEF Of
  <2>1. i \in Nat
    BY <1>2
  <2>2. QED BY <1>5, <1>6, <2>1, MaxIsGreatest
<1> HIDE DEF Of
<1>7. QED BY <1>1, <1>2, <1>3, <1>5, <1>6

LEMMA LatestGrows ==
    ASSUME NEW ev, IsList(ev), NEW x, NEW type, NEW kind
    PROVE  LatestBefore(Append(ev, x), Len(ev) + 2, type, kind) =
             IF x.type = type /\ x.kind = kind THEN x.level
             ELSE LatestBefore(ev, Len(ev) + 1, type, kind)
<1> PICK S : ev \in Seq(S)
  BY DEF IsList
<1>1. PICK new, n : new = Append(ev, x) /\ n = Len(ev)
  OBVIOUS
<1>2. n \in Nat /\ new[n + 1] = x
  BY <1>1
<1> DEFINE Of(i) == {j \in 1 .. i - 1 : new[j].type = type /\ new[j].kind = kind}
<1>3. \A i : LatestBefore(new, i, type, kind) = IF Of(i) = {} THEN None ELSE new[Max(Of(i))].level
  BY DEF LatestBefore
<1>4. \A j \in 1 .. (n + 2) - 1 : j \in 1 .. (n + 1) - 1 \/ j = n + 1
  BY <1>2
<1>5. CASE x.type = type /\ x.kind = kind
  <2>1. n + 1 \in Of(n + 2) /\ Of(n + 2) \in SUBSET (0 .. n + 1)
    BY <1>2, <1>5
  <2> HIDE DEF Of
  <2>2. n + 1 \in Nat /\ Of(n + 2) # {}
    BY <1>2, <2>1
  <2>3. PICK m : m = Max(Of(n + 2))
    OBVIOUS
  <2>4. m \in Of(n + 2) /\ m >= n + 1
    BY <2>1, <2>2, <2>3, MaxIsGreatest
  <2>5. m = n + 1
    <3>1. m \in 0 .. n + 1
      BY <2>1, <2>4
    <3>2. QED BY <1>2, <2>4, <3>1
  <2>6. QED BY <1>1, <1>2, <1>3, <1>5, <2>2, <2>3, <2>5
<1>6. CASE ~(x.type = type /\ x.kind = kind)
  <2>1. Of(n + 2) = Of(n + 1)
    BY <1>2, <1>4, <1>6
  <2>2. n + 1 \in 1 .. n + 1
    BY <1>2
  <2> HIDE DEF Of
  <2>3. LatestBefore(new, n + 2, type, kind) = LatestBefore(new, n + 1, type, kind)
    BY <1>3, <2>1
  <2>4. LatestBefore(new, n + 1, type, kind) = LatestBefore(ev, n + 1, type, kind)
    BY <1>1, <2>2, LatestStays
  <2>5. QED BY <1>1, <1>6, <2>3, <2>4
<1>7. QED BY <1>5, <1>6

LEMMA ClusteredPoints ==
    ASSUME NEW l, IsBook(l), NEW kind, NEW b
    PROVE  /\ IsBook(Clustered(l, kind, b))
           /\ Clustered(l, kind, b).points = Onward(l.points, kind, b, ClusterWidth)
<1> DEFINE new == Clustered(l, kind, b)
<1> PICK points : points = UpdateZigzag(l.points, NewPoint(kind, b))
  OBVIOUS
<1> PICK atr : atr = WilderAtr(b, ClusterAtr)
  OBVIOUS
<1> PICK margin : margin = Times(Margin, atr)
  OBVIOUS
<1> PICK matching : matching = Matching(points, kind, NewPoint(kind, b).level, margin)
  OBVIOUS
<1> PICK cluster : cluster = <<kind, [i \in DOMAIN matching |-> matching[i].index]>>
  OBVIOUS
<1>1. new = IF ~IsPivot(kind, b, ClusterWidth) \/ points = l.points THEN l
            ELSE IF atr = None \/ Len(matching) < MinimumPivots \/ cluster \in l.seen
            THEN [l EXCEPT !.points = points]
            ELSE [points |-> points, seen |-> l.seen \cup {cluster},
                  zones |-> WithZone(l.zones, kind, matching, margin, b)]
  BY DEF Clustered
<1>2. Onward(l.points, kind, b, ClusterWidth) =
        IF IsPivot(kind, b, ClusterWidth) THEN points ELSE l.points
  BY DEF Onward
<1> HIDE DEF new
<1>3. CASE ~IsPivot(kind, b, ClusterWidth) \/ points = l.points
  <2>1. new = l
    BY <1>1, <1>3
  <2>2. QED BY <1>2, <1>3, <2>1 DEF new
<1>4. CASE ~(~IsPivot(kind, b, ClusterWidth) \/ points = l.points)
  <2>1. new.points = points /\ IsBook(new)
    BY <1>1, <1>4 DEF IsBook
  <2>2. QED BY <1>2, <1>4, <2>1 DEF new
<1>5. QED BY <1>3, <1>4

LEMMA PointsNext ==
    ASSUME BarsOK, ReadsBar, IsStructure(structure), IsBook(liquidity), PointsInv,
           StructureBar(bars'), LiquidityBar(bars')
    PROVE  PointsInv'
<1>1. StructureWidth \in Nat \ {0} /\ ClusterWidth \in Nat \ {0}
  BY IctAssumption
<1>2. PICK b : b = bars'
  OBVIOUS
<1>3. structure'.points =
        Onward(Onward(structure.points, "HIGH", b, StructureWidth), "LOW", b, StructureWidth)
  BY <1>2, StructureIs DEF StructurePoints, Onward
<1>4. liquidity'.points =
        Onward(Onward(liquidity.points, "HIGH", b, ClusterWidth), "LOW", b, ClusterWidth)
  <2>1. PICK l, h, low : /\ l = liquidity /\ h = Clustered(l, "HIGH", b)
                         /\ low = Clustered(h, "LOW", b)
    OBVIOUS
  <2>2. IsBook(h) /\ h.points = Onward(l.points, "HIGH", b, ClusterWidth)
    BY <2>1, ClusteredPoints
  <2>3. IsBook(low) /\ low.points = Onward(h.points, "LOW", b, ClusterWidth)
    BY <2>1, <2>2, ClusteredPoints
  <2>4. liquidity' = [low EXCEPT !.zones = Traversed(@, b)]
    BY <1>2, <2>1 DEF LiquidityBar
  <2>5. liquidity'.points = low.points
    BY <2>3, <2>4 DEF IsBook
  <2>6. QED BY <2>1, <2>2, <2>3, <2>5
<1>5. /\ ZigzagOK(structure'.points, PivotsSoFar(StructureWidth)')
      /\ Successive(PivotsSoFar(StructureWidth)')
  BY <1>1, <1>2, <1>3, ZigzagNext DEF PointsInv
<1>6. /\ ZigzagOK(liquidity'.points, PivotsSoFar(ClusterWidth)')
      /\ Successive(PivotsSoFar(ClusterWidth)')
  BY <1>1, <1>2, <1>4, ZigzagNext DEF PointsInv
<1>7. QED
  <2>1. PICK P, Q : P = PivotsSoFar(StructureWidth)' /\ Q = PivotsSoFar(ClusterWidth)'
    OBVIOUS
  <2>2. QED BY <1>5, <1>6 DEF PointsInv, ZigzagOK, Successive

\* A selected level is that of a pivot of its kind.
LEMMA SelectedIs ==
    ASSUME NEW P \in SUBSET PointRecords, NEW points, ZigzagOK(points, P), NEW kind \in Kinds,
           Selected(points, kind) # None
    PROVE  Selected(points, kind) \in P /\ Selected(points, kind).kind = kind
<1>1. Len(points) >= 3
  BY DEF Selected, ZigzagOK
<1>2. /\ Len(points) \in Nat
      /\ points[2] \in P /\ points[3] \in P /\ points[2].kind # points[3].kind
  BY <1>1 DEF ZigzagOK
<1>3. points[2].kind \in Kinds /\ points[3].kind \in Kinds
  BY <1>2 DEF PointRecords
<1>4. Selected(points, kind) = IF points[3].kind = kind THEN points[3] ELSE points[2]
  BY <1>1, <1>2 DEF Selected
<1>5. points[3].kind # kind => points[2].kind = kind
  BY <1>2, <1>3 DEF Kinds
<1>6. QED BY <1>2, <1>4, <1>5

\* A level that the new bar closes beyond was reached at least two bars before it.
LEMMA LevelIsOld ==
    ASSUME BarsOK, ReadsBar, NEW width \in Nat \ {0}, NEW q \in PivotsSoFar(width)',
           Beyond(q.kind, bars'[Now'].close, q.level)
    PROVE  \E k \in 1 .. Now' - 2 : q.level = Extreme(q.kind, bars'[k])
<1>1. PICK b, n : b = bars' /\ n = Now'
  OBVIOUS
<1>2. /\ Now \in Nat /\ n = Now + 1 /\ Len(b) = n /\ b \in Seq(Candles)
      /\ \A i \in 1 .. Now : b[i] = bars[i]
  BY <1>1, Grows DEF Now
<1>3. \/ q \in PivotsSoFar(width)
      \/ \E kind \in Kinds : IsPivot(kind, b, width) /\ q = NewPoint(kind, b)
  BY <1>1, PivotsGrow DEF Fresh, Kinds
<1>4. CASE q \in PivotsSoFar(width)
  <2>1. q.index \in 1 .. Now - 1 /\ q.level = Extreme(q.kind, bars[q.index])
    BY <1>4, PivotsAreThere
  <2>2. q.index \in 1 .. n - 2 /\ b[q.index] = bars[q.index]
    BY <1>2, <2>1
  <2>3. QED BY <1>1, <2>1, <2>2
<1>5. ASSUME NEW kind \in Kinds, IsPivot(kind, b, width), q = NewPoint(kind, b)
      PROVE  FALSE
  <2>1. /\ q.kind = kind /\ q.index \in 1 .. n - 1 /\ q.index = n - 1
        /\ q.level = Extreme(kind, b[q.index])
        /\ Beyond(kind, q.level, Extreme(kind, b[q.index + 1]))
        /\ q \in PointRecords
    BY <1>2, <1>5, PivotIs
  <2>2. q.index + 1 = n /\ n \in 1 .. Len(b)
    BY <1>2, <2>1
  <2>3. b[n] \in Candles
    BY <1>2, <2>2
  <2>4. /\ b[n].low \in Nat /\ b[n].high \in Nat /\ b[n].close \in Nat
        /\ b[n].low <= b[n].close /\ b[n].close <= b[n].high
    BY <2>3, CandlesAssumption
  <2>5. q.level \in Nat
    BY <2>1 DEF PointRecords
  <2>6. Beyond(kind, q.level, Extreme(kind, b[n])) /\ Beyond(kind, b[n].close, q.level)
    BY <1>1, <2>1, <2>2
  <2>7. QED BY <2>4, <2>5, <2>6 DEF Beyond, Extreme
<1>6. QED BY <1>3, <1>4, <1>5

\* An event more: a shift against the trend, or a break with it at a new level.
LEMMA LevelsTellMore ==
    ASSUME NEW ev, IsList(ev), NEW b, NEW n \in Nat, LevelsTell(ev, b, n), NEW x,
           x.kind \in Kinds, x.event = n + 1, Beyond(x.kind, b[n + 1].close, x.level),
           NEW k \in 1 .. n - 1, x.level = Extreme(x.kind, b[k])
    PROVE  LevelsTell(Append(ev, x), b, n + 1)
<1> PICK S : ev \in Seq(S)
  BY DEF IsList
<1>1. PICK new : new = Append(ev, x)
  OBVIOUS
<1>2. \A i \in DOMAIN new : new[i] = x \/ (i \in DOMAIN ev /\ new[i] = ev[i])
  BY <1>1
<1>3. \A i \in DOMAIN ev : ev[i].event \in 1 .. n + 1
  BY DEF LevelsTell
<1>4. x.event \in 1 .. n + 1 /\ k \in 1 .. x.event - 2
  OBVIOUS
<1>5. ASSUME NEW i \in DOMAIN new
      PROVE  /\ new[i].kind \in Kinds /\ new[i].event \in 1 .. n + 1
             /\ Beyond(new[i].kind, b[new[i].event].close, new[i].level)
             /\ \E m \in 1 .. new[i].event - 2 : new[i].level = Extreme(new[i].kind, b[m])
  <2>1. CASE new[i] = x
    BY <1>4, <2>1
  <2>2. CASE i \in DOMAIN ev /\ new[i] = ev[i]
    BY <1>3, <2>2 DEF LevelsTell
  <2>3. QED BY <1>2, <2>1, <2>2
<1>6. QED BY <1>1, <1>5 DEF LevelsTell

LEMMA BreaksGoOnMore ==
    ASSUME NEW ev, IsList(ev), BreaksGoOn(ev), NEW x,
           x.type = "BOS" =>
             /\ ev # <<>> /\ ev[Len(ev)].kind = x.kind
             /\ \A type \in {"MSS", "BOS"} :
                  x.level # LatestBefore(ev, Len(ev) + 1, type, x.kind)
    PROVE  BreaksGoOn(Append(ev, x))
<1> PICK S : ev \in Seq(S)
  BY DEF IsList
<1>1. PICK new, n : new = Append(ev, x) /\ n = Len(ev)
  OBVIOUS
<1>2. /\ n \in Nat /\ new[n + 1] = x /\ DOMAIN new = 1 .. n + 1 /\ DOMAIN ev = 1 .. n
      /\ \A i \in 1 .. n : new[i] = ev[i]
  BY <1>1
<1>3. ASSUME NEW type, NEW kind
      PROVE  \A i \in 1 .. n + 1 :
               LatestBefore(new, i, type, kind) = LatestBefore(ev, i, type, kind)
  BY <1>1, LatestStays
<1>4. ASSUME NEW i \in 1 .. n, new[i].type = "BOS"
      PROVE  /\ i # 1 /\ new[i - 1].kind = new[i].kind
             /\ \A type \in {"MSS", "BOS"} :
                  new[i].level # LatestBefore(new, i, type, new[i].kind)
  BY <1>2, <1>4, <1>3 DEF BreaksGoOn
<1>5. ASSUME x.type = "BOS"
      PROVE  /\ n + 1 # 1 /\ new[n].kind = x.kind
             /\ \A type \in {"MSS", "BOS"} : x.level # LatestBefore(new, n + 1, type, x.kind)
  BY <1>1, <1>5, <1>2, <1>3
<1>6. ASSUME NEW i \in 1 .. n + 1, new[i].type = "BOS"
      PROVE  /\ i # 1 /\ new[i - 1].kind = new[i].kind
             /\ \A type \in {"MSS", "BOS"} :
                  new[i].level # LatestBefore(new, i, type, new[i].kind)
  <2>1. CASE i \in 1 .. n
    BY <1>4, <1>6, <2>1
  <2>2. CASE i = n + 1
    <3>1. i - 1 = n
      BY <1>2, <2>2
    <3>2. QED BY <1>2, <1>5, <1>6, <2>2, <3>1
  <2>3. QED BY <1>2, <2>1, <2>2
<1>7. QED BY <1>1, <1>2, <1>6 DEF BreaksGoOn

LEMMA ShiftsTurnMore ==
    ASSUME NEW ev, IsList(ev), ShiftsTurn(ev), NEW x, NEW trend,
           EndsIn(ev, trend),
           x.type = "MSS" => trend # x.kind, x.type # "MSS" => trend = x.kind
    PROVE  /\ ShiftsTurn(Append(ev, x))
           /\ EndsIn(Append(ev, x), x.kind)
<1> PICK S : ev \in Seq(S)
  BY DEF IsList
<1>1. PICK new, n : new = Append(ev, x) /\ n = Len(ev)
  OBVIOUS
<1>2. /\ n \in Nat /\ new[n + 1] = x /\ DOMAIN new = 1 .. n + 1 /\ DOMAIN ev = 1 .. n
      /\ \A i \in 1 .. n : new[i] = ev[i]
  BY <1>1
<1>3. \A i \in 1 .. n : i \in ShiftsOf(new) <=> i \in ShiftsOf(ev)
  BY <1>2 DEF ShiftsOf
<1>4. ShiftsOf(ev) \subseteq 1 .. n /\ ShiftsOf(new) \subseteq 1 .. n + 1
  BY <1>2 DEF ShiftsOf
<1>5. n + 1 \in ShiftsOf(new) <=> x.type = "MSS"
  BY <1>2 DEF ShiftsOf
<1>6. \A i \in 1 .. n : i < n + 1
  BY <1>2
<1>7. ASSUME NEW i \in ShiftsOf(new), NEW j \in ShiftsOf(new), i < j,
             ~\E m \in ShiftsOf(new) : i < m /\ m < j
      PROVE  new[i].kind # new[j].kind
  <2>1. i \in 1 .. n /\ i \in ShiftsOf(ev)
    BY <1>4, <1>2, <1>7, <1>3
  <2>2. CASE j \in 1 .. n
    BY <1>3, <2>2, <1>4, <1>7, <2>1, <1>2 DEF ShiftsTurn
  <2>3. CASE j = n + 1
    <3>1. \A m \in ShiftsOf(ev) : m <= i
      <4>1. SUFFICES ASSUME NEW m \in ShiftsOf(ev) PROVE m <= i
        OBVIOUS
      <4>2. m \in 1 .. n /\ m \in ShiftsOf(new) /\ m < j
        BY <1>3, <1>4, <1>6, <2>3
      <4>3. ~(i < m)
        BY <1>7, <4>2
      <4>4. QED BY <2>1, <4>2, <4>3
    <3>2. ev[i].kind = trend
      BY <2>1, <3>1 DEF IsLastShift, EndsIn
    <3>3. QED BY <1>2, <1>5, <1>7, <2>1, <2>3, <3>2
  <2>4. QED BY <1>2, <1>4, <2>2, <2>3
<1>8. ASSUME NEW i, IsLastShift(new, i)
      PROVE  new[i].kind = x.kind
  <2>1. i \in ShiftsOf(new) /\ \A m \in ShiftsOf(new) : m <= i
    BY <1>8 DEF IsLastShift
  <2>2. CASE i = n + 1
    BY <1>2, <2>2
  <2>3. CASE i \in 1 .. n
    BY <1>2, <2>1, <2>3, <1>3, <1>4, <1>5 DEF IsLastShift, EndsIn
  <2>4. QED BY <1>2, <1>4, <2>1, <2>2, <2>3
<1>9. ShiftsTurn(new)
  BY <1>7 DEF ShiftsTurn
<1>10. QED BY <1>1, <1>8, <1>9 DEF EndsIn

\* The levels that the scan remembers are the latest ones of the longer list.
LEMMA LevelsKept ==
    ASSUME NEW ev, IsList(ev), NEW x, x.kind \in Kinds, NEW type, NEW old, NEW now,
           old = [kind \in Kinds |-> LatestBefore(ev, Len(ev) + 1, type, kind)],
           now = IF x.type = type THEN [old EXCEPT ![x.kind] = x.level] ELSE old
    PROVE  now = [kind \in Kinds |->
                    LatestBefore(Append(ev, x), Len(Append(ev, x)) + 1, type, kind)]
<1> PICK S : ev \in Seq(S)
  BY DEF IsList
<1>1. PICK n, new, last : /\ n = Len(ev) /\ new = Append(ev, x)
                          /\ last = [kind \in Kinds |-> LatestBefore(new, n + 2, type, kind)]
  OBVIOUS
<1>2. n \in Nat /\ Len(new) + 1 = n + 2
  BY <1>1
<1>3. ASSUME NEW kind \in Kinds
      PROVE  last[kind] = IF x.type = type /\ x.kind = kind THEN x.level ELSE old[kind]
  BY <1>1, LatestGrows
<1>4. /\ now = [kind \in Kinds |-> now[kind]]
      /\ \A kind \in Kinds :
           now[kind] = IF x.type = type /\ x.kind = kind THEN x.level ELSE old[kind]
  <2>1. old = [kind \in Kinds |-> old[kind]]
    OBVIOUS
  <2>2. CASE x.type = type
    <3>1. PICK f : f = [old EXCEPT ![x.kind] = x.level]
      OBVIOUS
    <3>2. /\ f = [kind \in Kinds |-> f[kind]] /\ f[x.kind] = x.level
          /\ \A kind \in Kinds : kind # x.kind => f[kind] = old[kind]
      BY <2>1, <3>1
    <3>3. now = f
      BY <2>2, <3>1
    <3>4. QED BY <2>2, <3>2, <3>3
  <2>3. CASE x.type # type
    BY <2>1, <2>3
  <2>4. QED BY <2>2, <2>3
<1>5. last = [kind \in Kinds |-> last[kind]] /\ \A kind \in Kinds : now[kind] = last[kind]
  BY <1>1, <1>3, <1>4
<1>6. now = last
  BY <1>4, <1>5
<1>7. QED BY <1>1, <1>2, <1>6

LEMMA TrendAdds ==
    ASSUME NEW s, IsList(s.events), NEW b, NEW n \in Nat, TrendOK(s, b, n), NEW x,
           IsDrawn(x, b, n), NEW t, t.events = Append(s.events, x), t.trend = x.kind,
           TurnsTrend(s, x, t) \/ KeepsTrend(s, x, t)
    PROVE  TrendOK(t, b, n + 1)
<1> x.kind \in Kinds /\ x.event = n + 1
  BY DEF IsDrawn
<1> \/ /\ x.type = "MSS" /\ s.trend # x.kind
      /\ t.mss = [s.mss EXCEPT ![x.kind] = x.level] /\ t.bos = s.bos
   \/ /\ x.type = "BOS" /\ s.trend = x.kind /\ x.level \notin {s.mss[x.kind], s.bos[x.kind]}
      /\ t.mss = s.mss /\ t.bos = [s.bos EXCEPT ![x.kind] = x.level]
  BY DEF TurnsTrend, KeepsTrend
<1>1. PICK ev, new : ev = s.events /\ new = Append(ev, x)
  OBVIOUS
<1>2. IsList(ev)
  BY <1>1
<1>3. t.events = new
  BY <1>1
<1>4. LevelsTell(new, b, n + 1)
  <2>1. PICK k \in 1 .. n - 1 : x.level = Extreme(x.kind, b[k])
    BY DEF IsDrawn
  <2>2. Beyond(x.kind, b[n + 1].close, x.level) /\ LevelsTell(ev, b, n)
    BY <1>1 DEF IsDrawn, TrendOK
  <2>3. QED BY <1>1, <1>2, <2>1, <2>2, LevelsTellMore
<1>5. BreaksGoOn(new)
  <2>1. ASSUME x.type = "BOS"
        PROVE  /\ ev # <<>> /\ ev[Len(ev)].kind = x.kind
               /\ \A type \in {"MSS", "BOS"} :
                    x.level # LatestBefore(ev, Len(ev) + 1, type, x.kind)
    BY <2>1, <1>1, OppositeKinds DEF TrendOK, TrendTells
  <2>2. QED BY <1>1, <1>2, <2>1, BreaksGoOnMore DEF TrendOK
<1>6. /\ ShiftsTurn(new)
      /\ EndsIn(new, x.kind)
  BY <1>1, <1>2, ShiftsTurnMore DEF TrendOK, TrendTells
<1>7. /\ t.mss = [kind \in Kinds |-> LatestBefore(new, Len(new) + 1, "MSS", kind)]
      /\ t.bos = [kind \in Kinds |-> LatestBefore(new, Len(new) + 1, "BOS", kind)]
  <2>1. PICK mss, bos, mss2, bos2 : mss = s.mss /\ bos = s.bos /\ mss2 = t.mss /\ bos2 = t.bos
    OBVIOUS
  <2>2. /\ mss = [kind \in Kinds |-> LatestBefore(ev, Len(ev) + 1, "MSS", kind)]
        /\ bos = [kind \in Kinds |-> LatestBefore(ev, Len(ev) + 1, "BOS", kind)]
    BY <1>1, <2>1 DEF TrendOK, TrendTells
  <2>3. /\ mss2 = IF x.type = "MSS" THEN [mss EXCEPT ![x.kind] = x.level] ELSE mss
        /\ bos2 = IF x.type = "BOS" THEN [bos EXCEPT ![x.kind] = x.level] ELSE bos
    BY <2>1
  <2>5. mss2 = [kind \in Kinds |-> LatestBefore(Append(ev, x), Len(Append(ev, x)) + 1, "MSS", kind)]
    BY <1>2, <2>2, <2>3, LevelsKept
  <2>6. bos2 = [kind \in Kinds |-> LatestBefore(Append(ev, x), Len(Append(ev, x)) + 1, "BOS", kind)]
    BY <1>2, <2>2, <2>3, LevelsKept
  <2>7. QED BY <1>1, <2>1, <2>5, <2>6
<1>8. new # <<>> /\ new[Len(new)] = x
  <2>1. PICK S : ev \in Seq(S)
    BY <1>2 DEF IsList
  <2>2. QED BY <1>1, <2>1
<1>9. TrendTells(t)
  BY <1>3, <1>6, <1>7, <1>8, OppositeKinds DEF TrendTells
<1>10. QED BY <1>3, <1>4, <1>5, <1>6, <1>9 DEF TrendOK

LEMMA TrendStays ==
    ASSUME NEW s, NEW t, NEW b, NEW c, NEW n \in Nat, TrendOK(s, b, n),
           \A i \in 1 .. n : c[i] = b[i],
           t.events = s.events, t.trend = s.trend, t.mss = s.mss, t.bos = s.bos
    PROVE  TrendOK(t, c, n) /\ TrendOK(t, c, n + 1)
<1>1. PICK ev : ev = s.events /\ ev = t.events
  OBVIOUS
<1>2. ASSUME NEW m \in {n, n + 1} PROVE LevelsTell(ev, c, m)
  <2>1. ASSUME NEW i \in DOMAIN ev
        PROVE  /\ ev[i].kind \in Kinds /\ ev[i].event \in 1 .. m
               /\ Beyond(ev[i].kind, c[ev[i].event].close, ev[i].level)
               /\ \E k \in 1 .. ev[i].event - 2 : ev[i].level = Extreme(ev[i].kind, c[k])
    <3>1. /\ ev[i].kind \in Kinds /\ ev[i].event \in 1 .. n
          /\ Beyond(ev[i].kind, b[ev[i].event].close, ev[i].level)
      BY <1>1 DEF TrendOK, LevelsTell
    <3>2. PICK k \in 1 .. ev[i].event - 2 : ev[i].level = Extreme(ev[i].kind, b[k])
      BY <1>1 DEF TrendOK, LevelsTell
    <3>3. k \in 1 .. n /\ ev[i].event \in 1 .. m
      BY <3>1, <3>2
    <3>4. QED BY <3>1, <3>2, <3>3
  <2>2. QED BY <2>1 DEF LevelsTell
<1>3. BreaksGoOn(ev) /\ ShiftsTurn(ev)
  BY <1>1 DEF TrendOK
<1>4. TrendTells(t)
  BY <1>1 DEF TrendOK, TrendTells
<1>5. QED BY <1>1, <1>2, <1>3, <1>4 DEF TrendOK

LEMMA TrendNext ==
    ASSUME BarsOK, ReadsBar, IsStructure(structure), IsList(structure.events),
           IsBook(liquidity), PointsInv, TrendInv, StructureBar(bars'), LiquidityBar(bars')
    PROVE  TrendInv'
<1>1. PICK s, t, b, n, points :
        /\ s = structure /\ t = structure' /\ b = bars' /\ n = Now
        /\ points = StructurePoints(s.points, b)
  OBVIOUS
<1>2. /\ n \in Nat /\ Now' = n + 1 /\ Len(b) = n + 1
      /\ \A i \in 1 .. n : b[i] = bars[i]
  BY <1>1, Grows DEF Now
<1>3. /\ t.points = points
      /\ \/ \E kind \in Kinds :
              /\ Shifts(s, points, kind, b)
              /\ t.trend = kind
              /\ t.mss = [s.mss EXCEPT ![kind] = Selected(points, kind).level] /\ t.bos = s.bos
              /\ t.events = Append(s.events, StructureEvent("MSS", kind, points, b))
         \/ \E kind \in Kinds :
              /\ Breaks(s, points, kind, b)
              /\ t.trend = s.trend
              /\ t.mss = s.mss /\ t.bos = [s.bos EXCEPT ![kind] = Selected(points, kind).level]
              /\ t.events = Append(s.events, StructureEvent("BOS", kind, points, b))
         \/ /\ \A kind \in Kinds : ~Shifts(s, points, kind, b)
            /\ t.trend = s.trend /\ t.mss = s.mss /\ t.bos = s.bos
            /\ t.events = s.events
  BY <1>1, StructureIs
<1>4. IsList(s.events) /\ TrendOK(s, b, n)
  <2>1. TrendOK(s, bars, n)
    BY <1>1 DEF TrendInv
  <2>2. QED BY <1>1, <1>2, <2>1, TrendStays
<1>5. StructureWidth \in Nat \ {0}
  BY IctAssumption
<1>6. PICK P : P = PivotsSoFar(StructureWidth)'
  OBVIOUS
<1>7. P \in SUBSET PointRecords /\ ZigzagOK(points, P)
  <2>1. P = (PivotsSoFar(StructureWidth) \cup Fresh("HIGH", b, StructureWidth))
              \cup Fresh("LOW", b, StructureWidth)
    BY <1>1, <1>5, <1>6, PivotsGrow
  <2>2. \A q \in PivotsSoFar(StructureWidth) : q \in PointRecords
    BY <1>5, PivotsAreThere
  <2>3. ASSUME NEW kind \in Kinds, NEW q \in Fresh(kind, b, StructureWidth)
        PROVE  q \in PointRecords
    BY <2>3, <1>1, Grows, <1>5, PivotIs DEF Fresh
  <2>4. P \in SUBSET PointRecords
    BY <2>1, <2>2, <2>3 DEF Kinds
  <2>5. PointsInv'
    BY PointsNext
  <2>6. ZigzagOK(t.points, P)
    BY <1>1, <1>6, <2>5 DEF PointsInv, ZigzagOK
  <2>7. QED BY <1>3, <2>4, <2>6
<1>8. ASSUME NEW kind \in Kinds, Selected(points, kind) # None,
             Beyond(kind, b[n + 1].close, Selected(points, kind).level)
      PROVE  \E k \in 1 .. n - 1 : Selected(points, kind).level = Extreme(kind, b[k])
  <2>1. PICK q : q = Selected(points, kind)
    OBVIOUS
  <2>2. q \in P /\ q.kind = kind
    BY <1>7, <1>8, <2>1, SelectedIs
  <2>3. q \in PivotsSoFar(StructureWidth)' /\ Beyond(q.kind, bars'[Now'].close, q.level)
    BY <1>1, <1>2, <1>6, <1>8, <2>1, <2>2
  <2>4. \E k \in 1 .. Now' - 2 : q.level = Extreme(q.kind, bars'[k])
    BY <1>5, <2>3, LevelIsOld
  <2>5. Now' - 2 = n - 1
    BY <1>2
  <2>6. QED BY <1>1, <2>1, <2>2, <2>4, <2>5
<1>9. ASSUME NEW type, NEW kind, NEW x, x = StructureEvent(type, kind, points, b)
      PROVE  /\ x.type = type /\ x.kind = kind /\ x.level = Selected(points, kind).level
             /\ x.event = n + 1
  BY <1>2, <1>9 DEF StructureEvent
<1>10. TrendOK(t, b, n + 1)
  <2>1. ASSUME NEW kind \in Kinds, Shifts(s, points, kind, b),
               t.trend = kind,
               t.mss = [s.mss EXCEPT ![kind] = Selected(points, kind).level], t.bos = s.bos,
               t.events = Append(s.events, StructureEvent("MSS", kind, points, b))
        PROVE  TrendOK(t, b, n + 1)
    <3>1. PICK x : x = StructureEvent("MSS", kind, points, b)
      OBVIOUS
    <3>2. /\ x.type = "MSS" /\ x.kind = kind /\ x.level = Selected(points, kind).level
          /\ x.event = n + 1
      BY <1>9, <3>1
    <3>3. /\ Selected(points, kind) # None
          /\ Beyond(kind, b[n + 1].close, Selected(points, kind).level) /\ s.trend # kind
      BY <1>2, <2>1 DEF Shifts
    <3>4. PICK k \in 1 .. n - 1 : x.level = Extreme(x.kind, b[k])
      BY <1>8, <3>2, <3>3
    <3>5. /\ t.mss = [s.mss EXCEPT ![x.kind] = x.level] /\ t.bos = s.bos /\ t.trend = x.kind
          /\ t.events = Append(s.events, x) /\ x.kind \in Kinds
          /\ Beyond(x.kind, b[n + 1].close, x.level) /\ s.trend # x.kind
      BY <2>1, <3>1, <3>2, <3>3
    <3>6. IsDrawn(x, b, n) /\ (TurnsTrend(s, x, t) \/ KeepsTrend(s, x, t))
      BY <3>2, <3>4, <3>5 DEF IsDrawn, TurnsTrend, KeepsTrend
    <3>7. QED BY <1>2, <1>4, <3>5, <3>6, TrendAdds
  <2>2. ASSUME NEW kind \in Kinds, Breaks(s, points, kind, b),
               t.trend = s.trend,
               t.mss = s.mss, t.bos = [s.bos EXCEPT ![kind] = Selected(points, kind).level],
               t.events = Append(s.events, StructureEvent("BOS", kind, points, b))
        PROVE  TrendOK(t, b, n + 1)
    <3>1. PICK x : x = StructureEvent("BOS", kind, points, b)
      OBVIOUS
    <3>2. /\ x.type = "BOS" /\ x.kind = kind /\ x.level = Selected(points, kind).level
          /\ x.event = n + 1
      BY <1>9, <3>1
    <3>3. /\ Selected(points, kind) # None
          /\ Beyond(kind, b[n + 1].close, Selected(points, kind).level) /\ s.trend = kind
          /\ Selected(points, kind).level \notin {s.mss[kind], s.bos[kind]}
      BY <1>2, <2>2 DEF Breaks
    <3>4. PICK k \in 1 .. n - 1 : x.level = Extreme(x.kind, b[k])
      BY <1>8, <3>2, <3>3
    <3>5. /\ t.mss = s.mss /\ t.bos = [s.bos EXCEPT ![x.kind] = x.level] /\ t.trend = x.kind
          /\ t.events = Append(s.events, x) /\ x.kind \in Kinds
          /\ Beyond(x.kind, b[n + 1].close, x.level) /\ s.trend = x.kind
          /\ x.level \notin {s.mss[x.kind], s.bos[x.kind]}
      BY <2>2, <3>1, <3>2, <3>3
    <3>6. IsDrawn(x, b, n) /\ (TurnsTrend(s, x, t) \/ KeepsTrend(s, x, t))
      BY <3>2, <3>4, <3>5 DEF IsDrawn, TurnsTrend, KeepsTrend
    <3>7. QED BY <1>2, <1>4, <3>5, <3>6, TrendAdds
  <2>3. ASSUME t.trend = s.trend, t.mss = s.mss, t.bos = s.bos, t.events = s.events
        PROVE  TrendOK(t, b, n + 1)
    BY <1>2, <1>4, <2>3, TrendStays
  <2>4. QED BY <1>3, <2>1, <2>2, <2>3
<1>11. ASSUME NEW kind \in Kinds, Selected(t.points, kind) # None,
              Beyond(kind, b[n + 1].close, Selected(t.points, kind).level)
       PROVE  /\ t.events # <<>>
              /\ t.events[Len(t.events)].kind = kind \/ t.events[Len(t.events)].event = n + 1
  <2>1. ASSUME NEW type, NEW other,
               t.events = Append(s.events, StructureEvent(type, other, points, b))
        PROVE  t.events # <<>> /\ t.events[Len(t.events)].event = n + 1
    <3>1. PICK x : x = StructureEvent(type, other, points, b)
      OBVIOUS
    <3>2. PICK S : s.events \in Seq(S)
      BY <1>4 DEF IsList
    <3>3. x.event = n + 1
      BY <1>9, <3>1
    <3>4. QED BY <2>1, <3>1, <3>2, <3>3
  <2>2. CASE /\ \A k \in Kinds : ~Shifts(s, points, k, b)
             /\ t.trend = s.trend /\ t.events = s.events
    BY <1>2, <1>3, <1>11, <2>2, <1>4, OppositeKinds DEF Shifts, TrendOK, TrendTells
  <2>3. QED BY <1>3, <2>1, <2>2
<1>12. TrendOK(structure', bars', Now')
  BY <1>1, <1>2, <1>10
<1>13. NonePassedOver'
  BY <1>1, <1>2, <1>11 DEF NonePassedOver
<1>14. QED BY <1>12, <1>13 DEF TrendInv, TrendOK, LevelsTell, TrendTells

LEMMA BreaksInit ==
    ASSUME Unread
    PROVE  PointsInv /\ TrendInv
<1>1. bars = <<>> /\ Now = 0
  BY DEF Unread, Now
<1>2. PICK p : p = [kind \in Kinds |-> None]
  OBVIOUS
<1>3. /\ structure = [points |-> <<>>, trend |-> None, events |-> <<>>, mss |-> p, bos |-> p]
      /\ liquidity = [points |-> <<>>, zones |-> <<>>, seen |-> {}]
  BY <1>2 DEF Unread, IctInit, NoBook, NoStructure, NoLevels
<1>4. /\ structure.points = <<>> /\ liquidity.points = <<>> /\ structure.events = <<>>
      /\ structure.trend = None /\ structure.mss = p /\ structure.bos = p
  BY <1>3
<1>5. ASSUME NEW width PROVE PivotsSoFar(width) = {}
  <2>1. ASSUME NEW q \in PivotsSoFar(width) PROVE FALSE
    <3>1. \E k \in 1 .. Now : TRUE
      BY <2>1, PivotsAre
    <3>2. QED BY <1>1, <3>1
  <2>2. QED BY <2>1
<1>6. ZigzagOK(<<>>, {}) /\ Successive({})
  <2>1. PICK none : none = <<>>
    OBVIOUS
  <2>2. none \in Seq({}) /\ DOMAIN none = {} /\ Len(none) = 0
    BY <2>1
  <2>3. Zigzag({}) = {} /\ Range(none) = {}
    BY <2>2 DEF Zigzag, Range
  <2>4. 1 .. Len(none) - 1 = {}
    BY <2>2
  <2>5. ZigzagOK(none, {})
    BY <2>1, <2>2, <2>3, <2>4 DEF ZigzagOK
  <2>6. QED BY <2>1, <2>5 DEF Successive
<1>7. PointsInv
  BY <1>4, <1>5, <1>6 DEF PointsInv
<1>8. PICK ev : ev = <<>>
  OBVIOUS
<1>9. DOMAIN ev = {} /\ Len(ev) = 0
  BY <1>8
<1>10. LevelsTell(ev, bars, Now) /\ BreaksGoOn(ev) /\ ShiftsOf(ev) = {}
  BY <1>9 DEF LevelsTell, BreaksGoOn, ShiftsOf
<1>11. ShiftsTurn(ev) /\ EndsIn(ev, None)
  BY <1>10 DEF ShiftsTurn, EndsIn, IsLastShift
<1>12. ASSUME NEW type, NEW kind PROVE LatestBefore(ev, Len(ev) + 1, type, kind) = None
  BY <1>9 DEF LatestBefore
<1>13. TrendTells(structure)
  BY <1>2, <1>12, <1>4, <1>8, <1>11 DEF TrendTells
<1>14. NonePassedOver
  BY <1>4 DEF Selected, NonePassedOver
<1>15. QED BY <1>4, <1>7, <1>8, <1>10, <1>11, <1>13, <1>14 DEF TrendInv, TrendOK

LEMMA BreaksNext ==
    ASSUME ScanInv, PointsInv, TrendInv, [Next]_vars
    PROVE  PointsInv' /\ TrendInv'
<1>1. CASE NextBar
  BY <1>1, PointsNext, TrendNext DEF NextBar, IctBar, ScanInv, ListsInv, ZonesInv
<1>2. CASE UNCHANGED vars
  <2>1. bars' = bars /\ structure' = structure /\ liquidity' = liquidity
    BY <1>2 DEF vars, ictVars
  <2>2. Now' = Now
    BY <2>1 DEF Now
  <2>3. ASSUME NEW width PROVE PivotsSoFar(width)' = PivotsSoFar(width)
    BY <2>1, <2>2 DEF PivotsSoFar
  <2>4. PICK p, l : p = structure.points /\ l = liquidity.points
    OBVIOUS
  <2>5. PICK P, Q : P = PivotsSoFar(StructureWidth) /\ Q = PivotsSoFar(ClusterWidth)
    OBVIOUS
  <2>6. ZigzagOK(p, P) /\ ZigzagOK(l, Q) /\ Successive(P) /\ Successive(Q)
    BY <2>4, <2>5 DEF PointsInv
  <2>7. PointsInv'
    BY <2>3, <2>5, <2>1, <2>4, <2>6 DEF PointsInv, ZigzagOK, Successive
  <2>8. TrendInv'
    BY <2>1, <2>2 DEF TrendInv, NonePassedOver, TrendOK, LevelsTell, TrendTells
  <2>9. QED BY <2>7, <2>8
<1>3. CASE Slide
  <2>1. Unread'
    BY <1>3, Restarts DEF ScanInv
  <2>2. QED BY <2>1, BreaksInit, PTL
<1>4. QED BY <1>1, <1>2, <1>3 DEF Next

\* The points of the scans are the zigzag of all pivots, breaks go on with the shift
\* before them at levels of their own, and no close beyond a level is passed over.
THEOREM BreaksAreDefined == Spec => []BreaksFollowTrend
<1>1. Init => PointsInv /\ TrendInv
  BY AtFirst, BreaksInit
<1>2. ScanInv /\ PointsInv /\ TrendInv /\ [Next]_vars => PointsInv' /\ TrendInv'
  BY BreaksNext
<1>3. PointsInv /\ TrendInv => BreaksFollowTrend
  <2> SUFFICES ASSUME PointsInv, TrendInv PROVE BreaksFollowTrend
    OBVIOUS
  <2>1. PICK ev : ev = structure.events
    OBVIOUS
  <2>2. /\ Range(structure.points) = Zigzag(PivotsSoFar(StructureWidth))
        /\ Range(liquidity.points) = Zigzag(PivotsSoFar(ClusterWidth))
    BY DEF PointsInv, ZigzagOK
  <2>3. ASSUME NEW i \in 1 .. Len(structure.points) - 1
        PROVE  Precedes(structure.points[i + 1], structure.points[i])
    BY DEF PointsInv, ZigzagOK
  <2>4. LevelsTell(ev, bars, Now) /\ BreaksGoOn(ev) /\ ShiftsTurn(ev)
    BY <2>1 DEF TrendInv, TrendOK
  <2>5. \A i, j \in {m \in DOMAIN ev : ev[m].type = "MSS"} :
          i < j /\ ~(\E m \in {m \in DOMAIN ev : ev[m].type = "MSS"} : i < m /\ m < j)
            => ev[i].kind # ev[j].kind
    BY <2>4 DEF ShiftsTurn, ShiftsOf
  <2>6. \A i \in DOMAIN ev :
          /\ Beyond(ev[i].kind, bars[ev[i].event].close, ev[i].level)
          /\ \E k \in 1 .. ev[i].event - 2 : ev[i].level = Extreme(ev[i].kind, bars[k])
    BY <2>4 DEF LevelsTell
  <2>7. \A i \in DOMAIN ev : ev[i].type = "BOS" =>
          /\ ev[i - 1].kind = ev[i].kind
          /\ \A type \in {"MSS", "BOS"} : ev[i].level # LatestBefore(ev, i, type, ev[i].kind)
    BY <2>4 DEF BreaksGoOn
  <2>8. NonePassedOver
    BY DEF TrendInv
  <2>9. QED BY <2>1, <2>2, <2>3, <2>5, <2>6, <2>7, <2>8 DEF BreaksFollowTrend, NonePassedOver
<1>4. QED BY <1>1, <1>2, <1>3, ScanHolds, PTL DEF Spec

-----------------------------------------------------------------------------
(* True ranges and their averages.                                          *)

LEMMA DistanceIs == \A x, y \in Nat : Distance(x, y) \in Nat
BY DEF Distance

LEMMA TrueRangeIs ==
    ASSUME NEW b \in Seq(Candles), NEW i \in 1 .. Len(b)
    PROVE  TrueRange(b, i) \in Nat
<1>1. b[i] \in Candles /\ (i # 1 => b[i - 1] \in Candles)
  OBVIOUS
<1>2. PICK within : within = b[i].high - b[i].low
  OBVIOUS
<1>3. within \in Nat
  <2>1. PICK c : c = b[i]
    OBVIOUS
  <2>2. c.low \in Nat /\ c.high \in Nat /\ c.low <= c.high
    BY <1>1, <2>1, CandleIs
  <2>3. QED BY <1>2, <2>1, <2>2
<1>4. CASE i = 1
  BY <1>2, <1>3, <1>4 DEF TrueRange
<1>5. CASE i # 1
  <2>1. PICK x, y, c, close : /\ c = b[i] /\ close = b[i - 1].close
                       /\ x = Distance(c.high, close) /\ y = Distance(c.low, close)
    OBVIOUS
  <2>2. c.low \in Nat /\ c.high \in Nat /\ close \in Nat
    BY <1>1, <1>5, <2>1, CandleIs
  <2>3. x \in Nat /\ y \in Nat
    BY <2>1, <2>2, DistanceIs
  <2>4. PICK S, bound : S = {within, x, y} /\ bound = within + x + y
    OBVIOUS
  <2>5. bound \in Nat /\ S \in SUBSET (0 .. bound) /\ S # {} /\ S \in SUBSET Nat
    BY <1>3, <2>3, <2>4
  <2>6. Max(S) \in S
    BY <2>5, MaxIsGreatest
  <2>7. TrueRange(b, i) = Max(S)
    BY <1>2, <1>5, <2>1, <2>4 DEF TrueRange
  <2>8. QED BY <2>5, <2>6, <2>7
<1>6. QED BY <1>4, <1>5

\* The sum has been taken bar by bar.
LEMMA TotalTurns ==
    ASSUME NEW b, NEW n \in Nat
    PROVE  \E total : TotalRange(b, n) = total[n] /\ Sums(total, b, n)
<1> DEFINE Turn(f, k) == IF k = 0 THEN 0 ELSE f[k - 1] + TrueRange(b, k)
           Loop(f, m) == f = [k \in 0 .. m |-> Turn(f, k)]
           Reaching == {m \in Nat : \E f : Loop(f, m)}
           total == CHOOSE f : Loop(f, n)
<1>1. 0 \in Reaching
  <2> DEFINE f == [k \in 0 .. 0 |-> 0]
  <2>1. \A k \in 0 .. 0 : Turn(f, k) = 0
    OBVIOUS
  <2> HIDE DEF Turn
  <2>2. Loop(f, 0)
    BY <2>1
  <2>3. QED BY <2>2
<1>2. ASSUME NEW m \in Nat, m \in Reaching PROVE m + 1 \in Reaching
  <2>1. PICK f : Loop(f, m)
    BY <1>2
  <2> DEFINE g == [k \in 0 .. m + 1 |-> IF k <= m THEN f[k] ELSE Turn(f, k)]
  <2>2. \A k \in 0 .. m : g[k] = f[k] /\ f[k] = Turn(f, k)
    <3>1. \A k \in 0 .. m : f[k] = Turn(f, k)
      <4> HIDE DEF Turn, g
      <4>1. QED BY <2>1
    <3>2. \A k \in 0 .. m : g[k] = f[k]
      <4> HIDE DEF Turn
      <4>1. \A k \in 0 .. m : k \in 0 .. m + 1 /\ k <= m
        OBVIOUS
      <4>2. QED BY <4>1
    <3> HIDE DEF Turn, g
    <3>3. QED BY <3>1, <3>2
  <2>3. \A k \in 0 .. m + 1 : k = 0 \/ k - 1 \in 0 .. m
    OBVIOUS
  <2>4. ASSUME NEW k \in 0 .. m + 1 PROVE g[k] = Turn(g, k)
    <3>1. Turn(g, k) = Turn(f, k)
      <4>1. k = 0 \/ g[k - 1] = f[k - 1]
        <5> HIDE DEF g, Turn
        <5>1. QED BY <2>2, <2>3
      <4> HIDE DEF g
      <4>2. QED BY <4>1
    <3>2. g[k] = Turn(f, k)
      <4>1. g[k] = IF k <= m THEN f[k] ELSE Turn(f, k)
        <5> HIDE DEF Turn
        <5>1. QED OBVIOUS
      <4>2. k <= m => f[k] = Turn(f, k)
        <5> HIDE DEF Turn, g
        <5>1. QED BY <2>2
      <4> HIDE DEF Turn, g
      <4>3. QED BY <4>1, <4>2
    <3> HIDE DEF Turn, g
    <3>3. QED BY <3>1, <3>2
  <2>5. g = [k \in 0 .. m + 1 |-> g[k]]
    OBVIOUS
  <2> HIDE DEF g, Turn
  <2>6. Loop(g, m + 1)
    BY <2>4, <2>5
  <2>7. QED BY <2>6
<1>3. n \in Reaching
  <2> HIDE DEF Reaching
  <2>1. Nat \subseteq Reaching
    BY <1>1, <1>2, Induction
  <2>2. QED BY <2>1
<1>4. Loop(total, n)
  <2>1. \E f : Loop(f, n)
    BY <1>3
  <2> HIDE DEF Loop
  <2>2. QED BY <2>1
<1>5. TotalRange(b, n) = total[n]
  BY DEF TotalRange
<1> HIDE DEF total
<1>6. \A k \in 0 .. n : total[k] = Turn(total, k)
  <2> HIDE DEF Turn
  <2>1. QED BY <1>4
<1>7. total[0] = 0
  BY <1>6
<1>8. \A k \in 1 .. n : k \in 0 .. n /\ k # 0
  OBVIOUS
<1>9. Sums(total, b, n)
  BY <1>6, <1>7, <1>8 DEF Sums
<1>10. QED BY <1>5, <1>9

LEMMA TotalIs ==
    ASSUME NEW b \in Seq(Candles), NEW n \in 0 .. Len(b)
    PROVE  TotalRange(b, n) \in Nat /\ (Moves(b, n) => TotalRange(b, n) # 0)
<1>1. n \in Nat /\ \A i \in 1 .. n : TrueRange(b, i) \in Nat
  BY TrueRangeIs
<1>2. PICK total : TotalRange(b, n) = total[n] /\ Sums(total, b, n)
  BY <1>1, TotalTurns
<1> DEFINE Right(k) == total[k] \in Nat /\ (Moves(b, k) => total[k] # 0)
           Good == {k \in Nat : k <= n => Right(k)}
<1>3. 0 \in Good
  BY <1>2 DEF Sums, Moves
<1>4. ASSUME NEW k \in Nat, k \in Good PROVE k + 1 \in Good
  <2>1. SUFFICES ASSUME k + 1 <= n PROVE Right(k + 1)
    OBVIOUS
  <2>2. Right(k) /\ k + 1 \in 1 .. n /\ (k + 1) - 1 = k
    BY <1>1, <1>4, <2>1
  <2>3. PICK x, y, r : x = total[k] /\ y = total[k + 1] /\ r = TrueRange(b, k + 1)
    OBVIOUS
  <2>4. y = x + r /\ x \in Nat /\ r \in Nat
    BY <1>1, <1>2, <2>2, <2>3 DEF Sums
  <2>5. Moves(b, k + 1) => Moves(b, k) \/ r # 0
    BY <2>3 DEF Moves
  <2>6. y \in Nat /\ (x # 0 \/ r # 0 => y # 0)
    BY <2>4
  <2>7. Moves(b, k) => x # 0
    BY <2>2, <2>3
  <2>8. QED BY <2>3, <2>5, <2>6, <2>7
<1>5. Right(n)
  <2> HIDE DEF Good, Right
  <2>1. Nat \subseteq Good
    BY <1>3, <1>4, Induction
  <2>2. QED BY <1>1, <2>1 DEF Good
<1>6. QED BY <1>2, <1>5

-----------------------------------------------------------------------------
LEMMA WilderTurns ==
    ASSUME NEW b, Len(b) \in Nat, NEW length \in Nat, length <= Len(b)
    PROVE  \E current : /\ WilderAtr(b, length) = current[Len(b)]
                        /\ Smooths(current, b, length, Len(b))
<1> DEFINE n == Len(b)
           Turn(f, i) == IF i = length THEN [num |-> TotalRange(b, length), den |-> length]
                         ELSE Smoothed(f[i - 1], TrueRange(b, i), length)
           Loop(f, m) == f = [i \in length .. m |-> Turn(f, i)]
           Reaching == {k \in Nat : \E f : Loop(f, length + k)}
           current == CHOOSE f : Loop(f, n)
<1>1. n \in Nat
  OBVIOUS
<1>2. 0 \in Reaching
  <2>1. length + 0 = length /\ length .. length = {length}
    OBVIOUS
  <2>2. PICK first : first = [num |-> TotalRange(b, length), den |-> length]
    OBVIOUS
  <2>3. PICK f : f = [i \in length .. length |-> first]
    OBVIOUS
  <2>4. \A i \in length .. length : Turn(f, i) = first
    BY <2>1, <2>2
  <2> HIDE DEF Turn
  <2>5. Loop(f, length)
    BY <2>3, <2>4
  <2> HIDE DEF Loop
  <2>6. QED BY <2>1, <2>5
<1>3. ASSUME NEW k \in Nat, k \in Reaching PROVE k + 1 \in Reaching
  <2>1. PICK m : m = length + k
    OBVIOUS
  <2>2. m \in Nat /\ length + (k + 1) = m + 1 /\ m >= length
    BY <2>1
  <2>3. PICK f : Loop(f, m)
    <3> HIDE DEF Loop
    <3>1. QED BY <1>3, <2>1
  <2> DEFINE g == [i \in length .. m + 1 |-> IF i <= m THEN f[i] ELSE Turn(f, i)]
  <2>4. \A i \in length .. m : g[i] = f[i] /\ f[i] = Turn(f, i)
    <3>1. \A i \in length .. m : f[i] = Turn(f, i)
      <4> HIDE DEF Turn, g
      <4>1. QED BY <2>3
    <3>2. \A i \in length .. m : g[i] = f[i]
      <4> HIDE DEF Turn
      <4>1. \A i \in length .. m : i \in length .. m + 1 /\ i <= m
        BY <2>2
      <4>2. QED BY <4>1
    <3> HIDE DEF Turn, g
    <3>3. QED BY <3>1, <3>2
  <2>5. \A i \in length .. m + 1 : i = length \/ i - 1 \in length .. m
    BY <2>2
  <2>6. ASSUME NEW i \in length .. m + 1 PROVE g[i] = Turn(g, i)
    <3>1. Turn(g, i) = Turn(f, i)
      <4>1. i = length \/ g[i - 1] = f[i - 1]
        <5> HIDE DEF g, Turn
        <5>1. QED BY <2>4, <2>5
      <4> HIDE DEF g
      <4>2. QED BY <4>1
    <3>2. g[i] = Turn(f, i)
      <4>1. g[i] = IF i <= m THEN f[i] ELSE Turn(f, i)
        <5> HIDE DEF Turn
        <5>1. QED OBVIOUS
      <4>2. i <= m => f[i] = Turn(f, i)
        <5> HIDE DEF Turn, g
        <5>1. QED BY <2>2, <2>4
      <4> HIDE DEF Turn, g
      <4>3. QED BY <4>1, <4>2
    <3> HIDE DEF Turn, g
    <3>3. QED BY <3>1, <3>2
  <2>7. g = [i \in length .. m + 1 |-> g[i]]
    OBVIOUS
  <2> HIDE DEF g, Turn
  <2>8. Loop(g, m + 1)
    BY <2>6, <2>7
  <2> HIDE DEF Loop
  <2>9. QED BY <2>2, <2>8
<1>4. \E f : Loop(f, n)
  <2>1. n - length \in Nat /\ length + (n - length) = n
    BY <1>1
  <2> HIDE DEF Reaching, n, Loop
  <2>2. Nat \subseteq Reaching
    BY <1>2, <1>3, Induction
  <2>3. n - length \in Reaching
    BY <2>1, <2>2
  <2>4. QED BY <2>1, <2>3 DEF Reaching
<1>5. Loop(current, n)
  <2> HIDE DEF Loop, n
  <2>1. QED BY <1>4
<1>6. WilderAtr(b, length) = current[n]
  BY DEF WilderAtr
<1> HIDE DEF current
<1>7. \A i \in length .. n : current[i] = Turn(current, i)
  <2> HIDE DEF Turn, n
  <2>1. QED BY <1>5
<1>8. length \in length .. n
  OBVIOUS
<1>9. current[length] = FirstAverage(b, length)
  BY <1>7, <1>8 DEF FirstAverage
<1>10. \A i \in length + 1 .. n : i \in length .. n /\ i # length
  OBVIOUS
<1>11. Smooths(current, b, length, n)
  BY <1>7, <1>9, <1>10 DEF Smooths
<1>12. QED BY <1>6, <1>11

LEMMA SmoothedIs ==
    ASSUME NEW p, NEW moves, IsAverage(p, moves), NEW range \in Nat, NEW length \in Nat \ {0},
           NEW more, more => (moves /\ length # 1) \/ range # 0
    PROVE  IsAverage(Smoothed(p, range, length), more)
<1>1. PICK N, D, less : N = p.num /\ D = p.den /\ less = length - 1
  OBVIOUS
<1>2. N \in Nat /\ D \in Nat \ {0} /\ less \in Nat
  BY <1>1 DEF IsAverage
<1>3. Smoothed(p, range, length) = [num |-> N * less + range * D, den |-> D * length]
  BY <1>1 DEF Smoothed
<1>4. PICK x, y, z : x = N * less /\ y = range * D /\ z = D * length
  OBVIOUS
<1>5. \A i, j \in Nat : i * j \in Nat /\ (i # 0 /\ j # 0 => i * j # 0)
  OBVIOUS
<1>6. x \in Nat /\ (N # 0 /\ less # 0 => x # 0)
  BY <1>2, <1>4, <1>5
<1>7. y \in Nat /\ (range # 0 => y # 0)
  BY <1>2, <1>4, <1>5
<1>8. z \in Nat \ {0}
  BY <1>2, <1>4, <1>5
<1>9. x + y \in Nat /\ (x # 0 \/ y # 0 => x + y # 0)
  BY <1>6, <1>7
<1>10. more => x + y # 0
  <2>1. CASE moves /\ length # 1
    BY <1>1, <2>1, <1>6, <1>9 DEF IsAverage
  <2>2. CASE range # 0
    BY <1>7, <1>9, <2>2
  <2>3. QED BY <2>1, <2>2
<1>11. [num |-> x + y, den |-> z] \in [num : Nat, den : Nat \ {0}]
  BY <1>8, <1>9
<1>12. QED BY <1>3, <1>4, <1>10, <1>11 DEF IsAverage

\* Once a bar has had a range the average is positive.
LEMMA WilderIsAverage ==
    ASSUME NEW b \in Seq(Candles), NEW length \in Nat \ {0}, length <= Len(b)
    PROVE  IsAverage(WilderAtr(b, length), length # 1 /\ Moves(b, Len(b)))
<1>1. PICK n : n = Len(b)
  OBVIOUS
<1>2. n \in Nat /\ length <= n /\ \A i \in 1 .. n : TrueRange(b, i) \in Nat
  BY <1>1, TrueRangeIs
<1>3. PICK current : /\ WilderAtr(b, length) = current[n]
                     /\ Smooths(current, b, length, n)
  BY <1>1, <1>2, WilderTurns
<1> DEFINE Right(i) == IsAverage(current[i], length # 1 /\ Moves(b, i))
           Good == {k \in Nat : length + k <= n => Right(length + k)}
<1>4. 0 \in Good
  BY <1>3, TotalIs DEF Smooths, IsAverage, FirstAverage
<1>5. ASSUME NEW k \in Nat, k \in Good PROVE k + 1 \in Good
  <2>1. PICK i : i = length + k
    OBVIOUS
  <2>2. i \in Nat /\ length + (k + 1) = i + 1 /\ i >= length /\ (i + 1) - 1 = i
    BY <2>1
  <2>3. SUFFICES ASSUME i + 1 <= n PROVE Right(i + 1)
    BY <2>2
  <2>4. i <= n /\ i + 1 \in 1 .. n /\ i + 1 \in length + 1 .. n
    BY <1>2, <2>2, <2>3
  <2>5. Right(i)
    BY <1>5, <2>1, <2>4
  <2>6. PICK p, range : p = current[i] /\ range = TrueRange(b, i + 1)
    OBVIOUS
  <2>7. current[i + 1] = Smoothed(p, range, length) /\ range \in Nat
    BY <1>2, <1>3, <2>2, <2>4, <2>6 DEF Smooths
  <2>8. Moves(b, i + 1) => Moves(b, i) \/ range # 0
    BY <2>2, <2>6 DEF Moves
  <2>9. PICK moves, more : /\ moves = (length # 1 /\ Moves(b, i))
                           /\ more = (length # 1 /\ Moves(b, i + 1))
    OBVIOUS
  <2>10. IsAverage(p, moves)
    BY <2>5, <2>6, <2>9
  <2>11. more => (moves /\ length # 1) \/ range # 0
    BY <2>8, <2>9
  <2>12. IsAverage(Smoothed(p, range, length), more)
    BY <2>7, <2>10, <2>11, SmoothedIs
  <2>13. QED BY <2>7, <2>9, <2>12
<1>6. Right(n)
  <2>1. PICK k : k = n - length
    OBVIOUS
  <2>2. k \in Nat /\ length + k = n
    BY <1>2, <2>1
  <2> HIDE DEF Good, Right
  <2>3. Nat \subseteq Good
    BY <1>4, <1>5, Induction
  <2>4. k \in Good /\ length + k <= n
    BY <1>2, <2>2, <2>3
  <2>5. Right(length + k)
    BY <2>4 DEF Good
  <2>6. QED BY <2>2, <2>5
<1>7. QED BY <1>1, <1>3, <1>6

\* The average is a fraction as soon as it is defined.
LEMMA WilderIs ==
    ASSUME NEW b \in Seq(Candles), NEW length \in Nat \ {0}
    PROVE  WilderAtr(b, length) = None <=> Len(b) < length
<1>1. CASE Len(b) < length
  BY <1>1 DEF WilderAtr
<1>2. CASE ~(Len(b) < length)
  BY <1>2, WilderIsAverage, NoneAssumption DEF IsAverage
<1>3. QED BY <1>1, <1>2

-----------------------------------------------------------------------------
(* Marks and turns of the leg.                                              *)

LEMMA LastBeforeStays ==
    ASSUME NEW n \in Nat, NEW S \in SUBSET (1 .. n), NEW k \in 0 .. n + 1, NEW default
    PROVE  LastBefore(S \cup {n + 1}, k, default) = LastBefore(S, k, default)
<1>1. {j \in S \cup {n + 1} : j < k} = {j \in S : j < k}
  OBVIOUS
<1>2. QED BY <1>1 DEF LastBefore

LEMMA LastBeforeIs ==
    ASSUME NEW n \in Nat, NEW S \in SUBSET (1 .. n), NEW default
    PROVE  /\ LastBefore(S, n + 1, default) = IF S = {} THEN default ELSE Max(S)
           /\ LastBefore(S \cup {n + 1}, n + 2, default) = n + 1
           /\ S # {} => Max(S) \in S /\ \A t \in S : t <= Max(S)
           /\ Max(S \cup {n + 1}) = n + 1
<1>1. \A j \in S : j < n + 1 /\ j < n + 2
  OBVIOUS
<1>2. {j \in S : j < n + 1} = S /\ {j \in S \cup {n + 1} : j < n + 2} = S \cup {n + 1}
  <2>1. n + 1 < n + 2
    OBVIOUS
  <2>2. QED BY <1>1, <2>1
<1>3. S # {} => Max(S) \in S /\ \A t \in S : t <= Max(S)
  BY MaxIsGreatest
<1>4. Max(S \cup {n + 1}) = n + 1
  <2>1. PICK m, R : m = n + 1 /\ R = S \cup {m}
    OBVIOUS
  <2>2. m \in Nat /\ R \in SUBSET (0 .. m) /\ R # {} /\ m \in R
    BY <2>1
  <2>3. Max(R) \in R /\ \A t \in R : Max(R) >= t
    BY <2>2, MaxIsGreatest
  <2>4. PICK x : x = Max(R)
    OBVIOUS
  <2>5. x \in 0 .. m /\ x >= m
    BY <2>2, <2>3, <2>4
  <2>6. x = m
    BY <2>2, <2>5
  <2>7. QED BY <2>1, <2>4, <2>6
<1>5. QED BY <1>2, <1>3, <1>4 DEF LastBefore

LEMMA NextLegIs ==
    ASSUME NEW b, NEW size, NEW leg
    PROVE  NextLeg(b, size, leg) = IF Marked(b, size) = None THEN leg ELSE Marked(b, size)
BY OppositeKinds DEF NextLeg, Marked, Kinds

LEMMA MarksGrow ==
    ASSUME BarsOK, ReadsBar, NEW size \in Nat \ {0}, NEW kind \in Kinds
    PROVE  /\ Marks(kind, size) \subseteq size + 1 .. Now
           /\ Marks(kind, size)' =
                Marks(kind, size) \cup (IF Marked(bars', size) = kind THEN {Now + 1} ELSE {})
<1>1. PICK b, n : b = bars' /\ n = Now
  OBVIOUS
<1>2. /\ n \in Nat /\ Now' = n + 1 /\ Len(b) = n + 1
      /\ \A j \in 1 .. n : b[j] = bars[j]
  BY <1>1, Grows DEF Now
<1>3. ASSUME NEW k \in size + 1 .. n, NEW kd
      PROVE  Exceeds(kd, k - size, k)' <=> Exceeds(kd, k - size, k)
  <2>1. PICK i : i = k - size
    OBVIOUS
  <2>2. i \in 1 .. n /\ \A j \in i + 1 .. k : j \in 1 .. n
    BY <1>2, <2>1
  <2>3. Exceeds(kd, i, k)' <=> Exceeds(kd, i, k)
    BY <1>1, <1>2, <2>2 DEF Exceeds
  <2>4. QED BY <2>1, <2>3
<1>4. ASSUME NEW i, i = n + 1 - size, NEW kd
      PROVE  Exceeds(kd, i, n + 1)' <=> Stands(kd, b, i)
  BY <1>1, <1>2, <1>4 DEF Exceeds, Stands
<1>5. PICK i : i = n + 1 - size
  OBVIOUS
<1> DEFINE Sets(k) == /\ Exceeds(kind, k - size, k)
                      /\ kind = "LOW" => ~Exceeds("HIGH", k - size, k)
<1>6. /\ Marks(kind, size) = {k \in size + 1 .. n : Sets(k)}
      /\ Marks(kind, size)' = {k \in size + 1 .. n + 1 : Sets(k)'}
  BY <1>1, <1>2 DEF Marks
<1>7. ASSUME NEW k \in size + 1 .. n PROVE Sets(k)' <=> Sets(k)
  BY <1>3
<1>8. n + 1 \in size + 1 .. n + 1 /\ Sets(n + 1)' <=> Marked(b, size) = kind
  <2>1. CASE i < 1
    BY <1>2, <1>5, <2>1, OppositeKinds DEF Marked
  <2>2. CASE ~(i < 1)
    <3>1. n + 1 \in size + 1 .. n + 1
      BY <1>2, <1>5, <2>2
    <3>2. Sets(n + 1)' <=> Stands(kind, b, i) /\ (kind = "LOW" => ~Stands("HIGH", b, i))
      BY <1>2, <1>5, <1>4
    <3>3. Marked(b, size) = IF Stands("HIGH", b, i) THEN "HIGH"
                            ELSE IF Stands("LOW", b, i) THEN "LOW" ELSE None
      BY <1>2, <1>5, <2>2 DEF Marked
    <3>4. kind = "HIGH" \/ kind = "LOW"
      BY DEF Kinds
    <3>5. None # "HIGH" /\ None # "LOW"
      BY OppositeKinds DEF Kinds
    <3> HIDE DEF Sets
    <3>6. QED BY <3>1, <3>2, <3>3, <3>4, <3>5
  <2>3. QED BY <2>1, <2>2
<1> HIDE DEF Sets
<1>9. \A k : k \in size + 1 .. n + 1 <=> k \in size + 1 .. n \/ (k = n + 1 /\ n + 1 \in size + 1 .. n + 1)
  BY <1>2
<1>10. Marks(kind, size)' = Marks(kind, size) \cup (IF Marked(b, size) = kind THEN {n + 1} ELSE {})
  BY <1>6, <1>7, <1>8, <1>9
<1>11. QED BY <1>1, <1>6, <1>10

LEMMA TurnsGrow ==
    ASSUME BarsOK, ReadsBar, NEW size \in Nat \ {0}, NEW leg, LegTells(leg, size),
           NEW next, next = NextLeg(bars', size, leg)
    PROVE  /\ \A kind \in Kinds :
                /\ Turns(kind, size) \subseteq size + 1 .. Now
                /\ Turns(kind, size)' =
                     Turns(kind, size) \cup (IF next = kind /\ leg # kind THEN {Now + 1} ELSE {})
           /\ LegTells(next, size)'
<1>1. PICK n, mark : n = Now /\ mark = Marked(bars', size)
  OBVIOUS
<1>2. n \in Nat /\ Now' = n + 1
  BY <1>1, Grows
<1>3. PICK M, N : M = [kd \in Kinds |-> Marks(kd, size)] /\ N = [kd \in Kinds |-> Marks(kd, size)']
  OBVIOUS
<1>4. \A kd \in Kinds : /\ Marks(kd, size) = M[kd] /\ Marks(kd, size)' = N[kd]
                        /\ M[kd] \subseteq size + 1 .. n
                        /\ N[kd] = M[kd] \cup (IF mark = kd THEN {n + 1} ELSE {})
  BY <1>1, <1>3, MarksGrow
<1>5. \A kd \in Kinds : M[kd] \in SUBSET (1 .. n)
  BY <1>2, <1>4
<1> DEFINE default(kd) == IF kd = "HIGH" THEN 0 ELSE -1
           old(kd, k) == LastBefore(M[kd], k, default(kd))
           new(kd, k) == LastBefore(N[kd], k, default(kd))
<1>6. \A kd \in Kinds : \A k \in 0 .. n + 1 : new(kd, k) = old(kd, k)
  <2> SUFFICES ASSUME NEW kd \in Kinds, NEW k \in 0 .. n + 1 PROVE new(kd, k) = old(kd, k)
    OBVIOUS
  <2>1. PICK d : d = default(kd)
    OBVIOUS
  <2>2. N[kd] = M[kd] \/ N[kd] = M[kd] \cup {n + 1}
    BY <1>4
  <2>3. LastBefore(M[kd] \cup {n + 1}, k, d) = LastBefore(M[kd], k, d)
    <3>1. PICK S \in SUBSET (1 .. n) : S = M[kd]
      BY <1>5
    <3>2. LastBefore(S \cup {n + 1}, k, d) = LastBefore(S, k, d)
      BY <1>2, LastBeforeStays
    <3>3. QED BY <3>1, <3>2
  <2> HIDE DEF default
  <2>4. QED BY <2>1, <2>2, <2>3
<1>7. \A kd \in Kinds : /\ old(kd, n + 1) = LatestMark(kd, size)
                        /\ new(kd, n + 2) = LatestMark(kd, size)'
  BY <1>1, <1>2, <1>4 DEF LatestMark
<1>8. \A kd \in Kinds : /\ new(kd, n + 2) = IF mark = kd THEN n + 1 ELSE old(kd, n + 1)
                        /\ old(kd, n + 1) \in -1 .. n
  <2> SUFFICES ASSUME NEW kd \in Kinds
               PROVE  /\ new(kd, n + 2) = IF mark = kd THEN n + 1 ELSE old(kd, n + 1)
                      /\ old(kd, n + 1) \in -1 .. n
    OBVIOUS
  <2>1. PICK d : d = default(kd)
    OBVIOUS
  <2>2. d \in -1 .. n
    BY <1>2, <2>1
  <2> HIDE DEF default
  <2>3. /\ LastBefore(M[kd], n + 1, d) = IF M[kd] = {} THEN d ELSE Max(M[kd])
        /\ LastBefore(M[kd] \cup {n + 1}, n + 2, d) = n + 1
        /\ M[kd] # {} => Max(M[kd]) \in M[kd]
    <3>1. PICK S \in SUBSET (1 .. n) : S = M[kd]
      BY <1>5
    <3>2. /\ LastBefore(S, n + 1, d) = IF S = {} THEN d ELSE Max(S)
          /\ LastBefore(S \cup {n + 1}, n + 2, d) = n + 1
          /\ S # {} => Max(S) \in S
      BY <1>2, LastBeforeIs
    <3>3. QED BY <3>1, <3>2
  <2>4. old(kd, n + 1) \in -1 .. n
    BY <1>2, <1>5, <2>1, <2>2, <2>3
  <2>5. {j \in M[kd] : j < n + 2} = {j \in M[kd] : j < n + 1}
    BY <1>2, <1>5
  <2>6. LastBefore(M[kd], n + 2, d) = LastBefore(M[kd], n + 1, d)
    BY <2>5 DEF LastBefore
  <2>7. QED BY <1>4, <2>1, <2>3, <2>4, <2>6
<1>9. leg \in Kinds /\ Opposite(leg) \in Kinds /\ old(Opposite(leg), n + 1) < old(leg, n + 1)
  BY <1>7, OppositeKinds DEF LegTells
<1>10. next = IF mark = None THEN leg ELSE mark
  BY <1>1, NextLegIs
<1>11. mark \in Kinds \/ mark = None
  BY <1>1 DEF Marked, Kinds
<1>12. ASSUME NEW kind \in Kinds
       PROVE  /\ Turns(kind, size) = {k \in M[kind] : old(kind, k) < old(Opposite(kind), k)}
              /\ Turns(kind, size)' = {k \in N[kind] : new(kind, k) < new(Opposite(kind), k)}
  BY <1>3, <1>4, OppositeKinds DEF Turns
<1> HIDE DEF old, new, default
<1>13. LegTells(next, size)'
  <2>1. CASE mark = None
    BY <1>7, <1>8, <2>1, OppositeKinds, <1>10, <1>9 DEF LegTells
  <2>2. CASE mark \in Kinds
    BY <1>10, <2>2, OppositeKinds, <1>7, <1>8, <1>2 DEF LegTells
  <2>3. QED BY <1>11, <2>1, <2>2
<1>14. ASSUME NEW kind \in Kinds
       PROVE  /\ Turns(kind, size) \subseteq size + 1 .. Now
              /\ Turns(kind, size)' =
                   Turns(kind, size) \cup (IF next = kind /\ leg # kind THEN {Now + 1} ELSE {})
  <2>1. Opposite(kind) \in Kinds
    BY OppositeKinds
  <2>2. \A k \in M[kind] : new(kind, k) = old(kind, k) /\ new(Opposite(kind), k) = old(Opposite(kind), k)
    BY <1>2, <1>5, <1>6, <2>1
  <2>3. new(kind, n + 1) = old(kind, n + 1) /\ new(Opposite(kind), n + 1) = old(Opposite(kind), n + 1)
    BY <1>2, <1>6, <2>1
  <2>4. kind = leg \/ kind = Opposite(leg)
    BY <1>9, OppositeKinds
  <2>5. Opposite(Opposite(leg)) = leg
    BY <1>9 DEF Opposite, Kinds
  <2>6. old(kind, n + 1) < old(Opposite(kind), n + 1) <=> leg # kind
    BY <1>2, <1>8, <1>9, <2>1, <2>4, <2>5
  <2>7. next = kind /\ leg # kind <=> mark = kind /\ leg # kind
    BY <1>10, <1>11, OppositeKinds
  <2>8. PICK T, U : T = Turns(kind, size) /\ U = Turns(kind, size)'
    OBVIOUS
  <2>9. /\ T = {k \in M[kind] : old(kind, k) < old(Opposite(kind), k)}
        /\ U = {k \in N[kind] : new(kind, k) < new(Opposite(kind), k)}
    BY <1>12, <2>8
  <2>10. T \subseteq size + 1 .. n
    BY <1>4, <2>9
  <2>11. U = T \cup (IF mark = kind /\ leg # kind THEN {n + 1} ELSE {})
    BY <1>4, <2>2, <2>3, <2>6, <2>9
  <2>12. QED BY <1>1, <2>7, <2>8, <2>10, <2>11
<1>15. QED BY <1>13, <1>14

-----------------------------------------------------------------------------
(* Pivots and their breaks.                                                 *)

LEMMA ExtremeIs ==
    ASSUME NEW c \in Candles, NEW kind \in Kinds
    PROVE  Extreme(kind, c) \in Nat /\ c.close \in Nat /\ ~Beyond(kind, c.close, Extreme(kind, c))
<1>1. /\ c \in [open : Nat, high : Nat, low : Nat, close : Nat]
      /\ c.low <= c.close /\ c.close <= c.high
  BY CandlesAssumption
<1>2. c.low \in Nat /\ c.high \in Nat /\ c.close \in Nat
  BY <1>1
<1>3. QED BY <1>1, <1>2 DEF Extreme, Beyond, Kinds

LEMMA LevelsStay ==
    ASSUME BarsOK, ReadsBar, NEW kind \in Kinds, NEW size \in Nat \ {0},
           NEW k \in size + 1 .. Now + 1
    PROVE  /\ LevelAt(kind, size, k)' = LevelAt(kind, size, k)
           /\ LevelAt(kind, size, k) \in Nat
<1>1. PICK i : i = k - size
  OBVIOUS
<1>2. i \in 1 .. Now
  BY <1>1, Grows
<1>3. bars'[i] = bars[i] /\ bars[i] \in Candles
  BY <1>2, Grows
<1>4. Extreme(kind, bars[i]) \in Nat
  BY <1>3, ExtremeIs
<1>5. QED BY <1>1, <1>3, <1>4 DEF LevelAt

\* Where the next bar is one more break of an earlier turn.
LEMMA BreakBarsGrow ==
    ASSUME BarsOK, ReadsBar, NEW kind \in Kinds, NEW size \in Nat \ {0}, NEW T, NEW U,
           T \in SUBSET (size + 1 .. Now), U = T \/ U = T \cup {Now + 1}, NEW turn \in T
    PROVE  /\ BreakBars(kind, size, turn, T) \subseteq turn .. Now
           /\ BreakBars(kind, size, turn, U)' =
                BreakBars(kind, size, turn, T)
                  \cup (IF /\ U = T /\ turn = Max(T)
                           /\ Beyond(kind, bars'[Now + 1].close, LevelAt(kind, size, turn))
                        THEN {Now + 1} ELSE {})
<1>1. PICK b, n, level : b = bars' /\ n = Now /\ level = LevelAt(kind, size, turn)
  OBVIOUS
<1>2. n \in Nat /\ Now' = n + 1 /\ \A j \in 1 .. n : b[j] = bars[j]
  BY <1>1, Grows
<1>3. turn \in size + 1 .. n /\ turn \in size + 1 .. n + 1
  BY <1>1, <1>2
<1>4. LevelAt(kind, size, turn)' = level
  BY <1>1, <1>3, LevelsStay
<1> DEFINE Old(k) == /\ Beyond(kind, bars[k].close, level)
                     /\ ~\E later \in T : turn < later /\ later <= k
           New(k) == /\ Beyond(kind, b[k].close, level)
                     /\ ~\E later \in U : turn < later /\ later <= k
<1>5. /\ BreakBars(kind, size, turn, T) = {k \in turn .. n : Old(k)}
      /\ BreakBars(kind, size, turn, U)' = {k \in turn .. n + 1 : New(k)}
  BY <1>1, <1>2, <1>4 DEF BreakBars
<1>6. ASSUME NEW k \in turn .. n PROVE New(k) <=> Old(k)
  <2>1. k \in 1 .. n
    BY <1>2, <1>3
  <2>2. b[k] = bars[k]
    BY <1>2, <2>1
  <2>3. ~(n + 1 <= k)
    BY <1>2, <2>1
  <2>4. (\E later \in U : turn < later /\ later <= k) <=> (\E later \in T : turn < later /\ later <= k)
    BY <1>1, <2>3
  <2>5. QED BY <2>2, <2>4
<1>7. New(n + 1) <=> U = T /\ turn = Max(T) /\ Beyond(kind, b[n + 1].close, level)
  <2>1. T \in SUBSET (1 .. n) /\ T # {} /\ turn \in 1 .. n
    BY <1>1, <1>2, <1>3
  <2>2. Max(T) \in T /\ \A t \in T : t <= Max(T)
    BY <1>2, <2>1, LastBeforeIs
  <2>3. PICK m : m = Max(T)
    OBVIOUS
  <2>4. m \in T /\ m \in 1 .. n /\ turn <= m
    BY <2>1, <2>2, <2>3
  <2>5. CASE U = T
    <3>1. (\E later \in T : turn < later /\ later <= n + 1) <=> turn # m
      <4>1. ASSUME turn # m PROVE turn < m /\ m <= n + 1
        BY <1>2, <2>1, <2>4, <4>1
      <4>2. ASSUME NEW later \in T, turn < later PROVE turn # m
        BY <2>1, <2>2, <2>3, <1>2, <2>4, <4>2
      <4>3. QED BY <2>4, <4>1, <4>2
    <3>2. QED BY <2>3, <2>5, <3>1
  <2>6. CASE U # T
    BY <1>1, <1>2, <1>3, <2>6
  <2>7. QED BY <2>5, <2>6
<1> HIDE DEF Old, New
<1>8. \A k : k \in turn .. n + 1 <=> k \in turn .. n \/ k = n + 1
  BY <1>2, <1>3
<1>9. BreakBars(kind, size, turn, U)' =
        {k \in turn .. n : Old(k)} \cup (IF New(n + 1) THEN {n + 1} ELSE {})
  BY <1>5, <1>6, <1>8
<1>10. QED BY <1>1, <1>5, <1>7, <1>9

\* The bar that turns the leg does not break the turn.
LEMMA NotBrokenYet ==
    ASSUME BarsOK, ReadsBar, NEW kind \in Kinds, NEW size \in Nat \ {0}, NEW U,
           NEW n, n = Now + 1, n \in size + 1 .. n, Stands(kind, bars', n - size)
    PROVE  /\ ~Beyond(kind, bars'[n].close, LevelAt(kind, size, n))
           /\ BreakBars(kind, size, n, U)' = {}
<1>1. PICK b : b = bars'
  OBVIOUS
<1>2. Now \in Nat /\ Now' = n /\ Len(b) = n /\ n \in Nat /\ b \in Seq(Candles)
  BY <1>1, Grows DEF Now
<1>3. PICK i : i = n - size
  OBVIOUS
<1>4. i \in 1 .. Now /\ i \in 1 .. n /\ n \in i + 1 .. n
  BY <1>2, <1>3
<1>5. b[i] \in Candles /\ b[n] \in Candles /\ b[i] = bars[i]
  BY <1>1, <1>2, <1>4, Grows
<1>6. Beyond(kind, Extreme(kind, b[i]), Extreme(kind, b[n]))
  BY <1>1, <1>2, <1>3, <1>4 DEF Stands
<1>7. /\ Extreme(kind, b[i]) \in Nat /\ Extreme(kind, b[n]) \in Nat /\ b[n].close \in Nat
      /\ ~Beyond(kind, b[n].close, Extreme(kind, b[n]))
  BY <1>5, ExtremeIs
<1>8. ~Beyond(kind, b[n].close, Extreme(kind, b[i]))
  BY <1>6, <1>7 DEF Beyond, Kinds
<1>9. /\ LevelAt(kind, size, n) = Extreme(kind, b[i])
      /\ LevelAt(kind, size, n)' = Extreme(kind, b[i])
  BY <1>1, <1>3, <1>5 DEF LevelAt
<1>10. \A k \in n .. Now' : k = n
  BY <1>2
<1>11. QED BY <1>1, <1>8, <1>9, <1>10 DEF BreakBars

LEMMA BreaksGrow ==
    ASSUME BarsOK, ReadsBar, NEW kind \in Kinds, NEW size \in Nat \ {0},
           NEW T, T = Turns(kind, size), NEW U, U = Turns(kind, size)',
           T \in SUBSET (size + 1 .. Now),
           \/ U = T
           \/ /\ U = T \cup {Now + 1} /\ Now + 1 \in size + 1 .. Now + 1
              /\ Stands(kind, bars', Now + 1 - size)
    PROVE  BreaksOfKind(kind, size)' =
             BreaksOfKind(kind, size)
               \cup (IF U = T /\ IsBroken(kind, size, T, bars'[Now + 1].close)
                     THEN {[kind |-> kind, turn |-> Max(T), at |-> Now + 1]} ELSE {})
<1>1. PICK n, close, last : n = Now /\ close = bars'[Now + 1].close /\ last = Max(T)
  OBVIOUS
<1>2. n \in Nat /\ T \in SUBSET (1 .. n)
  <2>1. n \in Nat
    BY <1>1, Grows
  <2>2. QED BY <1>1, <2>1
<1> DEFINE Old(t) == BreakBars(kind, size, t, T)
           New(t) == BreakBars(kind, size, t, U)'
           Hits(t) == U = T /\ t = last /\ Beyond(kind, close, LevelAt(kind, size, t))
           broken == U = T /\ IsBroken(kind, size, T, close)
<1>3. ASSUME NEW t \in T
      PROVE  /\ Old(t) \subseteq t .. n
             /\ New(t) = Old(t) \cup (IF Hits(t) THEN {n + 1} ELSE {})
  <2>1. U = T \/ U = T \cup {Now + 1}
    OBVIOUS
  <2>2. PICK x : x = LevelAt(kind, size, t)
    OBVIOUS
  <2>3. /\ Old(t) \subseteq t .. Now
        /\ New(t) = Old(t) \cup (IF U = T /\ t = Max(T) /\ Beyond(kind, bars'[Now + 1].close, LevelAt(kind, size, t))
                                 THEN {Now + 1} ELSE {})
    BY <2>1, BreakBarsGrow
  <2> HIDE DEF Old, New
  <2>4. QED BY <1>1, <2>3
<1>4. ASSUME NEW t \in U, t \notin T PROVE New(t) = {}
  <2>1. t = Now + 1 /\ t \in size + 1 .. t /\ Stands(kind, bars', t - size)
    <3>1. U # T
      BY <1>4
    <3>2. /\ U = T \cup {Now + 1} /\ Now + 1 \in size + 1 .. Now + 1
          /\ Stands(kind, bars', Now + 1 - size)
      BY <3>1
    <3>3. t = Now + 1
      BY <1>4, <3>2
    <3>4. t \in size + 1 .. t
      BY <3>2, <3>3
    <3>5. PICK i : i = Now + 1 - size
      OBVIOUS
    <3>6. Stands(kind, bars', i) /\ t - size = i
      BY <1>1, <1>2, <3>2, <3>3, <3>5
    <3>7. QED BY <3>3, <3>4, <3>6
  <2>2. QED BY <2>1, NotBrokenYet
<1>5. /\ BreaksOfKind(kind, size) =
           {[kind |-> kind, turn |-> t, at |-> Min(Old(t))] : t \in {x \in T : Old(x) # {}}}
      /\ BreaksOfKind(kind, size)' =
           {[kind |-> kind, turn |-> t, at |-> Min(New(t))] : t \in {x \in U : New(x) # {}}}
  BY DEF BreaksOfKind
<1>6. broken <=> U = T /\ T # {} /\ Old(last) = {} /\ Beyond(kind, close, LevelAt(kind, size, last))
  BY <1>1 DEF IsBroken
<1>7. T # {} => last \in T
  BY <1>1, <1>2, LastBeforeIs
<1> HIDE DEF Old, New
<1>8. ASSUME NEW t \in T, Old(t) # {} PROVE New(t) # {} /\ Min(New(t)) = Min(Old(t))
  <2>1. Old(t) \in SUBSET Nat /\ n + 1 \in Nat /\ \A k \in Old(t) : k <= n + 1
    BY <1>2, <1>3
  <2>2. Min(Old(t) \cup {n + 1}) = Min(Old(t))
    BY <1>8, <2>1, MinStays
  <2> HIDE DEF Hits
  <2>3. New(t) = Old(t) \/ New(t) = Old(t) \cup {n + 1}
    BY <1>3
  <2>4. QED BY <1>8, <2>2, <2>3
<1>9. ASSUME NEW t \in T, Old(t) = {}
      PROVE  /\ New(t) # {} <=> broken /\ t = last
             /\ New(t) # {} => Min(New(t)) = n + 1
  <2>1. New(t) = IF Hits(t) THEN {n + 1} ELSE {}
    BY <1>3, <1>9
  <2>2. Min({n + 1}) = n + 1
    BY <1>2, MinOfOne
  <2>3. Hits(t) <=> broken /\ t = last
    BY <1>6, <1>9
  <2> HIDE DEF Hits, broken
  <2>4. QED BY <2>1, <2>2, <2>3
<1> HIDE DEF Hits
<1>10. PICK R, S, q : /\ R = BreaksOfKind(kind, size) /\ S = BreaksOfKind(kind, size)'
                      /\ q = [kind |-> kind, turn |-> last, at |-> n + 1]
  OBVIOUS
<1>11. ASSUME NEW r \in S PROVE r \in R \/ (broken /\ r = q)
  <2>1. PICK t \in U : New(t) # {} /\ r = [kind |-> kind, turn |-> t, at |-> Min(New(t))]
    BY <1>5, <1>10
  <2>2. t \in T
    BY <1>4, <2>1
  <2> HIDE DEF broken
  <2>3. CASE Old(t) # {}
    BY <1>5, <1>8, <1>10, <2>1, <2>2, <2>3
  <2>4. CASE Old(t) = {}
    BY <1>9, <1>10, <2>1, <2>2, <2>4
  <2>5. QED BY <2>3, <2>4
<1>12. ASSUME NEW r \in R PROVE r \in S
  <2>1. PICK t \in T : Old(t) # {} /\ r = [kind |-> kind, turn |-> t, at |-> Min(Old(t))]
    BY <1>5, <1>10
  <2>2. t \in U
    OBVIOUS
  <2>3. QED BY <1>5, <1>8, <1>10, <2>1, <2>2
<1>13. ASSUME broken PROVE q \in S
  BY <1>6, <1>7, <1>13, <1>9, <1>5, <1>10
<1>14. S = R \cup (IF broken THEN {q} ELSE {})
  <2> HIDE DEF broken
  <2>1. QED BY <1>11, <1>12, <1>13
<1>15. QED BY <1>1, <1>10, <1>14

-----------------------------------------------------------------------------
\* A turn keeps what the last bar confirms, and leaves the pivot of the other kind.
LEMMA TurnedPivot ==
    ASSUME NEW b, NEW size, NEW s, IsTurning(s), IsSwing(s) \/ IsEqual(s) \/ IsBlocks(s),
           NEW t, t = Confirmed(b, size, s)
    PROVE  /\ t.leg = NextLeg(b, size, s.leg)
           /\ t.leg # s.leg => t.pivot[t.leg] = [level |-> Extreme(t.leg, b[Len(b) - size]),
                                                 index |-> Len(b) - size, crossed |-> FALSE]
           /\ \A kind \in Kinds : kind # t.leg \/ t.leg = s.leg => t.pivot[kind] = s.pivot[kind]
<1>1. PICK leg, i : leg = NextLeg(b, size, s.leg) /\ i = Len(b) - size
  OBVIOUS
<1>2. leg \in Kinds
  BY <1>1 DEF NextLeg, Kinds, IsTurning
<1>3. PICK p : p = [level |-> Extreme(leg, b[i]), index |-> i, crossed |-> FALSE]
  OBVIOUS
<1>4. t = IF leg = s.leg THEN s ELSE [s EXCEPT !.leg = leg, !.pivot[leg] = p]
  BY <1>1, <1>3 DEF Confirmed
<1>5. PICK pivot : pivot = [s.pivot EXCEPT ![leg] = p]
  OBVIOUS
<1>6. pivot[leg] = p /\ \A kind \in Kinds : kind # leg => pivot[kind] = s.pivot[kind]
  BY <1>2, <1>5 DEF IsTurning
<1>7. CASE leg = s.leg
  BY <1>1, <1>4, <1>7
<1>8. CASE leg # s.leg
  BY <1>4, <1>5, <1>8, <1>1, <1>3, <1>6 DEF IsSwing, IsEqual, IsBlocks
<1>9. QED BY <1>7, <1>8

\* Leg and pivots follow the turns of the history.
LEMMA FollowsNext ==
    ASSUME BarsOK, ReadsBar, NEW size \in Nat \ {0}, NEW s, IsTurning(s),
           IsSwing(s) \/ IsEqual(s) \/ IsBlocks(s), LegTells(s.leg, size),
           \A kind \in Kinds : Follows(s.pivot[kind], kind, size),
           NEW t, t = Confirmed(bars', size, s), NEW kind \in Kinds
    PROVE  /\ LegTells(t.leg, size)'
           /\ Turns(kind, size) \subseteq size + 1 .. Now
           /\ Turns(kind, size)' =
                Turns(kind, size) \cup (IF t.leg = kind /\ s.leg # kind THEN {Now + 1} ELSE {})
           /\ Follows(t.pivot[kind], kind, size)'
           /\ IF t.leg = kind /\ s.leg # kind
              THEN /\ Now + 1 \in size + 1 .. Now + 1 /\ Stands(kind, bars', Now + 1 - size)
                   /\ ~t.pivot[kind].crossed
              ELSE t.pivot[kind] = s.pivot[kind]
<1>1. PICK b, n, leg, next, i : /\ b = bars' /\ n = Now /\ leg = s.leg /\ next = t.leg
                                /\ i = n + 1 - size
  OBVIOUS
<1>2. n \in Nat /\ Now' = n + 1 /\ Len(b) = n + 1 /\ b \in Seq(Candles)
  BY <1>1, Grows DEF Now
<1>3. /\ next = NextLeg(b, size, leg)
      /\ next # leg => t.pivot[next] = [level |-> Extreme(next, b[i]),
                                        index |-> i, crossed |-> FALSE]
      /\ kind # next \/ next = leg => t.pivot[kind] = s.pivot[kind]
  BY <1>1, <1>2, TurnedPivot
<1>4. PICK T, U : T = Turns(kind, size) /\ U = Turns(kind, size)'
  OBVIOUS
<1>5. /\ T \subseteq size + 1 .. n
      /\ U = T \cup (IF next = kind /\ leg # kind THEN {n + 1} ELSE {})
      /\ LegTells(next, size)'
  BY <1>1, <1>3, <1>4, TurnsGrow
<1>6. T \in SUBSET (1 .. n)
  BY <1>2, <1>5
<1>7. CASE next = kind /\ leg # kind
  <2>1. ~(i < 1) /\ Stands(kind, b, i)
    <3>1. Len(b) - size = i
      BY <1>1, <1>2
    <3>2. PICK j : j = Len(b) - size
      OBVIOUS
    <3>3. next = IF j < 1 THEN leg
                 ELSE IF Stands("HIGH", b, j) THEN "HIGH"
                 ELSE IF Stands("LOW", b, j) THEN "LOW" ELSE leg
      BY <1>3, <3>2 DEF NextLeg
    <3>4. ~(j < 1) /\ Stands(kind, b, j)
      BY <1>7, <3>3
    <3>5. QED BY <3>1, <3>2, <3>4
  <2>2. n + 1 \in size + 1 .. n + 1 /\ i \in 1 .. n /\ i \in 1 .. Len(b)
    BY <1>1, <1>2, <2>1
  <2>3. U = T \cup {n + 1}
    BY <1>5, <1>7
  <2>4. Max(U) = n + 1
    BY <1>2, <1>6, <2>3, LastBeforeIs
  <2>5. LevelAt(kind, size, n + 1)' = Extreme(kind, b[i])
    BY <1>1, <1>2 DEF LevelAt
  <2>6. Extreme(kind, b[i]) \in Nat
    <3>1. b[i] \in Candles
      BY <1>2, <2>2
    <3>2. QED BY <3>1, ExtremeIs
  <2>7. t.pivot[kind] = [level |-> Extreme(kind, b[i]), index |-> i, crossed |-> FALSE]
    BY <1>3, <1>7
  <2>8. PICK p, x : p = t.pivot[kind] /\ x = Extreme(kind, b[i])
    OBVIOUS
  <2>9. p = [level |-> x, index |-> i, crossed |-> FALSE] /\ x \in Nat /\ i \in Nat
    BY <2>2, <2>6, <2>7, <2>8
  <2>10. p \in PivotRecords /\ p.level = x /\ p.index = i /\ ~p.crossed
    BY <2>9 DEF PivotRecords
  <2>11. Follows(p, kind, size)'
    <3>1. U # {} /\ LevelAt(kind, size, Max(U))' = x /\ Max(U) - size = i
      BY <1>1, <1>2, <2>3, <2>4, <2>5, <2>8
    <3>2. QED BY <1>4, <2>10, <3>1 DEF Follows
  <2>12. QED BY <1>1, <1>4, <1>5, <1>7, <2>1, <2>2, <2>8, <2>10, <2>11
<1>8. CASE ~(next = kind /\ leg # kind)
  <2>1. U = T /\ t.pivot[kind] = s.pivot[kind]
    BY <1>3, <1>5, <1>8
  <2>2. PICK p : p = s.pivot[kind]
    OBVIOUS
  <2>3. Follows(p, kind, size)
    BY <2>2
  <2>4. Follows(p, kind, size)'
    <3>1. CASE T = {}
      BY <1>4, <2>1, <2>3, <3>1 DEF Follows
    <3>2. CASE T # {}
      <4>1. PICK m : m = Max(T)
        OBVIOUS
      <4>2. m \in T
        BY <1>2, <1>6, <3>2, <4>1, LastBeforeIs
      <4>3. m \in size + 1 .. Now + 1
        BY <1>1, <1>2, <1>5, <4>2
      <4>4. LevelAt(kind, size, m)' = LevelAt(kind, size, m)
        BY <4>3, LevelsStay
      <4>5. p \in PivotRecords /\ p.level = LevelAt(kind, size, m) /\ p.index = m - size
        BY <1>4, <2>3, <3>2, <4>1 DEF Follows
      <4>6. QED BY <1>4, <2>1, <3>2, <4>1, <4>4, <4>5 DEF Follows
    <3>3. QED BY <3>1, <3>2
  <2>5. QED BY <1>1, <1>4, <1>5, <1>8, <2>1, <2>2, <2>4
<1>9. QED BY <1>7, <1>8

\* A bar crosses the pivot exactly when it breaks the latest turn.
LEMMA CrossingNext ==
    ASSUME BarsOK, ReadsBar, NEW kind \in Kinds, NEW size \in Nat \ {0},
           NEW T, T = Turns(kind, size), NEW U, U = Turns(kind, size)',
           T \in SUBSET (size + 1 .. Now),
           \/ U = T
           \/ /\ U = T \cup {Now + 1} /\ Now + 1 \in size + 1 .. Now + 1
              /\ Stands(kind, bars', Now + 1 - size),
           NEW q, Follows(q, kind, size), CrossedTells(q, kind, size),
           NEW p, Follows(p, kind, size)', Renews(p, q, T, U),
           NEW r, r = CrossedBy(kind, bars', p)
    PROVE  /\ Crosses(kind, bars', p) <=> U = T /\ IsBroken(kind, size, T, bars'[Now + 1].close)
           /\ Follows(r, kind, size)'
           /\ CrossedTells(r, kind, size)'
<1>1. PICK b, n, close, last :
        b = bars' /\ n = Now /\ close = b[n + 1].close /\ last = Max(T)
  OBVIOUS
<1>2. /\ n \in Nat /\ Now' = n + 1 /\ Len(b) = n + 1
      /\ \A j \in 1 .. n : b[j] = bars[j]
  BY <1>1, Grows DEF Now
<1>3. T \in SUBSET (1 .. n)
  BY <1>1, <1>2
<1>3a. /\ IF U = T THEN p = q ELSE ~p.crossed
       /\ r = IF Crosses(kind, b, p) THEN [p EXCEPT !.crossed = TRUE] ELSE p
  BY <1>1 DEF Renews, CrossedBy
<1>4. CASE U = {}
  <2>1. T = {} /\ p = None /\ r = p
    <3>1. T = {} /\ p = None
      BY <1>4 DEF Follows
    <3>2. QED BY <1>3a, <3>1 DEF Crosses
  <2>2. QED BY <1>4, <2>1 DEF Follows, CrossedTells, Crosses, IsBroken
<1>5. CASE U = T /\ T # {}
  <2>1. last \in T /\ \A t \in T : t <= last
    BY <1>1, <1>2, <1>3, <1>5, LastBeforeIs
  <2>2. last \in size + 1 .. n /\ last \in size + 1 .. n + 1 /\ last \in 1 .. n
    BY <1>1, <1>2, <1>3, <2>1
  <2>3. PICK level : level = LevelAt(kind, size, last)
    OBVIOUS
  <2>4. LevelAt(kind, size, last)' = level
    BY <1>1, <2>2, <2>3, LevelsStay
  <2>5. PICK Old, New : Old = BreakBars(kind, size, last, T) /\ New = BreakBars(kind, size, last, U)'
    OBVIOUS
  <2>6. New = Old \cup (IF Beyond(kind, close, level) THEN {n + 1} ELSE {})
    BY <1>1, <1>5, <2>1, <2>3, <2>5, BreakBarsGrow
  <2>7. p \in PivotRecords /\ p.level = level /\ p.index = last - size
    BY <1>1, <1>3a, <1>5, <2>4 DEF Follows
  <2>8. p.crossed <=> Old # {}
    BY <1>1, <1>3a, <1>5, <2>5 DEF CrossedTells
  <2>9. p # None
    BY <2>7, NoneAssumption DEF PivotRecords
  <2>10. Old = {} => ~Beyond(kind, b[n].close, level)
    <3>1. n \in last .. Now /\ b[n] = bars[n]
      BY <1>1, <1>2, <2>2
    <3>2. ~\E later \in T : last < later /\ later <= n
      BY <1>3, <2>1, <2>2
    <3>3. QED BY <2>3, <2>5, <3>1, <3>2 DEF BreakBars
  <2>11. Crosses(kind, b, p) <=> ~p.crossed /\ Beyond(kind, close, level)
    <3>1. Len(b) > 1 /\ b[Len(b)].close = close /\ b[Len(b) - 1] = b[n]
      BY <1>2, <2>2, <1>1
    <3>2. Crosses(kind, b, p) <=> /\ ~p.crossed /\ Beyond(kind, close, level)
                                  /\ ~Beyond(kind, b[n].close, level)
      BY <2>7, <2>9, <3>1 DEF Crosses
    <3>3. QED BY <2>8, <2>10, <3>2
  <2>12. IsBroken(kind, size, T, close) <=> Old = {} /\ Beyond(kind, close, level)
    BY <1>1, <1>5, <2>3, <2>5 DEF IsBroken
  <2>13. r = IF Crosses(kind, b, p) THEN [p EXCEPT !.crossed = TRUE] ELSE p
    BY <1>3a
  <2>14. /\ r \in PivotRecords /\ r.level = level /\ r.index = last - size
         /\ r.crossed <=> p.crossed \/ Crosses(kind, b, p)
    <3>1. CASE Crosses(kind, b, p)
      BY <2>7, <2>13, <3>1 DEF PivotRecords
    <3>2. CASE ~Crosses(kind, b, p)
      BY <2>7, <2>13, <3>2
    <3>3. QED BY <3>1, <3>2
  <2>15. Follows(r, kind, size)'
    <3>1. U # {} /\ Max(U) = last
      BY <1>1, <1>5
    <3>2. QED BY <2>4, <2>14, <3>1 DEF Follows
  <2>16. r.crossed <=> New # {}
    BY <2>6, <2>8, <2>11, <2>14
  <2>17. CrossedTells(r, kind, size)'
    <3>1. U # {} /\ Max(U) = last
      BY <1>1, <1>5
    <3>2. QED BY <2>5, <2>16, <3>1 DEF CrossedTells
  <2>18. QED BY <1>1, <1>5, <2>8, <2>11, <2>12, <2>15, <2>17
<1>6. CASE U # T /\ U # {}
  <2>1. PICK m : m = n + 1
    OBVIOUS
  <2>2. U = T \cup {m} /\ m \in size + 1 .. m /\ Stands(kind, b, m - size)
    <3>1. PICK i : i = Now + 1 - size
      OBVIOUS
    <3>2. m - size = i
      BY <1>1, <1>2, <2>1, <3>1
    <3>3. U = T \cup {Now + 1} /\ Now + 1 \in size + 1 .. Now + 1 /\ Stands(kind, b, i)
      BY <1>1, <1>6, <3>1
    <3>4. QED BY <1>1, <2>1, <3>2, <3>3
  <2>3. /\ ~Beyond(kind, b[m].close, LevelAt(kind, size, m))
        /\ BreakBars(kind, size, m, U)' = {}
    BY <1>1, <2>1, <2>2, NotBrokenYet
  <2>4. Max(U) = m
    <3>1. Max(T \cup {n + 1}) = n + 1
      BY <1>2, <1>3, LastBeforeIs
    <3>2. QED BY <2>1, <2>2, <3>1
  <2>5. LevelAt(kind, size, m)' = LevelAt(kind, size, m)
    BY <1>1, <2>1, <2>2, LevelsStay
  <2>6. p.level = LevelAt(kind, size, m) /\ ~p.crossed
    BY <1>3a, <1>6, <2>4, <2>5 DEF Follows
  <2>7. b[Len(b)].close = b[m].close
    BY <1>2, <2>1
  <2>8. ~Crosses(kind, b, p)
    BY <2>3, <2>6, <2>7 DEF Crosses
  <2>9. r = p
    BY <1>3a, <2>8
  <2>10. CrossedTells(p, kind, size)'
    BY <2>3, <2>4, <2>6 DEF CrossedTells
  <2>11. QED BY <1>1, <1>6, <2>8, <2>9, <2>10
<1>7. QED BY <1>4, <1>5, <1>6

-----------------------------------------------------------------------------
(* A list of events and the set they tell.                                  *)

LEMMA ListingAdds ==
    ASSUME NEW n \in Nat, NEW events, NEW D, Listing(events, D, n),
           NEW x, x.known = n, Told(x) \notin D, NEW more, more = Append(events, x)
    PROVE  Listing(more, D \cup {Told(x)}, n)
<1>1. /\ IsList(more) /\ Len(more) = Len(events) + 1 /\ Len(events) \in Nat
      /\ more[Len(events) + 1] = x
      /\ \A i \in DOMAIN events : more[i] = events[i]
      /\ DOMAIN events = 1 .. Len(events) /\ DOMAIN more = 1 .. Len(events) + 1
      /\ Range(more) = Range(events) \cup {x}
  <2>1. IsList(events)
    BY DEF Listing
  <2>2. IsList(more) /\ Len(more) = Len(events) + 1 /\ Len(events) \in Nat
    BY <2>1, AppendedIs
  <2>3. more[Len(events) + 1] = x /\ \A i \in DOMAIN events : more[i] = events[i]
    BY <2>1, AppendedIs
  <2>4. DOMAIN events = 1 .. Len(events) /\ DOMAIN more = 1 .. Len(events) + 1
    BY <2>1, AppendedIs
  <2>5. Range(more) = Range(events) \cup {x}
    BY <2>1, AppendedIs
  <2>6. QED BY <2>2, <2>3, <2>4, <2>5
<1>2. PICK E : E = D \cup {Told(x)}
  OBVIOUS
<1>3. IsFiniteSet(E) /\ Len(more) = Cardinality(E)
  BY <1>1, <1>2, FS_AddElement DEF Listing
<1>4. {Told(e) : e \in Range(more)} = E
  BY <1>1, <1>2 DEF Listing
<1>5. \A i \in DOMAIN more : i \in DOMAIN events \/ i = Len(events) + 1
  BY <1>1
<1>6. \A i \in DOMAIN more : more[i].known \in 0 .. n
  BY <1>1, <1>5 DEF Listing
<1>7. ASSUME NEW i \in DOMAIN more, NEW j \in DOMAIN more, i < j
      PROVE  more[i].known <= more[j].known
  <2>1. i \in DOMAIN events
    BY <1>1, <1>7
  <2>2. CASE j \in DOMAIN events
    BY <1>1, <1>7, <2>1, <2>2 DEF Listing
  <2>3. CASE j = Len(events) + 1
    <3>1. more[i].known \in 0 .. n
      BY <1>6
    <3>2. QED BY <1>1, <2>3, <3>1
  <2>4. QED BY <1>5, <2>2, <2>3
<1>8. QED BY <1>1, <1>2, <1>3, <1>4, <1>6, <1>7 DEF Listing

-----------------------------------------------------------------------------
(* Breaks and the trend.                                                    *)

LEMMA EarlierBreaks ==
    ASSUME NEW B, NEW q, \A p \in B : ~(q.at < p.at), NEW p \in B
    PROVE  TypeIn(B \cup {q}, p) = TypeIn(B, p)
<1>1. PICK C : C = B \cup {q}
  OBVIOUS
<1>2. Previous(C, p) = Previous(B, p)
  BY <1>1 DEF Previous
<1>3. QED BY <1>1, <1>2 DEF TypeIn

LEMMA NextBreak ==
    ASSUME NEW n \in Nat, NEW B, \A p \in B : p.at \in 1 .. n /\ p.kind \in Kinds,
           NEW trend, TrendIsLast(trend, B), NEW q, q.at = n + 1, q.kind \in Kinds
    PROVE  /\ TypeIn(B \cup {q}, q) = BreakType(trend, q.kind)
           /\ TrendIsLast(q.kind, B \cup {q})
<1>1. PICK C : C = B \cup {q}
  OBVIOUS
<1>2. \A p \in B : ~(q.at < p.at) /\ p.at < q.at
  OBVIOUS
<1>4. Previous(C, q) = {p \in B : ~\E o \in B : p.at < o.at}
  BY <1>1, <1>2 DEF Previous
<1>5. TypeIn(C, q) = BreakType(trend, q.kind)
  <2>1. CASE B = {}
    BY <1>4, <2>1, OppositeKinds DEF TrendIsLast, TypeIn, BreakType
  <2>2. CASE B # {}
    <3>1. PICK A : A = {p.at : p \in B}
      OBVIOUS
    <3>2. A \in SUBSET (0 .. n) /\ A # {}
      BY <2>2, <3>1
    <3>3. Max(A) \in A /\ \A a \in A : Max(A) >= a
      BY <3>2, MaxIsGreatest
    <3>4. PICK p \in B : p.at = Max(A)
      BY <3>1, <3>3
    <3>5. ~\E o \in B : p.at < o.at
      <4>1. ASSUME NEW o \in B PROVE ~(p.at < o.at)
        <5>1. o.at \in A
          BY <3>1
        <5>2. p.at >= o.at
          BY <3>3, <3>4, <5>1
        <5>3. QED BY <5>2
      <4>2. QED BY <4>1
    <3>6. p \in Previous(C, q)
      BY <1>4, <3>5
    <3>7. \A r \in Previous(C, q) : r.kind = trend
      BY <1>4 DEF TrendIsLast
    <3>8. trend \in Kinds
      BY <2>2 DEF TrendIsLast
    <3>9. trend # q.kind <=> trend = Opposite(q.kind)
      BY <3>8, OppositeKinds
    <3>10. QED BY <3>6, <3>7, <3>9 DEF TypeIn, BreakType
  <2>3. QED BY <2>1, <2>2
<1>6. TrendIsLast(q.kind, C)
  <2>1. ASSUME NEW p \in C, ~\E o \in C : p.at < o.at PROVE p.kind = q.kind
    BY <1>1, <1>2, <2>1
  <2>2. QED BY <1>1, <2>1 DEF TrendIsLast
<1>7. QED BY <1>1, <1>5, <1>6

-----------------------------------------------------------------------------
(* The events that the history defines.                                     *)

\* A turn adds the pivot that it confirms, named by the one before.
LEMMA PivotEventsGrow ==
    ASSUME BarsOK, ReadsBar, NEW kind \in Kinds,
           NEW T, T = Turns(kind, SwingLength), NEW U, U = Turns(kind, SwingLength)',
           T \in SUBSET (SwingLength + 1 .. Now),
           U = T \/ (U = T \cup {Now + 1} /\ Now + 1 \in SwingLength + 1 .. Now + 1),
           NEW q, Follows(q, kind, SwingLength), NEW p, Follows(p, kind, SwingLength)',
           NEW x, x.type = PivotType(kind, q # None /\ Beyond(kind, p.level, q.level)),
           x.kind = kind, x.event = p.index, x.known = Now + 1
    PROVE  PivotEvents(kind)' = PivotEvents(kind) \cup (IF U = T THEN {} ELSE {Told(x)})
<1>1. PICK n, size : n = Now /\ size = SwingLength
  OBVIOUS
<1>2. n \in Nat /\ Now' = n + 1 /\ size \in Nat \ {0}
  BY <1>1, Grows, SmcAssumption
<1>3. T \in SUBSET (1 .. n)
  BY <1>1, <1>2
<1> DEFINE Old(k) == [type |-> SwingType(kind, k, T), kind |-> kind,
                      event |-> k - size, known |-> k]
           New(k) == [type |-> SwingType(kind, k, U)', kind |-> kind,
                      event |-> k - size, known |-> k]
<1>4. /\ PivotEvents(kind) = {Old(k) : k \in T}
      /\ PivotEvents(kind)' = {New(k) : k \in U}
  BY <1>1 DEF PivotEvents
<1>5. ASSUME NEW k \in T PROVE SwingType(kind, k, U)' = SwingType(kind, k, T)
  <2>1. k \in 0 .. n + 1 /\ k \in size + 1 .. n + 1
    BY <1>1, <1>2, <1>3
  <2>2. LastBefore(U, k, None) = LastBefore(T, k, None)
    BY <1>2, <1>3, <2>1, LastBeforeStays, <1>1
  <2>3. PICK before : before = LastBefore(T, k, None)
    OBVIOUS
  <2>4. before = None \/ before \in T
    <3>1. PICK earlier : earlier = {j \in T : j < k}
      OBVIOUS
    <3>2. earlier \in SUBSET (1 .. n)
      BY <1>3, <3>1
    <3>3. earlier # {} => Max(earlier) \in earlier
      BY <1>2, <3>2, LastBeforeIs
    <3>4. before = IF earlier = {} THEN None ELSE Max(earlier)
      BY <2>3, <3>1 DEF LastBefore
    <3>5. QED BY <3>1, <3>3, <3>4
  <2>5. LevelAt(kind, size, k)' = LevelAt(kind, size, k)
    BY <1>1, <1>2, <2>1, LevelsStay
  <2>6. before # None => LevelAt(kind, size, before)' = LevelAt(kind, size, before)
    <3>1. ASSUME before \in T PROVE LevelAt(kind, size, before)' = LevelAt(kind, size, before)
      BY <1>1, <1>2, <1>3, <3>1, LevelsStay
    <3>2. QED BY <2>4, <3>1
  <2>7. SwingType(kind, k, T) =
          PivotType(kind, /\ before # None
                          /\ Beyond(kind, LevelAt(kind, size, k), LevelAt(kind, size, before)))
    <3>1. PICK further \in BOOLEAN :
            further <=> /\ before # None
                        /\ Beyond(kind, LevelAt(kind, size, k), LevelAt(kind, size, before))
      OBVIOUS
    <3>2. SwingType(kind, k, T) =
            CASE kind = "HIGH" /\ further -> "HH" [] kind = "HIGH" /\ ~further -> "LH"
              [] kind = "LOW" /\ further -> "LL" [] kind = "LOW" /\ ~further -> "HL"
      BY <1>1, <2>3, <3>1 DEF SwingType
    <3>3. kind = "HIGH" \/ kind = "LOW"
      BY DEF Kinds
    <3>4. QED BY <3>1, <3>2, <3>3 DEF PivotType
  <2>8. SwingType(kind, k, U)' =
          PivotType(kind, /\ before # None
                          /\ Beyond(kind, LevelAt(kind, size, k)', LevelAt(kind, size, before)'))
    <3>1. before = LastBefore(U, k, None)
      BY <2>2, <2>3
    <3>2. PICK further \in BOOLEAN :
            further <=> /\ before # None
                        /\ Beyond(kind, LevelAt(kind, size, k)', LevelAt(kind, size, before)')
      OBVIOUS
    <3>3. SwingType(kind, k, U)' =
            CASE kind = "HIGH" /\ further -> "HH" [] kind = "HIGH" /\ ~further -> "LH"
              [] kind = "LOW" /\ further -> "LL" [] kind = "LOW" /\ ~further -> "HL"
      BY <1>1, <3>1, <3>2 DEF SwingType
    <3>4. kind = "HIGH" \/ kind = "LOW"
      BY DEF Kinds
    <3>5. QED BY <3>2, <3>3, <3>4 DEF PivotType
  <2>9. QED BY <2>5, <2>6, <2>7, <2>8
<1>6. ASSUME U # T PROVE New(n + 1) = Told(x)
  <2>1. U = T \cup {n + 1} /\ n + 1 \in size + 1 .. n + 1
    BY <1>1, <1>6
  <2>2. /\ Max(T \cup {n + 1}) = n + 1
        /\ LastBefore(T, n + 1, None) = IF T = {} THEN None ELSE Max(T)
    <3>1. Max(T \cup {n + 1}) = n + 1
      BY <1>2, <1>3, LastBeforeIs
    <3>2. LastBefore(T, n + 1, None) = IF T = {} THEN None ELSE Max(T)
      <4>1. {j \in T : j < n + 1} = T
        BY <1>2, <1>3
      <4>2. QED BY <4>1 DEF LastBefore
    <3>3. QED BY <3>1, <3>2
  <2>3. LastBefore(T \cup {n + 1}, n + 1, None) = LastBefore(T, n + 1, None)
    BY <1>2, <1>3, LastBeforeStays
  <2>4. PICK before : before = IF T = {} THEN None ELSE Max(T)
    OBVIOUS
  <2>5. LastBefore(U, n + 1, None) = before /\ Max(U) = n + 1
    BY <2>1, <2>2, <2>3, <2>4
  <2>6. p.level = LevelAt(kind, size, n + 1)' /\ p.index = n + 1 - size
    BY <2>1, <1>1, <1>2, <2>5 DEF Follows
  <2>7. /\ q # None <=> before # None
        /\ before # None => q.level = LevelAt(kind, size, before)'
    <3>1. CASE T = {}
      BY <2>4, <3>1 DEF Follows
    <3>2. CASE T # {}
      <4>1. before = Max(T) /\ before \in T
        BY <1>2, <1>3, <2>4, <3>2, LastBeforeIs
      <4>2. q \in PivotRecords /\ q.level = LevelAt(kind, size, before)
        BY <1>1, <3>2, <4>1 DEF Follows
      <4>3. before \in size + 1 .. n + 1 /\ before \in Nat
        BY <1>1, <1>2, <1>3, <4>1
      <4>4. LevelAt(kind, size, before)' = LevelAt(kind, size, before)
        BY <1>1, <1>2, <4>3, LevelsStay
      <4>5. q # None /\ before # None
        BY <4>2, <4>3, NoneAssumption DEF PivotRecords
      <4>6. QED BY <4>2, <4>4, <4>5
    <3>3. QED BY <3>1, <3>2
  <2>8. PICK further \in BOOLEAN :
          further <=> /\ before # None
                      /\ Beyond(kind, LevelAt(kind, size, n + 1)', LevelAt(kind, size, before)')
    OBVIOUS
  <2>9. SwingType(kind, n + 1, U)' =
          CASE kind = "HIGH" /\ further -> "HH" [] kind = "HIGH" /\ ~further -> "LH"
            [] kind = "LOW" /\ further -> "LL" [] kind = "LOW" /\ ~further -> "HL"
    BY <1>1, <2>5, <2>8 DEF SwingType
  <2>10. SwingType(kind, n + 1, U)' = PivotType(kind, further)
    BY <2>9 DEF Kinds, PivotType
  <2>11. x.type = PivotType(kind, further)
    BY <2>6, <2>7, <2>8 DEF PivotType
  <2>12. x.kind = kind /\ x.event = n + 1 - size /\ x.known = n + 1
    BY <1>1, <2>6
  <2>13. Told(x) = [type |-> PivotType(kind, further), kind |-> kind,
                    event |-> n + 1 - size, known |-> n + 1]
    BY <2>11, <2>12 DEF Told
  <2>14. New(n + 1) = [type |-> SwingType(kind, n + 1, U)', kind |-> kind,
                       event |-> n + 1 - size, known |-> n + 1]
    BY <1>2
  <2> HIDE DEF New
  <2>15. QED BY <2>10, <2>13, <2>14
<1>7. \A k \in T : New(k) = Old(k)
  BY <1>5
<1> HIDE DEF New, Old
<1>8. CASE U = T
  BY <1>4, <1>7, <1>8
<1>9. CASE U # T
  BY <1>1, <1>9, <1>7, <1>4, <1>6
<1>10. QED BY <1>8, <1>9

LEMMA BreaksAre ==
    ASSUME BarsOK, NEW kind \in Kinds, NEW size \in Nat \ {0}, NEW q \in BreaksOfKind(kind, size)
    PROVE  /\ q.kind = kind /\ q.turn \in Turns(kind, size)
           /\ q.turn \in size + 1 .. Now /\ q.at \in q.turn .. Now /\ q.at \in 1 .. Now
<1>1. PICK T : T = Turns(kind, size)
  OBVIOUS
<1>2. PICK t \in T : /\ BreakBars(kind, size, t, T) # {}
                     /\ q = [kind |-> kind, turn |-> t, at |-> Min(BreakBars(kind, size, t, T))]
  BY <1>1 DEF BreaksOfKind
<1>3. t \in Marks(kind, size)
  BY <1>1, <1>2 DEF Turns
<1>4. t \in size + 1 .. Now /\ Now \in Nat
  BY <1>3 DEF Marks, BarsOK, Now
<1>5. PICK bb : bb = BreakBars(kind, size, t, T)
  OBVIOUS
<1>6. bb \subseteq t .. Now
  BY <1>5 DEF BreakBars
<1>7. bb \in SUBSET Nat /\ bb # {}
  BY <1>2, <1>4, <1>5, <1>6
<1>8. Min(bb) \in t .. Now
  BY <1>6, <1>7, MinIsLeast
<1>9. Min(bb) \in 1 .. Now
  BY <1>4, <1>8
<1>10. q.kind = kind /\ q.turn = t /\ q.at = Min(bb)
  BY <1>2, <1>5
<1>11. QED BY <1>1, <1>4, <1>8, <1>9, <1>10

LEMMA BreakEventsAre ==
    /\ BreakEvents = {BreakTold(BreaksOf(SwingLength), q) : q \in BreaksOf(SwingLength)}
    /\ BreakEvents' = {BreakTold(BreaksOf(SwingLength)', q) : q \in BreaksOf(SwingLength)'}
<1>1. PICK B, C : B = BreaksOf(SwingLength) /\ C = BreaksOf(SwingLength)'
  OBVIOUS
<1>2. /\ BreakEvents = {BreakTold(B, q) : q \in B}
      /\ BreakEvents' = {BreakTold(C, q) : q \in C}
  BY <1>1 DEF BreakEvents, BreakTold, TypeIn, Previous
<1>3. QED BY <1>1, <1>2

\* A break is named by the trend that the one before it left.
LEMMA BreakEventsGrow ==
    ASSUME BarsOK, ReadsBar, NEW B, B = BreaksOf(SwingLength),
           NEW trend, TrendIsLast(trend, B),
           NEW q, q.at = Now + 1, q.kind \in Kinds, BreaksOf(SwingLength)' = B \cup {q},
           NEW x, x.type = BreakType(trend, q.kind), x.kind = q.kind,
           x.event = Now + 1, x.known = Now + 1
    PROVE  /\ BreakEvents' = BreakEvents \cup {Told(x)}
           /\ TrendIsLast(q.kind, B \cup {q})
<1>1. PICK n : n = Now
  OBVIOUS
<1>2. n \in Nat /\ SwingLength \in Nat \ {0}
  BY <1>1, Grows, SmcAssumption
<1>3. \A p \in B : p.at \in 1 .. n /\ p.kind \in Kinds
  <2> SUFFICES ASSUME NEW p \in B PROVE p.at \in 1 .. n /\ p.kind \in Kinds
    OBVIOUS
  <2>1. PICK kind \in Kinds : p \in BreaksOfKind(kind, SwingLength)
    BY DEF BreaksOf, Kinds
  <2>2. QED BY <1>1, <1>2, <2>1, BreaksAre
<1>4. PICK C : C = B \cup {q}
  OBVIOUS
<1>5. \A p \in B : TypeIn(C, p) = TypeIn(B, p)
  BY <1>1, <1>2, <1>3, EarlierBreaks, <1>4
<1>6. TypeIn(C, q) = BreakType(trend, q.kind)
  BY <1>1, <1>2, <1>3, <1>4, NextBreak
<1>7. TrendIsLast(q.kind, C)
  BY <1>1, <1>2, <1>3, <1>4, NextBreak
<1>8. \A p \in B : BreakTold(C, p) = BreakTold(B, p)
  BY <1>5 DEF BreakTold
<1>9. BreakTold(C, q) = Told(x)
  BY <1>1, <1>6 DEF BreakTold, Told
<1>10. BreakEvents = {BreakTold(B, p) : p \in B} /\ BreakEvents' = {BreakTold(C, p) : p \in C}
  BY <1>4, BreakEventsAre
<1>11. BreakEvents' = BreakEvents \cup {Told(x)}
  BY <1>4, <1>8, <1>9, <1>10
<1>12. QED BY <1>4, <1>7, <1>11

-----------------------------------------------------------------------------
LEMMA LegNext ==
    ASSUME BarsOK, ReadsBar, NEW size \in Nat \ {0}, NEW s, IsTurning(s),
           IsSwing(s) \/ IsBlocks(s), LegOK(s, size),
           NEW t, t = Confirmed(bars', size, s), NEW kind \in Kinds,
           NEW T, T = Turns(kind, size), NEW U, U = Turns(kind, size)',
           NEW r, r = CrossedBy(kind, bars', t.pivot[kind])
    PROVE  /\ LegTells(t.leg, size)'
           /\ T \in SUBSET (size + 1 .. Now)
           /\ U = T \/ (U = T \cup {Now + 1} /\ Now + 1 \in size + 1 .. Now + 1)
           /\ U # T <=> t.leg = kind /\ s.leg # kind
           /\ Follows(t.pivot[kind], kind, size)'
           /\ Follows(r, kind, size)' /\ CrossedTells(r, kind, size)'
           /\ Crosses(kind, bars', t.pivot[kind])
                <=> BreaksNow(kind, size, T, U, bars'[Now + 1].close)
           /\ BreaksOfKind(kind, size)' =
                BreaksOfKind(kind, size)
                  \cup (IF BreaksNow(kind, size, T, U, bars'[Now + 1].close)
                        THEN {[kind |-> kind, turn |-> Max(T), at |-> Now + 1]} ELSE {})
<1>1. PICK q, p : q = s.pivot[kind] /\ p = t.pivot[kind]
  OBVIOUS
<1>2. /\ LegTells(s.leg, size) /\ \A kd \in Kinds : Follows(s.pivot[kd], kd, size)
      /\ Follows(q, kind, size) /\ CrossedTells(q, kind, size)
  BY <1>1 DEF LegOK
<1>3. /\ LegTells(t.leg, size)'
      /\ T \subseteq size + 1 .. Now
      /\ U = T \cup (IF t.leg = kind /\ s.leg # kind THEN {Now + 1} ELSE {})
      /\ Follows(p, kind, size)'
      /\ IF t.leg = kind /\ s.leg # kind
         THEN /\ Now + 1 \in size + 1 .. Now + 1 /\ Stands(kind, bars', Now + 1 - size)
              /\ ~p.crossed
         ELSE p = q
  BY <1>1, <1>2, FollowsNext
<1>4. Now \in Nat /\ T \in SUBSET (size + 1 .. Now) /\ Now + 1 \notin T
  <2>1. Now \in Nat
    BY Grows
  <2>2. QED BY <1>3, <2>1
<1>5. U # T <=> t.leg = kind /\ s.leg # kind
  BY <1>3, <1>4
<1>6. \/ U = T
      \/ /\ U = T \cup {Now + 1} /\ Now + 1 \in size + 1 .. Now + 1
         /\ Stands(kind, bars', Now + 1 - size)
  BY <1>3
<1>7. Renews(p, q, T, U)
  BY <1>3, <1>5 DEF Renews
<1>8. r = CrossedBy(kind, bars', p)
  BY <1>1
<1>9. /\ Crosses(kind, bars', p) <=> U = T /\ IsBroken(kind, size, T, bars'[Now + 1].close)
      /\ Follows(r, kind, size)'
      /\ CrossedTells(r, kind, size)'
  <2>1. Follows(q, kind, size) /\ CrossedTells(q, kind, size)
    BY <1>2
  <2>2. Follows(p, kind, size)' /\ T \in SUBSET (size + 1 .. Now)
    BY <1>3, <1>4
  <2>3. Crosses(kind, bars', p) <=> U = T /\ IsBroken(kind, size, T, bars'[Now + 1].close)
    BY <1>6, <1>7, <1>8, <2>1, <2>2, CrossingNext
  <2>4. Follows(r, kind, size)'
    BY <1>6, <1>7, <1>8, <2>1, <2>2, CrossingNext
  <2>5. CrossedTells(r, kind, size)'
    BY <1>6, <1>7, <1>8, <2>1, <2>2, CrossingNext
  <2>6. QED BY <2>3, <2>4, <2>5
<1>10. BreaksOfKind(kind, size)' =
         BreaksOfKind(kind, size)
           \cup (IF U = T /\ IsBroken(kind, size, T, bars'[Now + 1].close)
                 THEN {[kind |-> kind, turn |-> Max(T), at |-> Now + 1]} ELSE {})
  BY <1>4, <1>6, BreaksGrow
<1>11. QED BY <1>1, <1>3, <1>4, <1>5, <1>6, <1>9, <1>10 DEF BreaksNow

\* No close goes up through one level and down through the other at once.
LEMMA OneBreak ==
    ASSUME NEW b \in Seq(Candles), NEW t,
           \A kind \in Kinds : t.pivot[kind] = None \/ t.pivot[kind] \in PivotRecords
    PROVE  Broken(b, t) = {} \/ \E kind \in Kinds : Broken(b, t) = {kind}
<1>1. SUFFICES ASSUME Crosses("HIGH", b, t.pivot["HIGH"]), Crosses("LOW", b, t.pivot["LOW"])
               PROVE  FALSE
  BY DEF Broken, Kinds
<1>2. PICK x, y, c, d : /\ x = t.pivot["HIGH"].level /\ y = t.pivot["LOW"].level
                        /\ c = b[Len(b)].close /\ d = b[Len(b) - 1].close
  OBVIOUS
<1>3. /\ t.pivot["HIGH"] \in PivotRecords /\ t.pivot["LOW"] \in PivotRecords
      /\ Len(b) > 1 /\ c > x /\ ~(d > x) /\ c < y /\ ~(d < y)
  BY <1>1, <1>2 DEF Crosses, Beyond, Kinds
<1>4. x \in Nat /\ y \in Nat
  BY <1>2, <1>3 DEF PivotRecords
<1>5. b[Len(b)] \in Candles /\ b[Len(b) - 1] \in Candles
  BY <1>3
<1>6. c \in Nat /\ d \in Nat
  BY <1>2, <1>5, ExtremeIs DEF Kinds
<1>7. QED BY <1>3, <1>4, <1>6

LEMMA CrossedOff ==
    ASSUME NEW s, s.pivot = [kind \in Kinds |-> s.pivot[kind]], IsSwing(s) \/ IsBlocks(s),
           NEW b, NEW f, f = CrossOff(s, Broken(b, s)).pivot, NEW kind \in Kinds
    PROVE  f[kind] = CrossedBy(kind, b, s.pivot[kind])
<1>1. PICK g : g = [kd \in Kinds |->
         IF kd \in Broken(b, s) THEN [s.pivot[kd] EXCEPT !.crossed = TRUE]
         ELSE s.pivot[kd]]
  OBVIOUS
<1>2. CrossOff(s, Broken(b, s)) = [s EXCEPT !.pivot = g]
  BY <1>1 DEF CrossOff
<1>3. f = g
  BY <1>2 DEF IsSwing, IsBlocks
<1>4. kind \in Broken(b, s) <=> Crosses(kind, b, s.pivot[kind])
  BY DEF Broken
<1>5. QED BY <1>1, <1>3, <1>4 DEF CrossedBy

\* The breaks of a bar: none, or one that the scan finds at the latest turn.
LEMMA BreakOfBar ==
    ASSUME BarsOK, ReadsBar, NEW size \in Nat \ {0}, NEW s, IsTurning(s),
           IsSwing(s) \/ IsBlocks(s), LegOK(s, size),
           NEW t, t = Confirmed(bars', size, s), IsTurning(t),
           NEW broken, broken = Broken(bars', t)
    PROVE  \/ broken = {} /\ BreaksOf(size)' = BreaksOf(size)
           \/ \E q : /\ q.kind \in Kinds /\ broken = {q.kind}
                     /\ q.turn \in size + 1 .. Now /\ q.at = Now + 1
                     /\ t.pivot[q.kind].index = q.turn - size
                     /\ BreaksOf(size)' = BreaksOf(size) \cup {q}
<1>1. PICK b, n, close : b = bars' /\ n = Now /\ close = bars'[Now + 1].close
  OBVIOUS
<1>2. n \in Nat /\ b \in Seq(Candles)
  BY <1>1, Grows
<1>3. PICK last : last = [kind \in Kinds |-> Max(Turns(kind, size))]
  OBVIOUS
<1>4. ASSUME NEW kind \in Kinds
      PROVE  /\ t.pivot[kind] = None \/ t.pivot[kind] \in PivotRecords
             /\ BreaksOfKind(kind, size)' =
                  BreaksOfKind(kind, size)
                    \cup (IF kind \in broken
                          THEN {[kind |-> kind, turn |-> last[kind], at |-> n + 1]} ELSE {})
             /\ kind \in broken => /\ last[kind] \in size + 1 .. n
                                   /\ t.pivot[kind].index = last[kind] - size
  <2>1. PICK T, U, p, r :
          /\ T = Turns(kind, size) /\ U = Turns(kind, size)'
          /\ p = t.pivot[kind] /\ r = CrossedBy(kind, bars', p)
    OBVIOUS
  <2>2. Follows(p, kind, size)'
    BY <1>2, <2>1, LegNext
  <2>3. p = None \/ p \in PivotRecords
    BY <2>2 DEF Follows
  <2>4. Crosses(kind, bars', p) <=> BreaksNow(kind, size, T, U, close)
    BY <1>1, <1>2, <2>1, LegNext
  <2>5. BreaksOfKind(kind, size)' =
          BreaksOfKind(kind, size)
            \cup (IF BreaksNow(kind, size, T, U, close)
                  THEN {[kind |-> kind, turn |-> Max(T), at |-> Now + 1]} ELSE {})
    BY <1>1, <1>2, <2>1, LegNext
  <2>6. kind \in broken <=> Crosses(kind, bars', p)
    BY <2>1 DEF Broken
  <2>7. last[kind] = Max(T)
    BY <1>3, <2>1
  <2>8. T \in SUBSET (size + 1 .. Now)
    BY <1>2, <2>1, LegNext
  <2>9. ASSUME kind \in broken
        PROVE  Max(T) \in size + 1 .. n /\ p.index = Max(T) - size
    <3>1. U = T /\ T # {}
      BY <2>4, <2>6, <2>9 DEF BreaksNow, IsBroken
    <3>2. T \in SUBSET (1 .. n)
      BY <1>1, <1>2, <2>8
    <3>3. Max(T) \in T
      BY <1>2, <3>1, <3>2, LastBeforeIs
    <3>4. p.index = Max(T) - size
      BY <2>1, <2>2, <3>1 DEF Follows
    <3>5. QED BY <1>1, <2>8, <3>3, <3>4
  <2>10. QED BY <1>1, <2>1, <2>3, <2>4, <2>5, <2>6, <2>7, <2>9
<1>5. broken = {} \/ \E kind \in Kinds : broken = {kind}
  BY <1>2, <1>4, OneBreak, <1>1
<1>6. Kinds = {"HIGH", "LOW"} /\ "HIGH" # "LOW"
  BY DEF Kinds
<1>7. PICK B, C : B = BreaksOf(size) /\ C = BreaksOf(size)'
  OBVIOUS
<1>8. /\ B = BreaksOfKind("HIGH", size) \cup BreaksOfKind("LOW", size)
      /\ C = BreaksOfKind("HIGH", size)' \cup BreaksOfKind("LOW", size)'
  BY <1>7 DEF BreaksOf
<1>9. CASE broken = {}
  <2>1. C = B
    BY <1>4, <1>6, <1>8, <1>9
  <2>2. QED BY <1>7, <1>9, <2>1
<1>10. ASSUME NEW kind \in Kinds, broken = {kind}
       PROVE  \E q : /\ q.kind \in Kinds /\ broken = {q.kind}
                     /\ q.turn \in size + 1 .. Now /\ q.at = Now + 1
                     /\ t.pivot[q.kind].index = q.turn - size
                     /\ C = B \cup {q}
  <2>1. PICK q : q = [kind |-> kind, turn |-> last[kind], at |-> n + 1]
    OBVIOUS
  <2>2. C = B \cup {q}
    <3>1. BreaksOfKind(kind, size)' = BreaksOfKind(kind, size) \cup {q}
      BY <1>4, <1>10, <2>1
    <3>2. \A kd \in Kinds : kd # kind =>
            BreaksOfKind(kd, size)' = BreaksOfKind(kd, size)
      BY <1>4, <1>10
    <3>3. kind = "HIGH" \/ kind = "LOW"
      BY <1>6
    <3>4. CASE kind = "HIGH"
      BY <1>6, <1>8, <3>1, <3>2, <3>4
    <3>5. CASE kind = "LOW"
      BY <1>6, <1>8, <3>1, <3>2, <3>5
    <3>6. QED BY <3>3, <3>4, <3>5
  <2>3. q.kind = kind /\ q.turn = last[kind] /\ q.at = n + 1
    BY <2>1
  <2>4. last[kind] \in size + 1 .. n /\ t.pivot[kind].index = last[kind] - size
    BY <1>4, <1>10
  <2>5. QED BY <1>1, <1>10, <2>2, <2>3, <2>4
<1>11. QED BY <1>5, <1>7, <1>9, <1>10

-----------------------------------------------------------------------------
(* The scan of the swing structure.                                         *)

LEMMA TrendKept ==
    ASSUME NEW b, NEW size, NEW s, IsSwing(s)
    PROVE  Confirmed(b, size, s).trend = s.trend
<1>1. PICK leg, i : leg = NextLeg(b, size, s.leg) /\ i = Len(b) - size
  OBVIOUS
<1>2. PICK p : p = [level |-> Extreme(leg, b[i]), index |-> i, crossed |-> FALSE]
  OBVIOUS
<1>3. PICK pivot : pivot = [s.pivot EXCEPT ![leg] = p]
  OBVIOUS
<1>4. PICK t : t = Confirmed(b, size, s)
  OBVIOUS
<1>5. t = IF leg = s.leg THEN s ELSE [s EXCEPT !.leg = leg, !.pivot[leg] = p]
  BY <1>1, <1>2, <1>4 DEF Confirmed
<1>6. t = IF leg = s.leg THEN s ELSE [s EXCEPT !.leg = leg, !.pivot = pivot]
  BY <1>3, <1>5
<1>7. t.trend = s.trend
  BY <1>6 DEF IsSwing
<1>8. QED BY <1>4, <1>7

LEMMA PivotEventIs ==
    ASSUME NEW s, NEW t, t.leg \in Kinds, NEW time, NEW x, x = PivotEvent(s, t, time),
           NEW q, q = s.pivot[t.leg], NEW p, p = t.pivot[t.leg]
    PROVE  /\ x.type = PivotType(t.leg, q # None /\ Beyond(t.leg, p.level, q.level))
           /\ x.kind = t.leg /\ x.event = p.index /\ x.known = time
<1>1. PICK further \in BOOLEAN : further <=> q # None /\ Beyond(t.leg, p.level, q.level)
  OBVIOUS
<1>2. x.type = IF further THEN IF t.leg = "HIGH" THEN "HH" ELSE "LL"
               ELSE IF t.leg = "HIGH" THEN "LH" ELSE "HL"
  BY <1>1 DEF PivotEvent
<1>3. x.type = PivotType(t.leg, further)
  BY <1>2 DEF PivotType
<1>4. x.type = PivotType(t.leg, q # None /\ Beyond(t.leg, p.level, q.level))
  BY <1>1, <1>3 DEF PivotType
<1>5. x.kind = t.leg /\ x.event = p.index /\ x.known = time
  BY DEF PivotEvent
<1>6. QED BY <1>4, <1>5

\* A bar adds the pivot that it confirms.
LEMMA SwingPivots ==
    ASSUME BarsOK, ReadsBar, NEW s, IsTurning(s), IsSwing(s), LegOK(s, SwingLength),
           NEW t, t = Confirmed(bars', SwingLength, s), IsTurning(t),
           NEW x, x = PivotEvent(s, t, Now + 1)
    PROVE  PivotEvents("HIGH")' \cup PivotEvents("LOW")' =
             (PivotEvents("HIGH") \cup PivotEvents("LOW"))
               \cup (IF t.leg = s.leg THEN {} ELSE {Told(x)})
<1>1. ASSUME NEW kind \in Kinds
      PROVE  PivotEvents(kind)' =
               PivotEvents(kind) \cup (IF t.leg = kind /\ s.leg # kind THEN {Told(x)} ELSE {})
  <2>1. PICK T, U, q, p, r :
          /\ T = Turns(kind, SwingLength) /\ U = Turns(kind, SwingLength)'
          /\ q = s.pivot[kind] /\ p = t.pivot[kind] /\ r = CrossedBy(kind, bars', p)
    OBVIOUS
  <2>2. SwingLength \in Nat \ {0}
    BY SmcAssumption
  <2>3. T \in SUBSET (SwingLength + 1 .. Now) /\ Follows(p, kind, SwingLength)'
    BY <2>1, <2>2, LegNext
  <2>4. U = T \/ (U = T \cup {Now + 1} /\ Now + 1 \in SwingLength + 1 .. Now + 1)
    BY <2>1, <2>2, LegNext
  <2>5. U # T <=> t.leg = kind /\ s.leg # kind
    BY <2>1, <2>2, LegNext
  <2>6. Follows(q, kind, SwingLength)
    BY <2>1 DEF LegOK
  <2>7. PICK y : y = IF U # T THEN x
                     ELSE [type |-> PivotType(kind, q # None /\ Beyond(kind, p.level, q.level)),
                           kind |-> kind, event |-> p.index, known |-> Now + 1]
    OBVIOUS
  <2>8. /\ y.type = PivotType(kind, q # None /\ Beyond(kind, p.level, q.level))
        /\ y.kind = kind /\ y.event = p.index /\ y.known = Now + 1
    <3>1. CASE U = T
      <4>1. PICK type : type = PivotType(kind, q # None /\ Beyond(kind, p.level, q.level))
        OBVIOUS
      <4>2. y = [type |-> type, kind |-> kind, event |-> p.index, known |-> Now + 1]
        BY <2>7, <3>1, <4>1
      <4>3. y.type = type /\ y.kind = kind /\ y.event = p.index /\ y.known = Now + 1
        BY <4>2
      <4>4. QED BY <4>1, <4>3
    <3>2. CASE U # T
      <4>1. y = x /\ t.leg = kind /\ t.leg \in Kinds
        BY <2>5, <2>7, <3>2
      <4>2. q = s.pivot[t.leg] /\ p = t.pivot[t.leg]
        BY <2>1, <4>1
      <4>3. x.type = PivotType(t.leg, q # None /\ Beyond(t.leg, p.level, q.level))
        BY <4>1, <4>2, PivotEventIs
      <4>4. x.kind = t.leg /\ x.event = p.index /\ x.known = Now + 1
        BY <4>1, <4>2, PivotEventIs
      <4>5. QED BY <4>1, <4>3, <4>4
    <3>3. QED BY <3>1, <3>2
  <2>9. PivotEvents(kind)' = PivotEvents(kind) \cup (IF U = T THEN {} ELSE {Told(y)})
    BY <2>1, <2>3, <2>4, <2>6, <2>8, PivotEventsGrow
  <2>10. QED BY <2>5, <2>7, <2>9
<1>2. "HIGH" \in Kinds /\ "LOW" \in Kinds /\ t.leg \in Kinds /\ s.leg \in Kinds
      /\ Kinds = {"HIGH", "LOW"}
  BY DEF Kinds, IsTurning
<1>3. /\ PivotEvents("HIGH")' = PivotEvents("HIGH")
           \cup (IF t.leg = "HIGH" /\ s.leg # "HIGH" THEN {Told(x)} ELSE {})
      /\ PivotEvents("LOW")' = PivotEvents("LOW")
           \cup (IF t.leg = "LOW" /\ s.leg # "LOW" THEN {Told(x)} ELSE {})
  BY <1>1, <1>2
<1>4. CASE t.leg = s.leg
  BY <1>3, <1>4
<1>5. CASE t.leg # s.leg
  BY <1>2, <1>5, <1>3
<1>6. QED BY <1>4, <1>5

\* A bar adds at most one break, against or with the trend.
LEMMA SwingBreaks ==
    ASSUME BarsOK, ReadsBar, NEW s, IsTurning(s), IsSwing(s), LegOK(s, SwingLength),
           NEW t, t = Confirmed(bars', SwingLength, s), IsTurning(t),
           TrendIsLast(s.trend, BreaksOf(SwingLength)),
           NEW broken, broken = Broken(bars', t)
    PROVE  \/ /\ broken = {}
              /\ BreaksOf(SwingLength)' = BreaksOf(SwingLength)
              /\ BreakEvents' = BreakEvents
           \/ \E kind \in Kinds :
                /\ broken = {kind}
                /\ BreakEvents' = BreakEvents \cup {Told(BreakEvent(kind, t, Now + 1))}
                /\ TrendIsLast(kind, BreaksOf(SwingLength)')
<1>1. PICK n : n = Now
  OBVIOUS
<1>2. n \in Nat /\ SwingLength \in Nat \ {0}
  BY <1>1, Grows, SmcAssumption
<1>3. PICK B, C : B = BreaksOf(SwingLength) /\ C = BreaksOf(SwingLength)'
  OBVIOUS
<1>4. \/ broken = {} /\ C = B
      \/ \E q : /\ q.kind \in Kinds /\ broken = {q.kind} /\ q.at = n + 1
                /\ C = B \cup {q}
  BY <1>1, <1>2, <1>3, BreakOfBar
<1>5. CASE broken = {} /\ C = B
  BY <1>3, <1>5, BreakEventsAre
<1>6. ASSUME NEW kind \in Kinds, NEW q, q.kind = kind, broken = {kind}, q.at = n + 1,
             C = B \cup {q}
      PROVE  /\ BreakEvents' = BreakEvents \cup {Told(BreakEvent(kind, t, Now + 1))}
             /\ TrendIsLast(kind, C)
  <2>1. PICK x, trend : x = BreakEvent(kind, t, Now + 1) /\ trend = s.trend
    OBVIOUS
  <2>2. t.trend = trend
    BY <2>1, TrendKept
  <2>3. x.type = BreakType(trend, kind) /\ x.kind = kind /\ x.event = Now + 1 /\ x.known = Now + 1
    BY <2>1, <2>2 DEF BreakEvent
  <2>4. q.kind = kind /\ q.at = Now + 1
    BY <1>1, <1>6
  <2>5. BreaksOf(SwingLength)' = B \cup {q} /\ TrendIsLast(trend, B)
    BY <1>3, <1>6, <2>1
  <2>6. BreakEvents' = BreakEvents \cup {Told(x)}
    BY <1>3, <2>3, <2>4, <2>5, BreakEventsGrow
  <2>7. TrendIsLast(q.kind, B \cup {q})
    BY <1>3, <2>3, <2>4, <2>5, BreakEventsGrow
  <2>8. QED BY <1>6, <2>1, <2>4, <2>6, <2>7
<1>7. QED BY <1>3, <1>4, <1>5, <1>6

LEMMA ListingStays ==
    ASSUME NEW n \in Nat, NEW events, NEW D, Listing(events, D, n)
    PROVE  /\ Listing(events, D, n + 1)
           /\ \A d \in D : d.known \in 0 .. n
<1>1. Listing(events, D, n + 1)
  BY DEF Listing
<1>2. ASSUME NEW d \in D PROVE d.known \in 0 .. n
  <2>1. PICK e \in Range(events) : d = Told(e)
    BY DEF Listing
  <2>2. PICK i \in DOMAIN events : e = events[i]
    BY <2>1 DEF Range
  <2>3. d.known = e.known
    BY <2>1 DEF Told
  <2>4. QED BY <2>2, <2>3 DEF Listing
<1>3. QED BY <1>1, <1>2

LEMMA SwingNext ==
    ASSUME BarsOK, ReadsBar, ListsInv, TimesInv, SwingInv, SwingBar(bars')
    PROVE  SwingInv'
<1>1. PICK b, n, s, r : b = bars' /\ n = Now /\ s = swing /\ r = swing'
  OBVIOUS
<1>2. n \in Nat /\ Now' = n + 1 /\ Len(b) = n + 1 /\ SwingLength \in Nat \ {0}
  BY <1>1, Grows, SmcAssumption DEF Now
<1>3. PICK t, broken, pivots, breaks :
        /\ t = Confirmed(b, SwingLength, s) /\ broken = Broken(b, t)
        /\ pivots = IF t.leg = s.leg THEN <<>> ELSE <<PivotEvent(s, t, Len(b))>>
        /\ breaks = SetToSeq({BreakEvent(kind, t, Len(b)) : kind \in broken})
  OBVIOUS
<1>4. /\ IsSwing(t) /\ r.events = (s.events \o pivots) \o breaks
      /\ r.leg = t.leg /\ r.pivot = CrossOff(t, broken).pivot
      /\ r.trend = IF broken = {} THEN t.trend ELSE CHOOSE kind \in broken : TRUE
  <2>1. SwingBar(b)
    BY <1>1
  <2>2. /\ IsSwing(t) /\ r.events = (s.events \o pivots) \o breaks
        /\ r.leg = t.leg /\ r.pivot = CrossOff(t, broken).pivot
    <3>1. /\ t = Confirmed(b, SwingLength, swing)
          /\ pivots = IF t.leg = swing.leg THEN <<>> ELSE <<PivotEvent(swing, t, Len(b))>>
          /\ breaks = SetToSeq({BreakEvent(kind, t, Len(b)) : kind \in Broken(b, t)})
      BY <1>1, <1>3
    <3>2. IsSwing(t) /\ swing'.leg = t.leg /\ swing'.pivot = CrossOff(t, Broken(b, t)).pivot
      BY <2>1, <3>1, SwingIs
    <3>3. swing'.events = (swing.events \o pivots) \o breaks
      BY <2>1, <3>1, SwingIs
    <3>4. QED BY <1>1, <1>3, <3>2, <3>3
  <2>3. swing'.trend = IF Broken(b, t) = {} THEN t.trend ELSE CHOOSE kind \in Broken(b, t) : TRUE
    BY <1>1, <1>3, <2>1, SwingIs
  <2>4. (CHOOSE kind \in Broken(b, t) : TRUE) = (CHOOSE kind \in broken : TRUE)
    BY <1>3
  <2>5. QED BY <1>1, <1>3, <2>2, <2>3, <2>4
<1>5. /\ IsTurning(s) /\ IsSwing(s) /\ LegOK(s, SwingLength)
      /\ Listing(s.events, DefinedSwings, n) /\ TrendIsLast(s.trend, BreaksOf(SwingLength))
  BY <1>1 DEF TimesInv, ListsInv, SwingInv
<1>6. IsTurning(t)
  BY <1>2, <1>3, <1>5, ConfirmedTurns
<1>7. LegOK(r, SwingLength)'
  <2>1. ASSUME NEW kind \in Kinds
        PROVE  /\ LegTells(t.leg, SwingLength)'
               /\ Follows(r.pivot[kind], kind, SwingLength)'
               /\ CrossedTells(r.pivot[kind], kind, SwingLength)'
    <3>1. PICK T, U, c :
            /\ T = Turns(kind, SwingLength) /\ U = Turns(kind, SwingLength)'
            /\ c = CrossedBy(kind, bars', t.pivot[kind])
      OBVIOUS
    <3>2. /\ LegTells(t.leg, SwingLength)'
          /\ Follows(c, kind, SwingLength)' /\ CrossedTells(c, kind, SwingLength)'
      BY <1>1, <1>2, <1>3, <1>5, <3>1, LegNext
    <3>3. PICK f : f = r.pivot
      OBVIOUS
    <3>4. f = CrossOff(t, Broken(b, t)).pivot /\ t.pivot = [kd \in Kinds |-> t.pivot[kd]]
      BY <1>3, <1>4, <1>6, <3>3 DEF IsTurning
    <3>5. f[kind] = CrossedBy(kind, b, t.pivot[kind])
      BY <1>4, <3>4, CrossedOff
    <3>6. r.pivot[kind] = c
      BY <1>1, <3>1, <3>3, <3>5
    <3>7. QED BY <3>2, <3>6
  <2>2. "HIGH" \in Kinds
    BY DEF Kinds
  <2>3. LegTells(r.leg, SwingLength)'
    BY <1>4, <2>1, <2>2
  <2>4. QED BY <2>1, <2>3 DEF LegOK
<1>8. PICK x : x = PivotEvent(s, t, Now + 1)
  OBVIOUS
<1>9. PICK P, Q, E, F, D :
        /\ P = PivotEvents("HIGH") \cup PivotEvents("LOW")
        /\ Q = PivotEvents("HIGH")' \cup PivotEvents("LOW")'
        /\ E = BreakEvents /\ F = BreakEvents' /\ D = P \cup E
  OBVIOUS
<1>10. Q = P \cup (IF t.leg = s.leg THEN {} ELSE {Told(x)})
  BY <1>1, <1>3, <1>5, <1>6, <1>8, <1>9, SwingPivots
<1>11. DefinedSwings = D /\ DefinedSwings' = Q \cup F
  BY <1>9 DEF DefinedSwings
<1>12. Listing(s.events, D, n + 1) /\ \A d \in D : d.known \in 0 .. n
  BY <1>2, <1>5, <1>11, ListingStays
<1>13. PICK old : old = s.events
  OBVIOUS
<1>14. IsList(old)
  BY <1>5, <1>13 DEF Listing
<1>15. PICK most : most = old \o pivots
  OBVIOUS
<1>16. /\ Listing(most, Q \cup E, n + 1)
       /\ \A d \in Q \cup E : d.known \in 0 .. n \/ d.type \in {"HH", "LH", "LL", "HL"}
  <2>1. CASE t.leg = s.leg
    <3>1. pivots = <<>> /\ Q \cup E = D
      BY <1>3, <1>9, <1>10, <2>1
    <3>2. most = old
      <4>1. PICK S : old \in Seq(S)
        BY <1>14 DEF IsList
      <4>2. QED BY <1>15, <3>1, <4>1
    <3>3. QED BY <1>12, <1>13, <3>1, <3>2
  <2>2. CASE t.leg # s.leg
    <3>1. pivots = <<x>> /\ Q \cup E = D \cup {Told(x)}
      BY <1>1, <1>2, <1>3, <1>8, <1>9, <1>10, <2>2
    <3>2. most = Append(old, x)
      BY <1>14, <1>15, <3>1, AppendedIs
    <3>3. x.known = n + 1 /\ x.type \in {"HH", "LH", "LL", "HL"}
      BY <1>1, <1>8 DEF PivotEvent
    <3>4. Told(x).known = n + 1 /\ Told(x).type = x.type
      BY <3>3 DEF Told
    <3>5. Told(x) \notin D
      <4>1. n + 1 \notin 0 .. n
        BY <1>2
      <4>2. QED BY <1>12, <3>4, <4>1
    <3>6. n + 1 \in Nat /\ Listing(old, D, n + 1)
      BY <1>2, <1>12, <1>13
    <3>7. Listing(most, D \cup {Told(x)}, n + 1)
      BY <3>2, <3>3, <3>5, <3>6, ListingAdds
    <3>8. QED BY <1>12, <3>1, <3>3, <3>4, <3>7
  <2>3. QED BY <2>1, <2>2
<1>17. PICK B, C : B = BreaksOf(SwingLength) /\ C = BreaksOf(SwingLength)'
  OBVIOUS
<1>18. \/ broken = {} /\ C = B /\ F = E
       \/ \E kind \in Kinds : /\ broken = {kind}
                              /\ F = E \cup {Told(BreakEvent(kind, t, Now + 1))}
                              /\ TrendIsLast(kind, C)
  BY <1>1, <1>3, <1>5, <1>6, <1>9, <1>17, SwingBreaks
<1>19. IsList(most)
  BY <1>16 DEF Listing
<1>20. r.events = most \o breaks
  BY <1>4, <1>13, <1>15
<1>21. Listing(r.events, Q \cup F, n + 1) /\ TrendIsLast(r.trend, C)
  <2>1. CASE broken = {} /\ C = B /\ F = E
    <3>1. breaks = <<>>
      BY <1>3, <2>1, OneIsListed
    <3>2. r.events = most
      <4>1. PICK S : most \in Seq(S)
        BY <1>19 DEF IsList
      <4>2. QED BY <1>20, <3>1, <4>1
    <3>3. r.trend = s.trend
      BY <1>3, <1>4, <1>5, <2>1, TrendKept
    <3>4. QED BY <1>5, <1>16, <1>17, <2>1, <3>2, <3>3
  <2>2. ASSUME NEW kind \in Kinds, broken = {kind},
               F = E \cup {Told(BreakEvent(kind, t, Now + 1))}, TrendIsLast(kind, C)
        PROVE  Listing(r.events, Q \cup F, n + 1) /\ TrendIsLast(r.trend, C)
    <3>1. PICK y : y = BreakEvent(kind, t, n + 1)
      OBVIOUS
    <3>2. F = E \cup {Told(y)} /\ Q \cup F = (Q \cup E) \cup {Told(y)}
      BY <1>1, <2>2, <3>1
    <3>3. {BreakEvent(kd, t, Len(b)) : kd \in broken} = {y}
      BY <1>2, <2>2, <3>1
    <3>4. breaks = <<y>>
      BY <1>3, <3>3, OneIsListed
    <3>5. r.events = Append(most, y)
      BY <1>19, <1>20, <3>4, AppendedIs
    <3>6. y.known = n + 1 /\ y.type \in {"BOS", "CHoCH"}
      BY <3>1 DEF BreakEvent, BreakType
    <3>7. Told(y).known = n + 1 /\ Told(y).type \in {"BOS", "CHoCH"}
      BY <3>6 DEF Told
    <3>8. Told(y) \notin Q \cup E
      <4>1. n + 1 \notin 0 .. n
        BY <1>2
      <4>2. QED BY <1>16, <3>7, <4>1
    <3>9. n + 1 \in Nat
      BY <1>2
    <3>10. PICK G : G = Q \cup E
      OBVIOUS
    <3>11. Listing(r.events, G \cup {Told(y)}, n + 1)
      BY <1>16, <3>5, <3>6, <3>8, <3>9, <3>10, ListingAdds
    <3>12. (CHOOSE kd \in broken : TRUE) = kind
      BY <2>2
    <3>13. r.trend = kind
      BY <1>4, <2>2, <3>12
    <3>14. QED BY <2>2, <3>2, <3>10, <3>11, <3>13
  <2>3. QED BY <1>18, <2>1, <2>2
<1>22. QED BY <1>1, <1>2, <1>7, <1>11, <1>17, <1>21 DEF SwingInv

-----------------------------------------------------------------------------
(* Equal highs and lows.                                                    *)

LEMMA NearIs ==
    ASSUME NEW x \in Nat, NEW y \in Nat, NEW atr
    PROVE  IsNear(x, y, atr) <=> IsNear(y, x, atr)
<1>1. Distance(x, y) = Distance(y, x)
  BY DEF Distance
<1>2. QED BY <1>1 DEF IsNear

\* A turn is an equal level when it is near the one before.
LEMMA EqualTimesGrow ==
    ASSUME BarsOK, ReadsBar, NEW kind \in Kinds,
           NEW T, T = Turns(kind, ConfirmationBars), NEW U, U = Turns(kind, ConfirmationBars)',
           T \in SUBSET (ConfirmationBars + 1 .. Now),
           U = T \/ (U = T \cup {Now + 1} /\ Now + 1 \in ConfirmationBars + 1 .. Now + 1),
           NEW q, Follows(q, kind, ConfirmationBars), NEW p, Follows(p, kind, ConfirmationBars)'
    PROVE  EqualTimes(kind)' =
             EqualTimes(kind)
               \cup (IF U # T /\ EqualAt(kind, Now + 1, q, p.level, q.level, bars')
                     THEN {Now + 1} ELSE {})
<1>1. PICK n, size, b : n = Now /\ size = ConfirmationBars /\ b = bars'
  OBVIOUS
<1>2. n \in Nat /\ Now' = n + 1 /\ size \in Nat \ {0} /\ Len(b) = n + 1 /\ b \in Seq(Candles)
  BY <1>1, Grows, SmcAssumption DEF Now
<1>3. T \in SUBSET (1 .. n)
  BY <1>1, <1>2
<1> DEFINE Old(k) == EqualAt(kind, k, LastBefore(T, k, None), LevelAt(kind, size, k),
                             LevelAt(kind, size, LastBefore(T, k, None)), SubSeq(bars, 1, k))
           New(k) == EqualAt(kind, k, LastBefore(U, k, None), LevelAt(kind, size, k)',
                             LevelAt(kind, size, LastBefore(U, k, None))', SubSeq(b, 1, k))
<1>4. /\ EqualTimes(kind) = {k \in T : Old(k)}
      /\ EqualTimes(kind)' = {k \in U : New(k)}
  BY <1>1 DEF EqualTimes, EqualAt, IsNear
<1>5. ASSUME NEW k \in T PROVE New(k) <=> Old(k)
  <2>1. k \in 0 .. n + 1 /\ k \in size + 1 .. n + 1 /\ k \in 0 .. Now
    BY <1>1, <1>2, <1>3
  <2>2. PICK before : before = LastBefore(T, k, None)
    OBVIOUS
  <2>3. LastBefore(U, k, None) = before
    BY <1>2, <1>3, <2>1, LastBeforeStays, <1>1, <2>2
  <2>4. before = None \/ before \in T
    <3>1. PICK earlier : earlier = {j \in T : j < k}
      OBVIOUS
    <3>2. earlier \in SUBSET (1 .. n)
      BY <1>3, <3>1
    <3>3. earlier # {} => Max(earlier) \in earlier
      BY <1>2, <3>2, LastBeforeIs
    <3>4. before = IF earlier = {} THEN None ELSE Max(earlier)
      BY <2>2, <3>1 DEF LastBefore
    <3>5. QED BY <3>1, <3>3, <3>4
  <2>5. LevelAt(kind, size, k)' = LevelAt(kind, size, k)
    BY <1>1, <1>2, <2>1, LevelsStay
  <2>6. before # None => LevelAt(kind, size, before)' = LevelAt(kind, size, before)
    <3>1. ASSUME before \in T PROVE LevelAt(kind, size, before)' = LevelAt(kind, size, before)
      BY <1>1, <1>2, <1>3, <3>1, LevelsStay
    <3>2. QED BY <2>4, <3>1
  <2>7. SubSeq(b, 1, k) = SubSeq(bars, 1, k)
    <3>1. 1 \in Nat \ {0}
      OBVIOUS
    <3>2. QED BY <1>1, <2>1, <3>1, SeenAgain
  <2>8. PICK x, y, z, h :
          /\ x = LevelAt(kind, size, k) /\ y = LevelAt(kind, size, before)
          /\ z = LevelAt(kind, size, before)' /\ h = SubSeq(bars, 1, k)
    OBVIOUS
  <2>9. /\ Old(k) <=> EqualAt(kind, k, before, x, y, h)
        /\ New(k) <=> EqualAt(kind, k, before, x, z, h)
    BY <2>2, <2>3, <2>5, <2>7, <2>8
  <2>10. before # None => z = y
    BY <2>6, <2>8
  <2> HIDE DEF Old, New
  <2>11. QED BY <2>9, <2>10 DEF EqualAt
<1>6. ASSUME U # T PROVE New(n + 1) <=> EqualAt(kind, n + 1, q, p.level, q.level, b)
  <2>1. U = T \cup {n + 1} /\ n + 1 \in size + 1 .. n + 1
    BY <1>1, <1>6
  <2>2. Max(T \cup {n + 1}) = n + 1
    BY <1>2, <1>3, LastBeforeIs
  <2>3. LastBefore(T, n + 1, None) = IF T = {} THEN None ELSE Max(T)
    <3>1. {j \in T : j < n + 1} = T
      BY <1>2, <1>3
    <3>2. QED BY <3>1 DEF LastBefore
  <2>4. LastBefore(T \cup {n + 1}, n + 1, None) = LastBefore(T, n + 1, None)
    BY <1>2, <1>3, LastBeforeStays
  <2>5. PICK before : before = IF T = {} THEN None ELSE Max(T)
    OBVIOUS
  <2>6. LastBefore(U, n + 1, None) = before /\ Max(U) = n + 1
    BY <2>1, <2>2, <2>3, <2>4, <2>5
  <2>7. p.level = LevelAt(kind, size, n + 1)'
    BY <2>1, <1>1, <1>2, <2>6 DEF Follows
  <2>8. /\ q # None <=> before # None
        /\ before # None => q.level = LevelAt(kind, size, before)'
    <3>1. CASE T = {}
      BY <2>5, <3>1 DEF Follows
    <3>2. CASE T # {}
      <4>1. before = Max(T) /\ before \in T
        BY <1>2, <1>3, <2>5, <3>2, LastBeforeIs
      <4>2. q \in PivotRecords /\ q.level = LevelAt(kind, size, before)
        BY <1>1, <3>2, <4>1 DEF Follows
      <4>3. before \in size + 1 .. n + 1 /\ before \in Nat
        BY <1>1, <1>2, <1>3, <4>1
      <4>4. LevelAt(kind, size, before)' = LevelAt(kind, size, before)
        BY <1>1, <1>2, <4>3, LevelsStay
      <4>5. q # None /\ before # None
        BY <4>2, <4>3, NoneAssumption DEF PivotRecords
      <4>6. QED BY <4>2, <4>4, <4>5
    <3>3. QED BY <3>1, <3>2
  <2>9. SubSeq(b, 1, n + 1) = b
    BY <1>2, SubSeqFull
  <2>10. PICK x, y : x = LevelAt(kind, size, n + 1)' /\ y = LevelAt(kind, size, before)'
    OBVIOUS
  <2>11. New(n + 1) <=> EqualAt(kind, n + 1, before, x, y, b)
    BY <1>2, <2>6, <2>9, <2>10
  <2> HIDE DEF New
  <2>12. QED BY <2>7, <2>8, <2>10, <2>11 DEF EqualAt
<1> HIDE DEF Old, New
<1>7. EqualTimes(kind)' =
        EqualTimes(kind) \cup (IF U # T /\ New(n + 1) THEN {n + 1} ELSE {})
  BY <1>1, <1>4, <1>5
<1>8. QED BY <1>1, <1>6, <1>7

\* The bar adds an equal level when it turns the leg to a near pivot.
LEMMA EqualIs ==
    ASSUME ListsInv, NEW b, EqualBar(b), NEW t, t = Confirmed(b, ConfirmationBars, equals),
           NEW q, q = equals.pivot[t.leg], NEW p, p = t.pivot[t.leg]
    PROVE  /\ equals'.leg = t.leg /\ equals'.pivot = t.pivot
           /\ \E e : /\ e.direction = Upward(Opposite(t.leg)) /\ e.known = Len(b)
                     /\ equals'.events =
                          IF t.leg # equals.leg /\ q # None /\ StrictlyEqual(q.level, p.level, b)
                          THEN Append(equals.events, e) ELSE equals.events
<1>1. IsEqual(t) /\ t.events = equals.events
  BY ConfirmedKeeps DEF ListsInv
<1>2. PICK e : e = [type |-> IF t.leg = "HIGH" THEN "EQH" ELSE "EQL",
                    direction |-> Upward(Opposite(t.leg)), level |-> p.level,
                    previous |-> q.level, event |-> p.index, known |-> Len(b)]
  OBVIOUS
<1>3. PICK added \in BOOLEAN :
        added <=> t.leg # equals.leg /\ q # None /\ StrictlyEqual(q.level, p.level, b)
  OBVIOUS
<1>4. equals' = IF added THEN [t EXCEPT !.events = Append(@, e)] ELSE t
  BY <1>2, <1>3 DEF EqualBar
<1>5. e.direction = Upward(Opposite(t.leg)) /\ e.known = Len(b)
  BY <1>2
<1>6. equals'.leg = t.leg /\ equals'.pivot = t.pivot
  BY <1>1, <1>4 DEF IsEqual
<1>7. equals'.events = IF added THEN Append(equals.events, e) ELSE equals.events
  BY <1>1, <1>4 DEF IsEqual
<1>8. QED BY <1>3, <1>5, <1>6, <1>7

\* The plugin's comparison is the definition's.
LEMMA StrictIs ==
    ASSUME NEW b \in Seq(Candles), NEW x \in Nat, NEW y \in Nat
    PROVE  StrictlyEqual(x, y, b) <=> Len(b) >= WarmupBars /\ IsNear(y, x, WilderAtr(b, WarmupBars))
<1>1. PICK atr, n : atr = WilderAtr(b, WarmupBars) /\ n = Len(b)
  OBVIOUS
<1>2. WarmupBars \in Nat \ {0} /\ n \in Nat
  BY <1>1, SmcAssumption
<1>3. atr = None <=> n < WarmupBars
  BY <1>1, <1>2, WilderIs
<1>4. atr # None <=> n >= WarmupBars
  BY <1>2, <1>3
<1>5. StrictlyEqual(x, y, b) <=> atr # None /\ IsNear(x, y, atr)
  BY <1>1 DEF StrictlyEqual, IsNear
<1>6. IsNear(x, y, atr) <=> IsNear(y, x, atr)
  BY NearIs
<1>7. QED BY <1>1, <1>4, <1>5, <1>6

LEMMA EqualNext ==
    ASSUME BarsOK, ReadsBar, ListsInv, TimesInv, EqualsInv, EqualBar(bars')
    PROVE  EqualsInv'
<1>1. PICK b, n, s, t, leg : /\ b = bars' /\ n = Now /\ s = equals
                             /\ t = Confirmed(b, ConfirmationBars, s) /\ leg = t.leg
  OBVIOUS
<1>2. n \in Nat /\ Now' = n + 1 /\ Len(b) = n + 1 /\ b \in Seq(Candles)
  BY <1>1, Grows DEF Now
<1>3. ConfirmationBars \in Nat \ {0}
  BY SmcAssumption
<1>4. IsTurning(s) /\ IsEqual(s) /\ IsList(s.events)
  BY <1>1 DEF TimesInv, ListsInv
<1>5. IsTurning(t) /\ leg \in Kinds
  <2>1. IsTurning(t)
    BY <1>1, <1>2, <1>3, <1>4, ConfirmedTurns
  <2>2. QED BY <1>1, <2>1 DEF IsTurning
<1>6. PICK q, p : q = s.pivot[leg] /\ p = t.pivot[leg]
  OBVIOUS
<1>7. PICK near, e :
        /\ near \in BOOLEAN
        /\ near <=> leg # s.leg /\ q # None /\ StrictlyEqual(q.level, p.level, b)
        /\ equals'.leg = leg /\ equals'.pivot = t.pivot
        /\ e.direction = Upward(Opposite(leg)) /\ e.known = n + 1
        /\ equals'.events = IF near THEN Append(s.events, e) ELSE s.events
  <2>1. /\ equals'.leg = t.leg /\ equals'.pivot = t.pivot
        /\ \E e : /\ e.direction = Upward(Opposite(t.leg)) /\ e.known = Len(b)
                  /\ equals'.events =
                       IF t.leg # equals.leg /\ q # None /\ StrictlyEqual(q.level, p.level, b)
                       THEN Append(equals.events, e) ELSE equals.events
    BY <1>1, <1>6, EqualIs
  <2>2. PICK near \in BOOLEAN :
          near <=> leg # s.leg /\ q # None /\ StrictlyEqual(q.level, p.level, b)
    OBVIOUS
  <2>3. QED BY <1>1, <1>2, <2>1, <2>2
<1>8. LegTells(s.leg, ConfirmationBars)
      /\ \A kind \in Kinds : Follows(s.pivot[kind], kind, ConfirmationBars)
  BY <1>1 DEF EqualsInv
<1>9. ASSUME NEW kind \in Kinds
      PROVE  /\ LegTells(leg, ConfirmationBars)'
             /\ Follows(t.pivot[kind], kind, ConfirmationBars)'
             /\ TimesOf(equals.events, Upward(Opposite(kind)))' = EqualTimes(kind)'
  <2>1. PICK T, U : T = Turns(kind, ConfirmationBars) /\ U = Turns(kind, ConfirmationBars)'
    OBVIOUS
  <2>2. PICK was, is : was = s.pivot[kind] /\ is = t.pivot[kind]
    OBVIOUS
  <2>3. /\ LegTells(leg, ConfirmationBars)'
        /\ T \subseteq ConfirmationBars + 1 .. Now
        /\ U = T \cup (IF leg = kind /\ s.leg # kind THEN {Now + 1} ELSE {})
        /\ Follows(is, kind, ConfirmationBars)'
        /\ leg = kind /\ s.leg # kind => Now + 1 \in ConfirmationBars + 1 .. Now + 1
    BY <1>1, <1>3, <1>4, <1>8, <2>1, <2>2, FollowsNext
  <2>4. Now + 1 \notin T
    BY <1>1, <1>2, <1>3, <2>3
  <2>5. U # T <=> leg = kind /\ s.leg # kind
    BY <2>3, <2>4
  <2>6. PICK X, Y : X = EqualTimes(kind) /\ Y = EqualTimes(kind)'
    OBVIOUS
  <2>7. Follows(was, kind, ConfirmationBars)
    BY <1>8, <2>2
  <2>8. PICK added \in BOOLEAN :
          added <=> U # T /\ EqualAt(kind, Now + 1, was, is.level, was.level, b)
    OBVIOUS
  <2>9. Y = X \cup (IF added THEN {n + 1} ELSE {})
    BY <1>1, <2>1, <2>3, <2>5, <2>6, <2>7, <2>8, EqualTimesGrow
  <2>10. added <=> near /\ kind = leg
    <3>1. CASE U = T
      BY <1>7, <2>5, <2>8, <3>1
    <3>2. CASE U # T
      <4>1. leg = kind /\ leg # s.leg /\ q = was /\ p = is
        BY <1>6, <2>2, <2>5, <3>2
      <4>2. added <=> n + 1 >= WarmupBars /\ was # None
                      /\ IsNear(is.level, was.level, WilderAtr(b, WarmupBars))
        BY <1>1, <2>8, <3>2 DEF EqualAt
      <4>3. near <=> was # None /\ StrictlyEqual(was.level, is.level, b)
        BY <1>7, <4>1
      <4>4. CASE was = None
        BY <4>1, <4>2, <4>3, <4>4
      <4>5. CASE was # None
        <5>1. was \in PivotRecords /\ is \in PivotRecords
          BY <2>1, <2>3, <2>7, <4>5 DEF Follows
        <5>2. was.level \in Nat /\ is.level \in Nat
          BY <5>1 DEF PivotRecords
        <5>3. StrictlyEqual(was.level, is.level, b)
                <=> Len(b) >= WarmupBars /\ IsNear(is.level, was.level, WilderAtr(b, WarmupBars))
          BY <1>2, <5>2, StrictIs
        <5>4. QED BY <1>2, <4>1, <4>2, <4>3, <4>5, <5>3
      <4>6. QED BY <4>4, <4>5
    <3>3. QED BY <3>1, <3>2
  <2>11. PICK d : d = Upward(Opposite(kind))
    OBVIOUS
  <2>12. TimesOf(s.events, d) = X
    BY <1>1, <2>6, <2>11 DEF EqualsInv
  <2>13. e.direction = d <=> kind = leg
    BY <1>5, <1>7, <2>11 DEF Upward, Opposite, Kinds
  <2>14. PICK more : more = equals'.events
    OBVIOUS
  <2>15. TimesOf(more, d) = Y
    <3>1. CASE near
      <4>1. TimesOf(more, d) =
              TimesOf(s.events, d) \cup (IF e.direction = d THEN {e.known} ELSE {})
        <5>1. PICK old : old = s.events
          OBVIOUS
        <5>2. IsList(old) /\ more = Append(old, e)
          BY <1>4, <1>7, <2>14, <3>1, <5>1
        <5>3. TimesOf(more, d) = TimesOf(old, d) \cup TimeIf(e, d)
          <6>1. Range(more) = Range(old) \cup {e}
            BY <5>2, AppendedIs
          <6>2. QED BY <6>1 DEF TimesOf, TimeIf
        <5>4. QED BY <5>1, <5>3 DEF TimeIf
      <4>2. QED BY <1>7, <2>9, <2>10, <2>12, <2>13, <3>1, <4>1
    <3>2. CASE ~near
      BY <1>7, <2>9, <2>10, <2>12, <2>14, <3>2
    <3>3. QED BY <3>1, <3>2
  <2>16. TimesOf(equals.events, Upward(Opposite(kind)))' = TimesOf(more, d)
    BY <2>11, <2>14 DEF TimesOf
  <2>17. QED BY <2>2, <2>3, <2>6, <2>15, <2>16
<1>10. "HIGH" \in Kinds
  BY DEF Kinds
<1>11. QED BY <1>7, <1>9, <1>10 DEF EqualsInv

-----------------------------------------------------------------------------
\* Nothing has happened before the first bar.
LEMMA NothingYet ==
    ASSUME bars = <<>>, NEW kind \in Kinds, NEW size \in Nat \ {0}
    PROVE  /\ Marks(kind, size) = {} /\ Turns(kind, size) = {}
           /\ BreaksOfKind(kind, size) = {} /\ LegTells("HIGH", size)
<1>1. Now = 0
  BY DEF Now
<1>2. \A kd : Marks(kd, size) = {}
  <2>1. size + 1 .. 0 = {}
    OBVIOUS
  <2>2. QED BY <1>1, <2>1 DEF Marks
<1>3. PICK M : M = [kd \in Kinds |-> Marks(kd, size)]
  OBVIOUS
<1>4. M[kind] = {}
  BY <1>2, <1>3
<1>5. Turns(kind, size) = {}
  BY <1>3, <1>4 DEF Turns
<1>6. BreaksOfKind(kind, size) = {}
  BY <1>5 DEF BreaksOfKind
<1>7. LatestMark("HIGH", size) = 0 /\ LatestMark("LOW", size) = -1
  BY <1>2 DEF LastBefore, LatestMark
<1>8. LegTells("HIGH", size)
  BY <1>7 DEF LegTells, Kinds, Opposite
<1>9. QED BY <1>2, <1>5, <1>6, <1>8

LEMMA NothingFollows ==
    ASSUME bars = <<>>, NEW size \in Nat \ {0}, NEW kind \in Kinds
    PROVE  Follows(None, kind, size) /\ CrossedTells(None, kind, size)
<1>1. Turns(kind, size) = {}
  BY NothingYet
<1>2. QED BY <1>1 DEF Follows, CrossedTells

LEMMA PivotsInit ==
    ASSUME Unread
    PROVE  SwingInv /\ EqualsInv
<1>1. PICK pivot : pivot = [kind \in Kinds |-> None]
  OBVIOUS
<1>2. /\ bars = <<>>
      /\ swing = [leg |-> "HIGH", pivot |-> pivot, trend |-> None, events |-> <<>>]
      /\ equals = [leg |-> "HIGH", pivot |-> pivot, events |-> <<>>]
  BY <1>1 DEF Unread, SmcInit, NoPivots, NoSwing, NoEquals
<1>3. SwingLength \in Nat \ {0} /\ ConfirmationBars \in Nat \ {0} /\ Now = 0
  BY <1>2, SmcAssumption DEF Now
<1>4. "HIGH" \in Kinds /\ "LOW" \in Kinds /\ \A kind \in Kinds : pivot[kind] = None
  BY <1>1 DEF Kinds
<1>5. ASSUME NEW size \in Nat \ {0}, NEW kind \in Kinds
      PROVE  /\ Turns(kind, size) = {} /\ BreaksOfKind(kind, size) = {}
             /\ LegTells("HIGH", size)
             /\ Follows(pivot[kind], kind, size) /\ CrossedTells(pivot[kind], kind, size)
  BY <1>2, NothingYet, <1>4, NothingFollows
<1>6. LegOK(swing, SwingLength)
  BY <1>2, <1>3, <1>4, <1>5 DEF LegOK
<1>7. BreaksOf(SwingLength) = {}
  BY <1>3, <1>4, <1>5 DEF BreaksOf
<1>8. TrendIsLast(swing.trend, BreaksOf(SwingLength))
  BY <1>2, <1>7 DEF TrendIsLast
<1>9. DefinedSwings = {}
  BY <1>7, <1>3, <1>4, <1>5 DEF BreakEvents, PivotEvents, DefinedSwings
<1>10. PICK none : none = <<>>
  OBVIOUS
<1>11. DOMAIN none = {} /\ Range(none) = {} /\ Len(none) = 0 /\ IsList(none)
  BY <1>10 DEF Range, IsList
<1>12. Listing(none, {}, 0)
  BY <1>11, FS_EmptySet DEF Listing
<1>13. Listing(swing.events, DefinedSwings, Now)
  BY <1>2, <1>3, <1>9, <1>10, <1>12
<1>14. \A kind \in Kinds : EqualTimes(kind) = {}
  BY <1>3, <1>5 DEF EqualTimes
<1>15. \A direction : TimesOf(none, direction) = {}
  BY <1>11 DEF TimesOf
<1>16. EqualsInv
  BY <1>2, <1>3, <1>4, <1>5, <1>10, <1>14, <1>15 DEF EqualsInv
<1>17. QED BY <1>6, <1>8, <1>13, <1>16 DEF SwingInv

\* The history alone tells turns, breaks and events.
LEMMA HistoryTells ==
    ASSUME bars' = bars
    PROVE  /\ \A size : BreaksOf(size)' = BreaksOf(size)
           /\ \A kind, size : /\ LegTells(kind, size)' <=> LegTells(kind, size)
                              /\ Turns(kind, size)' = Turns(kind, size)
           /\ \A kind, size, turn : LevelAt(kind, size, turn)' = LevelAt(kind, size, turn)
           /\ \A kind, size, turn, turns :
                BreakBars(kind, size, turn, turns)' = BreakBars(kind, size, turn, turns)
           /\ DefinedSwings' = DefinedSwings /\ \A kind : EqualTimes(kind)' = EqualTimes(kind)
<1>1. Now' = Now
  BY DEF Now
<1>2. \A kind, size : Marks(kind, size)' = Marks(kind, size)
  BY <1>1 DEF Marks, Exceeds
<1>3. \A kind, size : Turns(kind, size)' = Turns(kind, size)
  <2>1. ASSUME NEW kind, NEW size PROVE Turns(kind, size)' = Turns(kind, size)
    <3>1. PICK M : M = [kd \in Kinds |-> Marks(kd, size)] /\ M = [kd \in Kinds |-> Marks(kd, size)']
      BY <1>2
    <3>2. QED BY <3>1 DEF Turns
  <2>2. QED BY <2>1
<1>4. \A kind, size, turn : LevelAt(kind, size, turn)' = LevelAt(kind, size, turn)
  BY DEF LevelAt
<1>5. \A kind, size, turn, turns :
        BreakBars(kind, size, turn, turns)' = BreakBars(kind, size, turn, turns)
  BY <1>1, <1>4 DEF BreakBars
<1>6. \A kind, size : BreaksOfKind(kind, size)' = BreaksOfKind(kind, size)
  <2>1. ASSUME NEW kind, NEW size PROVE BreaksOfKind(kind, size)' = BreaksOfKind(kind, size)
    <3>1. PICK T : T = Turns(kind, size) /\ T = Turns(kind, size)'
      BY <1>3
    <3>2. QED BY <1>5, <3>1 DEF BreaksOfKind
  <2>2. QED BY <2>1
<1>7. \A size : BreaksOf(size)' = BreaksOf(size)
  BY <1>6 DEF BreaksOf
<1>8. \A kind, size : LegTells(kind, size)' <=> LegTells(kind, size)
  BY <1>1, <1>2 DEF LegTells, LatestMark
<1>9. DefinedSwings' = DefinedSwings
  <2>1. BreakEvents' = BreakEvents
    BY <1>7 DEF BreakEvents
  <2>2. ASSUME NEW kind PROVE PivotEvents(kind)' = PivotEvents(kind)
    <3>1. PICK T : T = Turns(kind, SwingLength) /\ T = Turns(kind, SwingLength)'
      BY <1>3
    <3>2. \A k : SwingType(kind, k, T)' = SwingType(kind, k, T)
      BY <1>4 DEF SwingType
    <3>3. QED BY <3>1, <3>2 DEF PivotEvents
  <2>3. QED BY <2>1, <2>2 DEF DefinedSwings
<1>10. \A kind : EqualTimes(kind)' = EqualTimes(kind)
  BY <1>3, <1>4 DEF EqualTimes
<1>11. QED BY <1>3, <1>4, <1>5, <1>7, <1>8, <1>9, <1>10

LEMMA FollowsStays ==
    ASSUME bars' = bars, NEW kind, NEW size, NEW p
    PROVE  /\ Follows(p, kind, size)' <=> Follows(p, kind, size)
           /\ CrossedTells(p, kind, size)' <=> CrossedTells(p, kind, size)
<1>1. PICK T : T = Turns(kind, size) /\ T = Turns(kind, size)'
  BY HistoryTells
<1>2. PICK m : m = Max(T)
  OBVIOUS
<1>3. LevelAt(kind, size, m)' = LevelAt(kind, size, m)
  BY HistoryTells
<1>4. BreakBars(kind, size, m, T)' = BreakBars(kind, size, m, T)
  BY HistoryTells
<1>5. Follows(p, kind, size)' <=> Follows(p, kind, size)
  BY <1>1, <1>2, <1>3 DEF Follows
<1>6. CrossedTells(p, kind, size)' <=> CrossedTells(p, kind, size)
  BY <1>1, <1>2, <1>4 DEF CrossedTells
<1>7. QED BY <1>5, <1>6

LEMMA PivotsNext ==
    ASSUME ScanInv, SwingInv, EqualsInv, [Next]_vars
    PROVE  SwingInv' /\ EqualsInv'
<1>1. CASE NextBar
  <2>1. ReadsBar /\ SwingBar(bars') /\ EqualBar(bars')
    BY <1>1 DEF NextBar, SmcBar
  <2>2. BarsOK /\ ListsInv /\ TimesInv
    BY DEF ScanInv
  <2>3. SwingInv'
    BY <2>1, <2>2, SwingNext
  <2>4. EqualsInv'
    BY <2>1, <2>2, EqualNext
  <2>5. QED BY <2>3, <2>4
<1>2. CASE UNCHANGED vars
  <2>1. bars' = bars /\ swing' = swing /\ equals' = equals
    BY <1>2 DEF vars, smcVars
  <2>2. Now' = Now
    BY <2>1 DEF Now
  <2>3. ASSUME NEW kind, NEW size, NEW p
        PROVE  /\ Follows(p, kind, size)' <=> Follows(p, kind, size)
               /\ CrossedTells(p, kind, size)' <=> CrossedTells(p, kind, size)
    BY <2>1, FollowsStays
  <2>4. \A kind, size : LegTells(kind, size)' <=> LegTells(kind, size)
    BY <2>1, HistoryTells
  <2>5. SwingInv'
    <3>1. LegOK(swing, SwingLength)'
      <4>1. PICK s : s = swing
        OBVIOUS
      <4>2. LegOK(s, SwingLength)
        BY <4>1 DEF SwingInv
      <4>3. LegOK(s, SwingLength)'
        BY <2>3, <2>4, <4>2 DEF LegOK
      <4>4. QED BY <2>1, <4>1, <4>3
    <3>2. DefinedSwings' = DefinedSwings
      BY <2>1, HistoryTells
    <3>3. BreaksOf(SwingLength)' = BreaksOf(SwingLength)
      BY <2>1, HistoryTells
    <3>4. QED BY <2>1, <2>2, <3>1, <3>2, <3>3 DEF SwingInv
  <2>6. EqualsInv'
    <3>1. PICK s : s = equals
      OBVIOUS
    <3>2. /\ LegTells(s.leg, ConfirmationBars)
          /\ \A kind \in Kinds :
               /\ Follows(s.pivot[kind], kind, ConfirmationBars)
               /\ TimesOf(s.events, Upward(Opposite(kind))) = EqualTimes(kind)
      BY <3>1 DEF EqualsInv
    <3>3. \A kind : EqualTimes(kind)' = EqualTimes(kind)
      BY <2>1, HistoryTells
    <3>4. equals' = s
      BY <2>1, <3>1
    <3>5. QED BY <2>3, <2>4, <3>2, <3>3, <3>4 DEF EqualsInv
  <2>7. QED BY <2>5, <2>6
<1>3. CASE Slide
  <2>1. Unread'
    BY <1>3, Restarts DEF ScanInv
  <2>2. QED BY <2>1, PivotsInit, PTL
<1>4. QED BY <1>1, <1>2, <1>3 DEF Next

\* The structure plugin reports one pivot for every turn of the leg and one break for
\* every pivot that a close exceeds while it is in force, a change of character exactly
\* against the break before; and two pivots are an equal level when they are near.
THEOREM PivotsAreDefined == Spec => []PivotsMatchDefinition
<1>1. Init => SwingInv /\ EqualsInv
  BY AtFirst, PivotsInit
<1>2. ScanInv /\ (SwingInv /\ EqualsInv) /\ [Next]_vars => (SwingInv /\ EqualsInv)'
  BY PivotsNext
<1>3. SwingInv /\ EqualsInv => PivotsMatchDefinition
  <2> SUFFICES ASSUME SwingInv, EqualsInv PROVE PivotsMatchDefinition
    OBVIOUS
  <2>1. PICK D, ev : D = DefinedSwings /\ ev = swing.events
    OBVIOUS
  <2>2. Listing(ev, D, Now)
    BY <2>1 DEF SwingInv
  <2>3. D = PivotEvents("HIGH") \cup PivotEvents("LOW") \cup BreakEvents
    BY <2>1 DEF DefinedSwings
  <2>4. {[type |-> e.type, kind |-> e.kind, event |-> e.event, known |-> e.known] :
           e \in Range(ev)} = D
    BY <2>2 DEF Listing, Told
  <2>5. /\ Len(ev) = Cardinality(D)
        /\ \A i, j \in DOMAIN ev : i < j => ev[i].known <= ev[j].known
    BY <2>2 DEF Listing
  <2>6. \A kind \in Kinds :
          {e.known : e \in {o \in Range(equals.events) :
                            o.direction = Upward(Opposite(kind))}} = EqualTimes(kind)
    BY DEF EqualsInv, TimesOf
  <2>7. QED BY <2>1, <2>3, <2>4, <2>5, <2>6 DEF PivotsMatchDefinition
<1>4. QED BY <1>1, <1>2, <1>3, ScanHolds, PTL DEF Spec

-----------------------------------------------------------------------------
(* The list of the order blocks.                                            *)

\* What a bar leaves keeps its order.
LEMMA UnmitigatedFalls ==
    ASSUME NEW S, NEW list \in Seq(S), NEW c, Falling(list)
    PROVE  Falling(Unmitigated(list, c))
<1>1. PICK n : n = Len(list)
  OBVIOUS
<1>2. n \in Nat /\ DOMAIN list = 1 .. n /\ \A i \in 1 .. n : list[i] \in S
  BY <1>1
<1>3. PICK kept : Unmitigated(list, c) = kept[n] /\ Leaves(kept, list, c)
  BY <1>1, UnmitigatedTurns
<1> DEFINE First(i) == {list[j] : j \in 1 .. i}
           Right(i) == /\ IsList(kept[i]) /\ Falling(kept[i])
                       /\ \A j \in DOMAIN kept[i] : kept[i][j] \in First(i)
           Good == {i \in Nat : i <= n => Right(i)}
<1>4. 0 \in Good
  <2>1. kept[0] = <<>>
    BY <1>3 DEF Leaves
  <2>2. IsList(kept[0]) /\ DOMAIN kept[0] = {}
    BY <2>1 DEF IsList
  <2>3. QED BY <2>2 DEF Falling
<1>5. ASSUME NEW i \in Nat, i \in Good PROVE i + 1 \in Good
  <2>1. SUFFICES ASSUME i + 1 <= n PROVE Right(i + 1)
    OBVIOUS
  <2>2. Right(i) /\ i + 1 \in 1 .. n /\ (i + 1) - 1 = i
    BY <1>2, <1>5, <2>1
  <2>3. kept[i + 1] = IF Mitigates(list[i + 1], c) THEN kept[i] ELSE Append(kept[i], list[i + 1])
    BY <1>1, <1>3, <2>2 DEF Leaves
  <2>4. First(i) \subseteq First(i + 1) /\ list[i + 1] \in First(i + 1)
    OBVIOUS
  <2>5. PICK s, x, t : s = kept[i] /\ x = list[i + 1] /\ t = Append(s, x)
    OBVIOUS
  <2>6. IsList(s) /\ Falling(s) /\ \A j \in DOMAIN s : s[j] \in First(i)
    BY <2>2, <2>5
  <2>7. Falling(t)
    BY <1>1, <1>2, <2>2, <2>5, <2>6, FallingMore
  <2>8. IsList(t) /\ \A j \in DOMAIN t : t[j] \in First(i + 1)
    <3> HIDE DEF First
    <3>1. /\ IsList(t) /\ t[Len(s) + 1] = x /\ Len(s) \in Nat
          /\ \A j \in DOMAIN s : t[j] = s[j]
          /\ DOMAIN s = 1 .. Len(s) /\ DOMAIN t = 1 .. Len(s) + 1
      <4>0. IsList(s) /\ t = Append(s, x)
        BY <2>5, <2>6
      <4>1. IsList(t) /\ t[Len(s) + 1] = x /\ Len(s) \in Nat
        BY <4>0, AppendedIs
      <4>2. \A j \in DOMAIN s : t[j] = s[j]
        BY <2>5, <2>6, AppendedIs
      <4>3. DOMAIN s = 1 .. Len(s) /\ DOMAIN t = 1 .. Len(s) + 1
        BY <2>5, <2>6, AppendedIs
      <4>4. QED BY <4>1, <4>2, <4>3
    <3>2. \A j \in DOMAIN t : j \in DOMAIN s \/ j = Len(s) + 1
      BY <3>1
    <3>3. QED BY <2>4, <2>5, <2>6, <3>1, <3>2
  <2> HIDE DEF First
  <2>9. CASE Mitigates(x, c)
    <3>1. kept[i + 1] = s
      BY <2>3, <2>5, <2>9
    <3>2. QED BY <2>4, <2>6, <3>1
  <2>10. CASE ~Mitigates(x, c)
    <3>1. kept[i + 1] = t
      BY <2>3, <2>5, <2>10
    <3>2. QED BY <2>7, <2>8, <3>1
  <2>11. QED BY <2>9, <2>10
<1>6. Right(n)
  <2> HIDE DEF Good, Right
  <2>1. Nat \subseteq Good
    BY <1>4, <1>5, Induction
  <2>2. QED BY <1>2, <2>1 DEF Good
<1>7. QED BY <1>3, <1>6

\* The latest are those with fewer newer ones than there may be.
LEMMA LatestAre ==
    ASSUME NEW S, NEW list \in Seq(S), Falling(list), \A e \in Range(list) : e.event \in Nat
    PROVE  /\ Latest(list) \in Seq(S) /\ Falling(Latest(list))
           /\ Range(Latest(list)) =
                {p \in Range(list) : Cardinality(NewerIn(Range(list), p)) < MaximumBlocks}
<1>1. PICK n, most : n = Len(list) /\ most = MaximumBlocks
  OBVIOUS
<1>2. n \in Nat /\ DOMAIN list = 1 .. n /\ most \in Nat
  BY <1>1, SmcAssumption
<1>3. PICK k \in Nat : /\ k = Min({MaximumBlocks, Len(list)}) /\ k <= n
                       /\ \A m \in 1 .. n : m <= k <=> m - 1 < most
  <2>1. {most, n} \in SUBSET Nat /\ {most, n} # {}
    BY <1>2
  <2>2. Min({most, n}) \in {most, n} /\ \A t \in {most, n} : Min({most, n}) <= t
    BY <2>1, MinIsLeast
  <2>3. PICK k : k = Min({most, n})
    OBVIOUS
  <2>4. k \in {most, n} /\ k <= most /\ k <= n
    BY <2>2, <2>3
  <2>5. \A m \in 1 .. n : m <= k <=> m - 1 < most
    BY <1>2, <2>4
  <2>6. QED BY <1>1, <1>2, <2>3, <2>4, <2>5
<1>4. PICK t : t = Latest(list)
  OBVIOUS
<1>5. /\ t \in Seq(S) /\ DOMAIN t = 1 .. k /\ \A i \in 1 .. k : t[i] = list[i]
  <2>1. t = SubSeq(list, 1, k)
    BY <1>3, <1>4 DEF Latest
  <2>2. \A i \in 1 .. k : i \in 1 .. n /\ list[i] \in S
    BY <1>1, <1>2, <1>3
  <2>3. t \in Seq(S) /\ Len(t) = k /\ \A i \in 1 .. k : t[i] = list[i]
    <3>1. SubSeq(list, 1, k) = [i \in 1 .. k |-> list[i]]
      BY <1>1, <1>3
    <3>2. [i \in 1 .. k |-> list[i]] \in Seq(S)
      BY <2>2
    <3>3. QED BY <2>1, <3>1, <3>2
  <2>4. QED BY <2>3
<1>6. Falling(t)
  <2>1. \A i \in 1 .. k : i \in DOMAIN list
    BY <1>2, <1>3
  <2>2. QED BY <1>5, <2>1 DEF Falling
<1>7. PICK R : R = Range(list)
  OBVIOUS
<1>8. \A m \in DOMAIN list : Cardinality(NewerIn(R, list[m])) = m - 1
  BY <1>7, PlaceIs
<1>9. ASSUME NEW p \in Range(t) PROVE p \in R /\ Cardinality(NewerIn(R, p)) < most
  <2>1. PICK m \in 1 .. k : p = list[m]
    BY <1>5 DEF Range
  <2>2. m \in DOMAIN list /\ m <= k /\ m \in 1 .. n
    BY <1>2, <1>3
  <2>3. m - 1 < most
    BY <1>3, <2>2
  <2>4. QED BY <1>7, <1>8, <2>1, <2>2, <2>3 DEF Range
<1>10. ASSUME NEW p \in R, Cardinality(NewerIn(R, p)) < most PROVE p \in Range(t)
  <2>1. PICK m \in DOMAIN list : p = list[m]
    BY <1>7 DEF Range
  <2>2. m - 1 < most
    BY <1>8, <1>10, <2>1
  <2>3. m \in 1 .. n
    BY <1>2
  <2>5. m <= k
    BY <1>3, <2>2, <2>3
  <2>6. m \in 1 .. k
    BY <2>3, <2>5
  <2>4. QED BY <1>5, <2>1, <2>6 DEF Range
<1>11. QED BY <1>1, <1>4, <1>5, <1>6, <1>7, <1>9, <1>10

-----------------------------------------------------------------------------
(* The block that a break makes.                                            *)

\* Among finitely many values one reaches furthest.
LEMMA FurthestExists ==
    ASSUME NEW kind \in Kinds, NEW first \in Nat, NEW last \in Nat, first <= last,
           NEW v, \A j \in first .. last : v[j] \in Nat
    PROVE  \E i \in first .. last : \A j \in first .. last : ~Beyond(kind, v[j], v[i])
<1> DEFINE Found(m) == \E i \in first .. first + m :
                            \A j \in first .. first + m : ~Beyond(kind, v[j], v[i])
           Good == {m \in Nat : first + m <= last => Found(m)}
<1>1. 0 \in Good
  BY BeyondIs
<1>2. ASSUME NEW m \in Nat, m \in Good PROVE m + 1 \in Good
  <2>1. SUFFICES ASSUME first + (m + 1) <= last PROVE Found(m + 1)
    OBVIOUS
  <2>2. PICK k : k = first + m
    OBVIOUS
  <2>3. k \in Nat /\ first <= k /\ k + 1 = first + (m + 1) /\ k + 1 <= last
    BY <2>1, <2>2
  <2>4. PICK i \in first .. k : \A j \in first .. k : ~Beyond(kind, v[j], v[i])
    BY <1>2, <2>2, <2>3
  <2>5. first .. k + 1 = (first .. k) \cup {k + 1}
    BY <2>3
  <2>6. /\ \A j \in first .. k : v[j] \in Nat
        /\ v[k + 1] \in Nat /\ v[i] \in Nat
    BY <2>3
  <2>7. CASE Beyond(kind, v[k + 1], v[i])
    <3>1. \A j \in first .. k : ~Beyond(kind, v[j], v[k + 1])
      <4>1. ASSUME NEW j \in first .. k, Beyond(kind, v[j], v[k + 1]) PROVE FALSE
        <5>1. PICK x, y, z : x = v[j] /\ y = v[k + 1] /\ z = v[i]
          OBVIOUS
        <5>2. x \in Nat /\ y \in Nat /\ z \in Nat
          BY <2>6, <5>1
        <5>3. Beyond(kind, x, z)
          BY <2>7, <4>1, <5>1, <5>2, BeyondIs
        <5>4. QED BY <2>4, <5>1, <5>3
      <4>2. QED BY <4>1
    <3>2. ~Beyond(kind, v[k + 1], v[k + 1])
      BY <2>6, BeyondIs
    <3>3. \A j \in first .. k + 1 : ~Beyond(kind, v[j], v[k + 1])
      BY <2>5, <3>1, <3>2
    <3>4. k + 1 \in first .. k + 1
      BY <2>3
    <3>5. QED BY <2>3, <3>3, <3>4
  <2>8. CASE ~Beyond(kind, v[k + 1], v[i])
    BY <2>4, <2>5, <2>8, <2>3
  <2>9. QED BY <2>7, <2>8
<1>3. PICK m \in Nat : first + m = last
  OBVIOUS
<1>4. Found(m)
  <2> HIDE DEF Good, Found
  <2>1. Nat \subseteq Good
    BY <1>1, <1>2, Induction
  <2>2. first + m <= last
    BY <1>3
  <2>3. QED BY <2>1, <2>2 DEF Good
<1>5. QED BY <1>3, <1>4

\* The source that the scan chooses is the first of the furthest.
LEMMA FirstFurthest ==
    ASSUME NEW kind \in Kinds, NEW first \in Nat, NEW last \in Nat, first <= last,
           NEW v, \A j \in first .. last : v[j] \in Nat
    PROVE  /\ Min(FurthestOf(kind, v, first, last)) \in first .. last
           /\ (CHOOSE i \in first .. last : IsSource(kind, v, first, last, i))
                = Min(FurthestOf(kind, v, first, last))
<1>1. PICK F : F = FurthestOf(kind, v, first, last)
  OBVIOUS
<1>2. F # {}
  BY FurthestExists, <1>1 DEF FurthestOf
<1>3. F \in SUBSET Nat
  BY <1>1 DEF FurthestOf
<1>4. PICK m : m = Min(F)
  OBVIOUS
<1>5. m \in F /\ \A t \in F : m <= t
  BY <1>2, <1>3, <1>4, MinIsLeast
<1>6. m \in first .. last /\ \A j \in first .. last : ~Beyond(kind, v[j], v[m])
  BY <1>1, <1>5 DEF FurthestOf
<1>7. IsSource(kind, v, first, last, m)
  <2>1. ASSUME NEW j \in first .. last, v[j] = v[m] PROVE m <= j
    <3>1. j \in F
      BY <1>1, <1>6, <2>1 DEF FurthestOf
    <3>2. QED BY <1>5, <3>1
  <2>2. QED BY <1>6, <2>1 DEF IsSource
<1>8. ASSUME NEW i \in first .. last, IsSource(kind, v, first, last, i) PROVE i = m
  <2>1. ~Beyond(kind, v[m], v[i]) /\ (v[m] = v[i] => i <= m)
    BY <1>6, <1>8 DEF IsSource
  <2>2. ~Beyond(kind, v[i], v[m])
    BY <1>6
  <2>3. v[i] \in Nat /\ v[m] \in Nat
    BY <1>6
  <2>4. v[m] = v[i]
    BY <2>1, <2>2, <2>3, BeyondIs
  <2>5. m <= i
    BY <1>7, <2>4 DEF IsSource
  <2>6. QED BY <1>6, <2>1, <2>4, <2>5
<1>9. QED BY <1>1, <1>4, <1>6, <1>7, <1>8

\* How far each bar of a history reaches, and how far it still reaches later.
LEMMA ParsedIs ==
    ASSUME NEW b \in Seq(Candles), NEW kind \in Kinds, NEW i \in 1 .. Len(b)
    PROVE  Parsed(kind, b, i) \in Nat
<1>1. b[i] \in Candles
  OBVIOUS
<1>2. PICK kd \in Kinds : Parsed(kind, b, i) = Extreme(kd, b[i])
  <2>1. Opposite(kind) \in Kinds
    BY OppositeKinds
  <2>2. PICK volatile \in BOOLEAN : volatile <=> Volatile(b, i)
    OBVIOUS
  <2>3. Parsed(kind, b, i) = Extreme(IF volatile THEN Opposite(kind) ELSE kind, b[i])
    BY <2>2 DEF Parsed
  <2>4. QED BY <2>1, <2>3
<1>3. QED BY <1>1, <1>2, ExtremeIs

LEMMA ParsedStays ==
    ASSUME BarsOK, ReadsBar, NEW kind, NEW i \in 1 .. Now
    PROVE  Parsed(kind, bars', i) = Parsed(kind, bars, i)
<1>1. bars'[i] = bars[i] /\ i \in 0 .. Now
  BY Grows
<1>2. SubSeq(bars', 1, i) = SubSeq(bars, 1, i)
  <2>1. 1 \in Nat \ {0}
    OBVIOUS
  <2>2. QED BY <1>1, <2>1, SeenAgain
<1>3. Volatile(bars', i) <=> Volatile(bars, i)
  BY <1>1, <1>2 DEF Volatile
<1>4. QED BY <1>1, <1>3 DEF Parsed

LEMMA BlockStays ==
    ASSUME BarsOK, ReadsBar, NEW q, IsBreak(q, Now + 1)
    PROVE  BlockOf(q)' = BlockOf(q)
<1>1. PICK first, last, against, b :
        /\ first = q.turn - BlockSize /\ last = q.at - 1 /\ against = Opposite(q.kind)
        /\ b = bars'
  OBVIOUS
<1>2. /\ first \in Nat /\ last \in Nat /\ first <= last
      /\ first .. last \subseteq 1 .. Now /\ Now \in Nat
  <2>1. Now \in Nat /\ BlockSize \in Nat \ {0}
    BY Grows, SmcAssumption
  <2>2. QED BY <1>1, <2>1 DEF IsBreak
<1>3. against \in Kinds /\ bars \in Seq(Candles)
  BY <1>1, OppositeKinds DEF IsBreak, BarsOK
<1>4. PICK v : v = [j \in first .. last |-> Parsed(against, bars, j)]
  OBVIOUS
<1>5. \A j \in first .. last : v[j] \in Nat
  <2>1. ASSUME NEW j \in first .. last PROVE v[j] \in Nat
    BY <1>2, <1>3, ParsedIs, <1>4 DEF Now
  <2>2. QED BY <2>1
<1>6. \A kind : \A j \in first .. last : Parsed(kind, b, j) = Parsed(kind, bars, j)
  BY <1>1, <1>2, ParsedStays
<1>7. PICK F : F = FurthestOf(against, v, first, last)
  OBVIOUS
<1>8. /\ F = {i \in first .. last : \A j \in first .. last :
                ~Beyond(against, Parsed(against, bars, j), Parsed(against, bars, i))}
      /\ F = {i \in first .. last : \A j \in first .. last :
                ~Beyond(against, Parsed(against, b, j), Parsed(against, b, i))}
  BY <1>4, <1>6, <1>7 DEF FurthestOf
<1>9. Min(F) \in first .. last
  BY <1>2, <1>3, <1>5, <1>7, FirstFurthest
<1>10. PICK source : source = Min(F)
  OBVIOUS
<1>11. \A kind : Parsed(kind, b, source) = Parsed(kind, bars, source)
  BY <1>6, <1>9, <1>10
<1>12. BlockOf(q) = [upper |-> Parsed("HIGH", bars, source), lower |-> Parsed("LOW", bars, source),
                     direction |-> Upward(q.kind), event |-> q.at, source |-> source]
  BY <1>1, <1>8, <1>10 DEF BlockOf
<1>13. BlockOf(q)' = [upper |-> Parsed("HIGH", b, source), lower |-> Parsed("LOW", b, source),
                      direction |-> Upward(q.kind), event |-> q.at, source |-> source]
  BY <1>1, <1>8, <1>10 DEF BlockOf
<1>14. QED BY <1>11, <1>12, <1>13

\* The scan makes the block of the break.
LEMMA BlockIs ==
    ASSUME BarsOK, ReadsBar, NEW q, IsBreak(q, Now + 1), q.at = Now + 1,
           NEW p, p.index = q.turn - BlockSize
    PROVE  Block(q.kind, bars', p) = BlockOf(q)'
<1>1. PICK first, last, against, b, n :
        /\ first = q.turn - BlockSize /\ last = q.at - 1 /\ against = Opposite(q.kind)
        /\ b = bars' /\ n = Now
  OBVIOUS
<1>2. /\ first \in Nat /\ last \in Nat /\ first <= last /\ n \in Nat
      /\ first .. last \subseteq 1 .. n /\ Len(b) = n + 1 /\ b \in Seq(Candles)
      /\ Len(b) - 1 = last /\ q.at = Len(b)
  <2>1. n \in Nat /\ BlockSize \in Nat \ {0} /\ Len(b) = n + 1 /\ b \in Seq(Candles)
    BY <1>1, Grows, SmcAssumption DEF Now
  <2>2. q.turn \in BlockSize + 1 .. n + 1 /\ q.at = n + 1
    BY <1>1 DEF IsBreak
  <2>3. QED BY <1>1, <2>1, <2>2
<1>3. against \in Kinds
  BY <1>1, OppositeKinds DEF IsBreak
<1>4. PICK v : v = [j \in first .. last |-> Parsed(against, b, j)]
  OBVIOUS
<1>5. \A j \in first .. last : v[j] \in Nat
  <2>1. ASSUME NEW j \in first .. last PROVE v[j] \in Nat
    <3>1. j \in 1 .. Len(b)
      BY <1>2
    <3>2. Parsed(against, b, j) \in Nat
      BY <1>2, <1>3, <3>1, ParsedIs
    <3>3. QED BY <1>4, <3>2
  <2>2. QED BY <2>1
<1>6. PICK F : F = FurthestOf(against, v, first, last)
  OBVIOUS
<1>7. F = {i \in first .. last : \A j \in first .. last :
             ~Beyond(against, Parsed(against, b, j), Parsed(against, b, i))}
  BY <1>4, <1>6 DEF FurthestOf
<1>8. (CHOOSE i \in first .. last : IsSource(against, v, first, last, i)) = Min(F)
  BY <1>2, <1>3, <1>5, <1>6, FirstFurthest
<1>9. PICK source : source = Min(F)
  OBVIOUS
<1>10. Source(q.kind, b, p.index) = source
  <2>1. \A i \in first .. last : IsSource(against, v, first, last, i) <=>
          \A j \in first .. last :
            /\ ~Beyond(against, Parsed(against, b, j), Parsed(against, b, i))
            /\ Parsed(against, b, j) = Parsed(against, b, i) => i <= j
    BY <1>4 DEF IsSource
  <2>2. Source(q.kind, b, p.index) =
          CHOOSE i \in first .. last : \A j \in first .. last :
            /\ ~Beyond(against, Parsed(against, b, j), Parsed(against, b, i))
            /\ Parsed(against, b, j) = Parsed(against, b, i) => i <= j
    BY <1>1, <1>2 DEF Source
  <2>3. Source(q.kind, b, p.index) =
          CHOOSE i \in first .. last : IsSource(against, v, first, last, i)
    BY <2>1, <2>2
  <2>4. QED BY <1>8, <1>9, <2>3
<1>11. Block(q.kind, b, p) =
         [upper |-> Parsed("HIGH", b, source), lower |-> Parsed("LOW", b, source),
          direction |-> Upward(q.kind), event |-> q.at, source |-> source]
  BY <1>2, <1>10 DEF Block
<1>12. BlockOf(q)' = [upper |-> Parsed("HIGH", b, source), lower |-> Parsed("LOW", b, source),
                      direction |-> Upward(q.kind), event |-> q.at, source |-> source]
  BY <1>1, <1>7, <1>9 DEF BlockOf
<1>13. QED BY <1>1, <1>11, <1>12

-----------------------------------------------------------------------------
(* Which of the blocks made are active.                                     *)

\* The next bar leaves of the active blocks and the new one those that it does not go
\* through, and of these the latest.
LEMMA ActiveGrows ==
    ASSUME BarsOK, ReadsBar, NEW M, IsFiniteSet(M), \A p \in M : p.event \in 1 .. Now,
           NEW n, n = Now + 1, NEW c, c = bars'[n], NEW X, MadeAt(X, n),
           NEW C, C = {p \in X \cup ActiveOf(M, Now) : ~Mitigates(p, c)}
    PROVE  ActiveOf(M \cup X, n)' = {p \in C : Cardinality(NewerIn(C, p)) < MaximumBlocks}
<1>1. PICK m, A, N : m = Now /\ A = ActiveOf(M, Now) /\ N = M \cup X
  OBVIOUS
<1>2. m \in Nat /\ n = m + 1 /\ n \in Nat /\ \A j \in 1 .. m : bars'[j] = bars[j]
  BY <1>1, Grows
<1>3. bars'[n] = c
  BY <1>1
<1>4. \A p \in X : p.event = n
  BY DEF MadeAt
<1>5. \A p \in M : p.event \in 1 .. m
  BY <1>1
<1> DEFINE Old(p, k) == UnmitigatedUntil(p, k)
           New(p, k) == UnmitigatedUntil(p, k)'
           NewerWas(p, k) == NewerAt(M, p, k)
           NewerIs(p, k) == NewerAt(N, p, k)'
<1>6. \A p \in M : \A k \in 0 .. m : New(p, k) <=> Old(p, k)
  <2>1. ASSUME NEW p \in M, NEW k \in 0 .. m PROVE New(p, k) <=> Old(p, k)
    BY <1>2, <1>5 DEF UnmitigatedUntil
  <2>2. QED BY <2>1
<1>7. \A p \in M : New(p, n) <=> Old(p, m) /\ ~Mitigates(p, c)
  <2>1. ASSUME NEW p \in M PROVE New(p, n) <=> Old(p, m) /\ ~Mitigates(p, c)
    BY <1>2, <1>5, <1>3, <1>6 DEF UnmitigatedUntil
  <2>2. QED BY <2>1
<1>8. \A p \in X : New(p, n) <=> ~Mitigates(p, c)
  <2>1. ASSUME NEW p \in X PROVE New(p, n) <=> ~Mitigates(p, c)
    <3>1. p.event .. n = {n}
      BY <1>2, <1>4
    <3>2. QED BY <1>3, <3>1 DEF UnmitigatedUntil
  <2>2. QED BY <2>1
<1>9. \A p \in M : \A k \in 0 .. m : NewerIs(p, k) = NewerWas(p, k)
  <2>1. ASSUME NEW p \in M, NEW k \in 0 .. m PROVE NewerIs(p, k) = NewerWas(p, k)
    <3>1. NewerIs(p, k) = {o \in N : p.event < o.event /\ o.event <= k /\ New(o, k)}
      BY DEF NewerAt
    <3>2. NewerWas(p, k) = {o \in M : p.event < o.event /\ o.event <= k /\ Old(o, k)}
      BY DEF NewerAt
    <3>3. \A o \in X : ~(o.event <= k)
      BY <1>2, <1>4
    <3> HIDE DEF NewerIs, NewerWas, Old, New
    <3>4. QED BY <1>1, <1>6, <3>1, <3>2, <3>3
  <2>2. QED BY <2>1
<1>10. \A p \in N : NewerIs(p, n) = {o \in N : p.event < o.event /\ New(o, n)}
  <2>1. \A p : NewerIs(p, n) = {o \in N : p.event < o.event /\ o.event <= n /\ New(o, n)}
    BY DEF NewerAt
  <2>2. \A o \in N : o.event <= n
    BY <1>1, <1>2, <1>4, <1>5
  <2> HIDE DEF NewerIs, New
  <2>3. QED BY <2>1, <2>2
<1>11. /\ A = {p \in M : /\ Old(p, m)
                         /\ \A k \in p.event .. m : Cardinality(NewerWas(p, k)) < MaximumBlocks}
       /\ ActiveOf(N, n)' =
            {p \in N : /\ New(p, n)
                       /\ \A k \in p.event .. n : Cardinality(NewerIs(p, k)) < MaximumBlocks}
  BY <1>1 DEF ActiveOf
<1>12. C = {p \in X \cup A : ~Mitigates(p, c)}
  BY <1>1
<1>13. ASSUME NEW p, NEW k PROVE IsFiniteSet(NewerWas(p, k))
  <2>1. NewerWas(p, k) \in SUBSET M
    BY DEF NewerAt
  <2> HIDE DEF NewerWas
  <2>2. QED BY <2>1, FS_Subset
<1>15. ASSUME NEW p \in A, NEW o \in M, p.event < o.event, Old(o, m)
       PROVE  o \in A
  <2>1. ASSUME NEW k \in o.event .. m PROVE Cardinality(NewerWas(o, k)) < MaximumBlocks
    <3>1. p \in M /\ k \in p.event .. m
      BY <1>2, <1>5, <1>11, <1>15
    <3>2. Cardinality(NewerWas(p, k)) < MaximumBlocks
      BY <1>11, <3>1
    <3>3. NewerWas(o, k) \in SUBSET NewerWas(p, k)
      <4>1. ASSUME NEW z \in M, o.event < z.event PROVE p.event < z.event
        BY <1>5, <1>15, <3>1, <4>1
      <4>2. QED BY <4>1 DEF NewerAt
    <3>4. IsFiniteSet(NewerWas(p, k))
      BY <1>13
    <3> HIDE DEF NewerWas
    <3>5. /\ Cardinality(NewerWas(o, k)) <= Cardinality(NewerWas(p, k))
          /\ IsFiniteSet(NewerWas(o, k))
      BY <3>3, <3>4, FS_Subset
    <3>6. Cardinality(NewerWas(o, k)) \in Nat /\ Cardinality(NewerWas(p, k)) \in Nat
      BY <3>4, <3>5, FS_CardinalityType
    <3>7. MaximumBlocks \in Nat
      BY SmcAssumption
    <3>8. QED BY <3>2, <3>5, <3>6, <3>7
  <2> HIDE DEF NewerWas, Old
  <2>2. QED BY <1>11, <1>15, <2>1
<1> HIDE DEF Old, New, NewerWas, NewerIs
<1>16. C \subseteq N /\ \A o \in C : New(o, n)
  BY <1>1, <1>7, <1>8, <1>11, <1>12
<1>17. ASSUME NEW p \in C PROVE NewerIs(p, n) = NewerIn(C, p)
  <2>1. p \in N
    BY <1>16
  <2>2. ASSUME NEW o \in N, p.event < o.event, New(o, n) PROVE o \in C
    <3>1. CASE o \in X
      BY <1>8, <1>12, <2>2, <3>1
    <3>2. CASE o \in M
      <4>1. p \in A
        <5>1. p \notin X
          BY <1>5, <3>2, <1>2, <1>4, <2>2
        <5>2. QED BY <1>12, <5>1
      <4>2. Old(o, m) /\ ~Mitigates(o, c)
        BY <1>7, <2>2, <3>2
      <4>3. o \in A
        BY <1>15, <2>2, <3>2, <4>1, <4>2
      <4>4. QED BY <1>12, <4>2, <4>3
    <3>3. QED BY <1>1, <3>1, <3>2
  <2>3. NewerIs(p, n) = {o \in N : p.event < o.event /\ New(o, n)}
    BY <1>10, <2>1
  <2>4. QED BY <1>16, <2>2, <2>3 DEF NewerIn
<1>18. ASSUME NEW p \in N
       PROVE  p \in ActiveOf(N, n)' <=> p \in C /\ Cardinality(NewerIs(p, n)) < MaximumBlocks
  <2>1. p \in ActiveOf(N, n)' <=>
          New(p, n) /\ \A k \in p.event .. n : Cardinality(NewerIs(p, k)) < MaximumBlocks
    BY <1>11
  <2>2. CASE p \in M
    <3>1. p.event .. n = (p.event .. m) \cup {n} /\ \A k \in p.event .. m : k \in 0 .. m
      BY <1>2, <1>5, <2>2
    <3>2. \A k \in p.event .. m : NewerIs(p, k) = NewerWas(p, k)
      BY <1>9, <2>2, <3>1
    <3>3. New(p, n) <=> Old(p, m) /\ ~Mitigates(p, c)
      BY <1>7, <2>2
    <3>4. p \in A <=> Old(p, m) /\ \A k \in p.event .. m : Cardinality(NewerWas(p, k)) < MaximumBlocks
      BY <1>11, <2>2
    <3>5. p \notin X
      BY <1>2, <1>4, <1>5, <2>2
    <3>6. p \in C <=> p \in A /\ ~Mitigates(p, c)
      BY <1>12, <3>5
    <3>7. QED BY <2>1, <3>1, <3>2, <3>3, <3>4, <3>6
  <2>3. CASE p \in X
    BY <1>2, <1>4, <2>3, <1>12, <1>8, <2>1
  <2>4. QED BY <1>1, <2>2, <2>3
<1>19. ActiveOf(N, n)' \subseteq N
  BY <1>11
<1>20. ActiveOf(N, n)' = {p \in C : Cardinality(NewerIn(C, p)) < MaximumBlocks}
  BY <1>16, <1>17, <1>18, <1>19
<1>21. QED BY <1>1, <1>20

-----------------------------------------------------------------------------
(* The scan of the order blocks.                                            *)

LEMMA BlocksAre ==
    ASSUME ListsInv, NEW b, BlockBar(b), NEW t, t = Confirmed(b, BlockSize, blocks)
    PROVE  /\ IsBlocks(t) /\ blocks'.leg = t.leg
           /\ blocks'.pivot = CrossOff(t, Broken(b, t)).pivot
           /\ blocks'.active =
                Latest(Unmitigated(
                  SetToSeq({Block(kind, b, t.pivot[kind]) : kind \in Broken(b, t)})
                    \o blocks.active, b[Len(b)]))
<1>1. IsBlocks(t) /\ t.active = blocks.active
  BY ConfirmedKeeps DEF ListsInv
<1>2. PICK off, new :
        /\ off = CrossOff(t, Broken(b, t))
        /\ new = SetToSeq({Block(kind, b, t.pivot[kind]) : kind \in Broken(b, t)})
  OBVIOUS
<1>3. IsBlocks(off) /\ off.active = blocks.active /\ off.leg = t.leg
  BY <1>1, <1>2 DEF CrossOff, IsBlocks
<1>4. blocks' = [off EXCEPT !.active = Latest(Unmitigated(new \o @, b[Len(b)]))]
  BY <1>2 DEF BlockBar
<1>5. /\ blocks'.leg = t.leg /\ blocks'.pivot = off.pivot
      /\ blocks'.active = Latest(Unmitigated(new \o blocks.active, b[Len(b)]))
  BY <1>3, <1>4 DEF IsBlocks
<1>6. QED BY <1>1, <1>2, <1>5

\* A bar makes the block of its break.
LEMMA MadeGrows ==
    ASSUME BarsOK, ReadsBar, BreaksOK, NEW s, IsTurning(s), IsBlocks(s), LegOK(s, BlockSize),
           NEW t, t = Confirmed(bars', BlockSize, s), IsTurning(t),
           NEW X, X = {Block(kind, bars', t.pivot[kind]) : kind \in Broken(bars', t)}
    PROVE  MadeAt(X, Now + 1) /\ Made' = Made \cup X /\ BreaksOK'
<1>1. PICK n, b, B, C, broken :
        /\ n = Now /\ b = bars' /\ B = BreaksOf(BlockSize) /\ C = BreaksOf(BlockSize)'
        /\ broken = Broken(bars', t)
  OBVIOUS
<1>2. n \in Nat /\ Now' = n + 1 /\ Len(b) = n + 1 /\ BlockSize \in Nat \ {0}
  BY <1>1, Grows, SmcAssumption DEF Now
<1>3. \A q \in B : IsBreak(q, n) /\ IsBreak(q, n + 1)
  BY <1>1, <1>2 DEF BreaksOK, IsBreak
<1>4. \A q : IsBreak(q, n + 1) => BlockOf(q)' = BlockOf(q)
  BY <1>1, BlockStays
<1>5. Made = {BlockOf(q) : q \in B} /\ Made' = {BlockOf(q)' : q \in C}
  BY <1>1 DEF Made
<1>6. BreaksOK' <=> \A q \in C : IsBreak(q, n + 1)
  BY <1>1, <1>2 DEF BreaksOK, IsBreak
<1>7. \/ broken = {} /\ C = B
      \/ \E q : /\ q.kind \in Kinds /\ broken = {q.kind}
                /\ q.turn \in BlockSize + 1 .. n /\ q.at = n + 1
                /\ t.pivot[q.kind].index = q.turn - BlockSize
                /\ C = B \cup {q}
  BY <1>1, <1>2, BreakOfBar
<1>8. CASE broken = {} /\ C = B
  BY <1>1, <1>8, <1>3, <1>4, <1>5, <1>6 DEF MadeAt
<1>9. ASSUME NEW q, q.kind \in Kinds, broken = {q.kind}, q.turn \in BlockSize + 1 .. n,
             q.at = n + 1, t.pivot[q.kind].index = q.turn - BlockSize, C = B \cup {q}
      PROVE  /\ \E x : X = {x} /\ x.event = n + 1
             /\ Made' = Made \cup X /\ BreaksOK'
  <2>1. PICK kind, p, x : kind = q.kind /\ p = t.pivot[kind] /\ x = Block(kind, b, p)
    OBVIOUS
  <2>2. IsBreak(q, n + 1)
    BY <1>2, <1>9 DEF IsBreak
  <2>3. X = {x}
    BY <1>1, <1>9, <2>1
  <2>4. x.event = n + 1
    BY <1>2, <2>1 DEF Block
  <2>5. BlockOf(q)' = x
    BY <1>1, <1>9, <2>1, <2>2, BlockIs
  <2>6. Made' = Made \cup {x}
    BY <1>3, <1>4, <1>5, <1>9, <2>5
  <2>7. BreaksOK'
    BY <1>3, <1>6, <1>9, <2>2
  <2>8. QED BY <2>3, <2>4, <2>6, <2>7
<1>10. QED BY <1>1, <1>7, <1>8, <1>9 DEF MadeAt

LEMMA BlocksNext ==
    ASSUME BarsOK, ReadsBar, ListsInv, BlocksInv, BlockBar(bars')
    PROVE  BlocksInv'
<1>1. PICK b, n, s, t, broken, c :
        /\ b = bars' /\ n = Now /\ s = blocks /\ t = Confirmed(b, BlockSize, s)
        /\ broken = Broken(b, t) /\ c = b[n + 1]
  OBVIOUS
<1>2. n \in Nat /\ Now' = n + 1 /\ Len(b) = n + 1 /\ BlockSize \in Nat \ {0}
  BY <1>1, Grows, SmcAssumption DEF Now
<1>3. PICK X, M, N, old, new :
        /\ X = {Block(kind, b, t.pivot[kind]) : kind \in broken} /\ M = Made /\ N = Made'
        /\ old = s.active /\ new = blocks'.active
  OBVIOUS
<1>4. /\ IsBlocks(t) /\ blocks'.leg = t.leg /\ blocks'.pivot = CrossOff(t, broken).pivot
      /\ new = Latest(Unmitigated(SetToSeq(X) \o old, c))
  <2>1. t = Confirmed(b, BlockSize, blocks) /\ BlockBar(b) /\ b[Len(b)] = c
    BY <1>1, <1>2
  <2>2. IsBlocks(t) /\ blocks'.leg = t.leg /\ blocks'.pivot = CrossOff(t, Broken(b, t)).pivot
    BY <2>1, BlocksAre
  <2>3. blocks'.active =
          Latest(Unmitigated(
            SetToSeq({Block(kind, b, t.pivot[kind]) : kind \in Broken(b, t)})
              \o blocks.active, b[Len(b)]))
    BY <2>1, BlocksAre
  <2>4. QED BY <1>1, <1>3, <2>1, <2>2, <2>3
<1>5. /\ IsTurning(s) /\ IsBlocks(s) /\ LegOK(s, BlockSize) /\ BreaksOK /\ IsFiniteSet(M)
      /\ Falling(old) /\ Range(old) = ActiveOf(M, n) /\ IsList(old)
  BY <1>1, <1>3 DEF BlocksInv, ListsInv
<1>6. IsTurning(t)
  BY <1>2, <1>1, <1>5, ConfirmedTurns
<1>7. LegOK(blocks, BlockSize)' /\ IsTurning(blocks)'
  <2>1. PICK r, f : r = blocks' /\ f = blocks'.pivot
    OBVIOUS
  <2>2. f = CrossOff(t, Broken(b, t)).pivot /\ t.pivot = [kd \in Kinds |-> t.pivot[kd]]
    BY <1>1, <1>4, <1>6, <2>1 DEF IsTurning
  <2>3. ASSUME NEW kind \in Kinds
        PROVE  /\ LegTells(t.leg, BlockSize)'
               /\ Follows(f[kind], kind, BlockSize)' /\ CrossedTells(f[kind], kind, BlockSize)'
    <3>1. PICK T, U, p :
            /\ T = Turns(kind, BlockSize) /\ U = Turns(kind, BlockSize)'
            /\ p = CrossedBy(kind, bars', t.pivot[kind])
      OBVIOUS
    <3>2. LegTells(t.leg, BlockSize)'
          /\ Follows(p, kind, BlockSize)' /\ CrossedTells(p, kind, BlockSize)'
      BY <1>1, <1>2, <1>5, <3>1, LegNext
    <3>3. f[kind] = p
      BY <1>1, <1>4, <2>2, <3>1, CrossedOff
    <3>4. QED BY <3>2, <3>3
  <2>4. "HIGH" \in Kinds
    BY DEF Kinds
  <2>5. LegOK(r, BlockSize)'
    BY <1>4, <2>1, <2>3, <2>4 DEF LegOK
  <2>6. f = [kind \in Kinds |-> f[kind]]
    <3>1. PICK g : g = [kind \in Kinds |->
             IF kind \in broken THEN [t.pivot[kind] EXCEPT !.crossed = TRUE]
             ELSE t.pivot[kind]]
      OBVIOUS
    <3>2. CrossOff(t, broken) = [t EXCEPT !.pivot = g]
      BY <3>1 DEF CrossOff
    <3>3. f = g
      BY <1>4, <2>1, <3>2 DEF IsBlocks
    <3>4. QED BY <3>1, <3>3
  <2>7. r.leg \in Kinds
    BY <1>4, <1>6, <2>1 DEF IsTurning
  <2>8. IsTurning(r)
    BY <2>1, <2>6, <2>7 DEF IsTurning
  <2>9. IsTurning(blocks)'
    BY <2>1, <2>8 DEF IsTurning
  <2>10. LegOK(blocks, BlockSize)'
    BY <2>1, <2>5
  <2>11. QED BY <2>9, <2>10
<1>8. /\ X = {} \/ \E x : X = {x} /\ x.event = n + 1
      /\ MadeAt(X, n + 1) /\ N = M \cup X /\ BreaksOK'
  <2>1. t = Confirmed(bars', BlockSize, s)
    BY <1>1
  <2>2. X = {Block(kind, bars', t.pivot[kind]) : kind \in Broken(bars', t)}
    BY <1>1, <1>3
  <2>3. MadeAt(X, Now + 1)
    BY <1>5, <1>6, <2>1, <2>2, MadeGrows
  <2>4. Made' = Made \cup X
    BY <1>5, <1>6, <2>1, <2>2, MadeGrows
  <2>5. BreaksOK'
    BY <1>5, <1>6, <2>1, <2>2, MadeGrows
  <2>6. MadeAt(X, n + 1)
    BY <1>1, <2>3
  <2>7. QED BY <1>3, <2>4, <2>5, <2>6 DEF MadeAt
<1>9. IsFiniteSet(N)
  <2>1. CASE X = {}
    BY <1>5, <1>8, <2>1
  <2>2. ASSUME NEW x, X = {x} PROVE IsFiniteSet(N)
    <3>1. IsFiniteSet(M \cup {x})
      BY <1>5, FS_AddElement
    <3>2. QED BY <1>8, <2>2, <3>1
  <2>3. QED BY <1>8, <2>1, <2>2
<1>10. \A p \in M : p.event \in 1 .. n
  <2>1. ASSUME NEW p \in M PROVE p.event \in 1 .. n
    <3>1. PICK q \in BreaksOf(BlockSize) : p = BlockOf(q)
      BY <1>3 DEF Made
    <3>2. IsBreak(q, n)
      BY <1>1, <1>5 DEF BreaksOK
    <3>3. p.event = q.at
      BY <3>1 DEF BlockOf
    <3>4. QED BY <3>2, <3>3 DEF IsBreak
  <2>2. QED BY <2>1
<1>11. PICK A, C : /\ A = ActiveOf(M, n)
                   /\ C = {p \in X \cup A : ~Mitigates(p, c)}
  OBVIOUS
<1>12. A \subseteq M
  BY <1>11 DEF ActiveOf
<1>13. PICK S : old \in Seq(S)
  BY <1>5 DEF IsList
<1>14. PICK list : list = SetToSeq(X) \o old
  OBVIOUS
<1>15. /\ \E T : list \in Seq(T)
       /\ Falling(list) /\ Range(list) = X \cup A
  <2>1. CASE X = {}
    <3>1. list = old
      <4>1. SetToSeq(X) = <<>>
        BY <2>1, OneIsListed
      <4>2. QED BY <1>13, <1>14, <4>1
    <3>2. QED BY <1>5, <1>11, <1>13, <2>1, <3>1
  <2>2. ASSUME NEW x, X = {x}, x.event = n + 1
        PROVE  /\ \E T : list \in Seq(T)
               /\ Falling(list) /\ Range(list) = X \cup A
    <3>1. list = <<x>> \o old
      <4>1. SetToSeq(X) = <<x>>
        BY <2>2, OneIsListed
      <4>2. QED BY <1>14, <4>1
    <3>2. \A p \in Range(old) : x.event > p.event
      BY <1>10, <1>12, <1>2, <1>5, <1>11, <2>2
    <3>3. Falling(list)
      BY <1>5, <1>13, <3>1, <3>2, NewestFirst
    <3>4. list \in Seq(S \cup {x})
      BY <1>13, <3>1, OneBefore
    <3>5. Range(list) = {x} \cup Range(old)
      BY <1>13, <3>1, OneBefore
    <3>6. QED BY <1>5, <1>11, <2>2, <3>3, <3>4, <3>5
  <2>3. QED BY <1>8, <2>1, <2>2
<1>16. PICK T : list \in Seq(T)
  BY <1>15
<1>17. PICK left : left = Unmitigated(list, c)
  OBVIOUS
<1>18. left \in Seq(T) /\ Range(left) = C /\ Falling(left)
  BY <1>16, <1>17, UnmitigatedIs, <1>15, UnmitigatedFalls, <1>11
<1>19. \A e \in Range(left) : e.event \in Nat
  BY <1>2, <1>8, <1>10, <1>12, <1>11, <1>18
<1>20. new = Latest(left)
  BY <1>4, <1>14, <1>17
<1>21. Falling(new) /\ Range(new) = {p \in C : Cardinality(NewerIn(C, p)) < MaximumBlocks}
  BY <1>18, <1>19, <1>20, LatestAre
<1>22. PICK m : m = n + 1
  OBVIOUS
<1>23. ActiveOf(M \cup X, m)' = {p \in C : Cardinality(NewerIn(C, p)) < MaximumBlocks}
  <2>1. \A p \in M : p.event \in 1 .. Now
    BY <1>1, <1>10
  <2>2. C = {p \in X \cup ActiveOf(M, Now) : ~Mitigates(p, c)}
    BY <1>1, <1>11
  <2>3. m = Now + 1 /\ c = bars'[m] /\ MadeAt(X, m) /\ IsFiniteSet(M)
    BY <1>1, <1>5, <1>8, <1>22
  <2>4. QED BY <2>1, <2>2, <2>3, ActiveGrows
<1>24. ActiveOf(Made, Now)' = ActiveOf(M \cup X, m)'
  <2>1. Made' = M \cup X /\ Now' = m
    BY <1>2, <1>3, <1>8, <1>22
  <2>2. QED BY <2>1 DEF ActiveOf
<1>25. QED BY <1>3, <1>7, <1>8, <1>9, <1>21, <1>23, <1>24 DEF BlocksInv

LEMMA BlocksInit ==
    ASSUME Unread
    PROVE  BlocksInv
<1>1. PICK pivot, none : pivot = [kind \in Kinds |-> None] /\ none = <<>>
  OBVIOUS
<1>2. bars = <<>> /\ blocks = [leg |-> "HIGH", pivot |-> pivot, active |-> none]
  BY <1>1 DEF Unread, SmcInit, NoPivots, NoBlocks
<1>3. BlockSize \in Nat \ {0} /\ Now = 0
  BY <1>2, SmcAssumption DEF Now
<1>4. "HIGH" \in Kinds /\ "LOW" \in Kinds /\ \A kind \in Kinds : pivot[kind] = None
  BY <1>1 DEF Kinds
<1>5. IsTurning(blocks)
  BY <1>1, <1>2, <1>4 DEF IsTurning
<1>6. LegOK(blocks, BlockSize)
  BY <1>2, <1>3, <1>4, NothingYet, NothingFollows DEF LegOK
<1>7. BreaksOf(BlockSize) = {}
  BY <1>2, <1>3, <1>4, NothingYet DEF BreaksOf
<1>8. Made = {} /\ BreaksOK
  BY <1>7 DEF Made, BreaksOK
<1>9. IsFiniteSet(Made) /\ ActiveOf(Made, Now) = {}
  BY <1>8, FS_EmptySet DEF ActiveOf
<1>10. DOMAIN none = {} /\ Range(none) = {} /\ Falling(none)
  BY <1>1 DEF Range, Falling
<1>11. QED BY <1>2, <1>5, <1>6, <1>8, <1>9, <1>10 DEF BlocksInv

LEMMA BlocksStay ==
    ASSUME BlocksInv, bars' = bars, blocks' = blocks
    PROVE  BlocksInv'
<1>1. PICK s, B, M : s = blocks /\ B = BreaksOf(BlockSize) /\ M = Made
  OBVIOUS
<1>2. Now' = Now /\ B = BreaksOf(BlockSize)'
  BY <1>1, HistoryTells DEF Now
<1>3. LegOK(s, BlockSize)'
  BY <1>1, HistoryTells, FollowsStays DEF BlocksInv, LegOK
<1>4. LegOK(blocks, BlockSize)'
  BY <1>1, <1>3
<1>5. IsTurning(blocks)'
  BY DEF BlocksInv, IsTurning
<1>6. BreaksOK'
  BY <1>1, <1>2 DEF BlocksInv, BreaksOK
<1>7. \A q : BlockOf(q)' = BlockOf(q)
  BY DEF BlockOf
<1>8. Made' = M
  BY <1>1, <1>2, <1>7 DEF Made
<1>9. ActiveOf(M, Now)' = ActiveOf(M, Now)
  <2>1. PICK n : n = Now /\ n = Now'
    BY <1>2
  <2>2. \A p, k : UnmitigatedUntil(p, k)' <=> UnmitigatedUntil(p, k)
    BY DEF UnmitigatedUntil
  <2>3. \A p, k : NewerAt(M, p, k)' = NewerAt(M, p, k)
    BY <2>2 DEF NewerAt
  <2>4. ActiveOf(M, n)' = ActiveOf(M, n)
    BY <2>2, <2>3 DEF ActiveOf
  <2>5. QED BY <2>1, <2>4
<1>10. ActiveOf(Made, Now)' = ActiveOf(Made, Now)
  BY <1>8, <1>1, <1>9 DEF ActiveOf
<1>11. /\ IsFiniteSet(Made) /\ Falling(s.active) /\ Range(s.active) = ActiveOf(Made, Now)
  BY <1>1 DEF BlocksInv
<1>12. IsFiniteSet(Made')
  BY <1>1, <1>8, <1>11
<1>13. /\ Falling(blocks'.active) /\ Range(blocks'.active) = ActiveOf(Made, Now)'
  BY <1>1, <1>10, <1>11
<1>14. QED BY <1>4, <1>5, <1>6, <1>12, <1>13 DEF BlocksInv

\* The active order blocks are the blocks of the breaks that no bar has gone through
\* and that were never pushed out by `maximum_blocks` newer ones, latest first.
THEOREM BlocksAreDefined == Spec => []BlocksMatchDefinition
<1>1. Init => BlocksInv
  BY AtFirst, BlocksInit
<1>2. ScanInv /\ BlocksInv /\ [Next]_vars => BlocksInv'
  <2> SUFFICES ASSUME ScanInv, BlocksInv, [Next]_vars PROVE BlocksInv'
    OBVIOUS
  <2>1. CASE NextBar
    BY <2>1, BlocksNext DEF NextBar, SmcBar, ScanInv
  <2>2. CASE UNCHANGED vars
    BY <2>2, BlocksStay DEF vars, smcVars
  <2>3. CASE Slide
    <3>1. Unread'
      BY <2>3, Restarts DEF ScanInv
    <3>2. QED BY <3>1, BlocksInit, PTL
  <2>4. QED BY <2>1, <2>2, <2>3 DEF Next
<1>3. BlocksInv => BlocksMatchDefinition
  <2> SUFFICES ASSUME BlocksInv PROVE BlocksMatchDefinition
    OBVIOUS
  <2>1. PICK made, active, list :
          /\ made = Made /\ active = ActiveOf(Made, Now) /\ list = blocks.active
    OBVIOUS
  <2>2. Range(list) = active /\ \A i, j \in DOMAIN list : i < j => list[i].event > list[j].event
    BY <2>1 DEF BlocksInv, Falling
  <2>3. made = {BlockOf(q) : q \in BreaksOf(BlockSize)}
    BY <2>1 DEF Made
  <2>4. active = {p \in made : /\ UnmitigatedUntil(p, Now)
                               /\ \A k \in p.event .. Now :
                                    Cardinality(NewerAt(made, p, k)) < MaximumBlocks}
    BY <2>1 DEF ActiveOf
  <2>5. QED BY <2>1, <2>2, <2>3, <2>4 DEF BlocksMatchDefinition
<1>4. QED BY <1>1, <1>2, <1>3, ScanHolds, PTL DEF Spec

-----------------------------------------------------------------------------
(* The points of a liquidity cluster.                                       *)

\* They are taken one after the other.
LEMMA WithinTurns ==
    ASSUME NEW points, NEW last \in Nat, NEW kind, NEW lower, NEW upper
    PROVE  \E taken : /\ Within(points, last, kind, lower, upper) = taken[last]
                      /\ Takes(taken, points, last, kind, lower, upper)
<1> DEFINE Turn(f, i) == IF i = 0 THEN <<>>
                         ELSE IF Fits(points[i], kind, lower, upper)
                         THEN Append(f[i - 1], points[i]) ELSE f[i - 1]
           Loop(f, m) == f = [i \in 0 .. m |-> Turn(f, i)]
           Reaching == {m \in Nat : \E f : Loop(f, m)}
           taken == CHOOSE f : Loop(f, last)
<1>1. 0 \in Reaching
  <2> DEFINE f == [i \in 0 .. 0 |-> <<>>]
  <2>1. \A i \in 0 .. 0 : Turn(f, i) = <<>>
    OBVIOUS
  <2> HIDE DEF Turn
  <2>2. Loop(f, 0)
    BY <2>1
  <2>3. QED BY <2>2
<1>2. ASSUME NEW m \in Nat, m \in Reaching PROVE m + 1 \in Reaching
  <2>1. PICK f : Loop(f, m)
    BY <1>2
  <2> DEFINE g == [i \in 0 .. m + 1 |-> IF i <= m THEN f[i] ELSE Turn(f, i)]
  <2>2. \A i \in 0 .. m : g[i] = f[i] /\ f[i] = Turn(f, i)
    <3>1. \A i \in 0 .. m : f[i] = Turn(f, i)
      <4> HIDE DEF Turn, g
      <4>1. QED BY <2>1
    <3>2. \A i \in 0 .. m : g[i] = f[i]
      <4> HIDE DEF Turn
      <4>1. \A i \in 0 .. m : i \in 0 .. m + 1 /\ i <= m
        OBVIOUS
      <4>2. QED BY <4>1
    <3> HIDE DEF Turn, g
    <3>3. QED BY <3>1, <3>2
  <2>3. \A i \in 0 .. m + 1 : i = 0 \/ i - 1 \in 0 .. m
    OBVIOUS
  <2>4. ASSUME NEW i \in 0 .. m + 1 PROVE g[i] = Turn(g, i)
    <3>1. Turn(g, i) = Turn(f, i)
      BY <2>2, <2>3
    <3>2. g[i] = Turn(f, i)
      <4>1. g[i] = IF i <= m THEN f[i] ELSE Turn(f, i)
        <5> HIDE DEF Turn
        <5>1. QED OBVIOUS
      <4>2. i <= m => f[i] = Turn(f, i)
        <5> HIDE DEF Turn, g
        <5>1. QED BY <2>2
      <4> HIDE DEF Turn, g
      <4>3. QED BY <4>1, <4>2
    <3>3. QED BY <3>1, <3>2
  <2>5. g = [i \in 0 .. m + 1 |-> g[i]]
    OBVIOUS
  <2> HIDE DEF g, Turn
  <2>6. Loop(g, m + 1)
    BY <2>4, <2>5
  <2>7. QED BY <2>6
<1>3. last \in Reaching
  <2> HIDE DEF Reaching
  <2>1. Nat \subseteq Reaching
    BY <1>1, <1>2, Induction
  <2>2. QED BY <2>1
<1>4. Loop(taken, last)
  <2>1. \E f : Loop(f, last)
    BY <1>3
  <2> HIDE DEF Loop
  <2>2. QED BY <2>1
<1>5. Within(points, last, kind, lower, upper) = taken[last]
  BY DEF Within, Fits
<1> HIDE DEF taken
<1>6. \A i \in 0 .. last : taken[i] = Turn(taken, i)
  <2> HIDE DEF Turn
  <2>1. QED BY <1>4
<1>7. taken[0] = <<>>
  BY <1>6
<1>8. \A i \in 1 .. last : i \in 0 .. last /\ i # 0
  OBVIOUS
<1>9. Takes(taken, points, last, kind, lower, upper)
  BY <1>6, <1>7, <1>8 DEF Takes
<1>10. QED BY <1>5, <1>9

LEMMA WithinIs ==
    ASSUME NEW P, NEW points \in Seq(P), NEW last \in 0 .. Len(points),
           \A i, j \in DOMAIN points : i < j => points[i] # points[j],
           NEW kind, NEW lower, NEW upper
    PROVE  AllFit(Within(points, last, kind, lower, upper), P, kind, lower, upper)
<1>1. PICK n : n = Len(points)
  OBVIOUS
<1>2. n \in Nat /\ last \in Nat /\ last <= n /\ DOMAIN points = 1 .. n /\ \A i \in 1 .. n : points[i] \in P
  BY <1>1
<1>3. PICK taken : /\ Within(points, last, kind, lower, upper) = taken[last]
                   /\ Takes(taken, points, last, kind, lower, upper)
  BY <1>2, WithinTurns
<1> DEFINE First(i) == {points[j] : j \in 1 .. i}
           Right(i) == /\ AllFit(taken[i], P, kind, lower, upper)
                       /\ Range(taken[i]) \subseteq First(i)
           Good == {i \in Nat : i <= last => Right(i)}
<1>4. 0 \in Good
  <2>1. taken[0] = <<>>
    BY <1>3 DEF Takes
  <2>2. <<>> \in Seq(P) /\ Range(<<>>) = {} /\ Len(<<>>) = 0
    BY DEF Range
  <2>3. AllFit(<<>>, P, kind, lower, upper)
    BY <2>2, FS_EmptySet DEF AllFit
  <2>4. QED BY <2>1, <2>2, <2>3
<1>5. ASSUME NEW i \in Nat, i \in Good PROVE i + 1 \in Good
  <2>1. SUFFICES ASSUME i + 1 <= last PROVE Right(i + 1)
    OBVIOUS
  <2>2. Right(i) /\ i + 1 \in 1 .. last /\ i + 1 \in 1 .. n /\ (i + 1) - 1 = i
    BY <1>2, <1>5, <2>1
  <2>3. PICK x, s, t : x = points[i + 1] /\ s = taken[i] /\ t = taken[i + 1]
    OBVIOUS
  <2>4. t = IF Fits(x, kind, lower, upper) THEN Append(s, x) ELSE s
    BY <1>3, <2>2, <2>3 DEF Takes
  <2>5. First(i) \subseteq First(i + 1) /\ x \in First(i + 1)
    BY <2>3
  <2>6. AllFit(s, P, kind, lower, upper) /\ Range(s) \subseteq First(i)
    BY <2>2, <2>3
  <2>7. CASE ~Fits(x, kind, lower, upper)
    <3>1. t = s
      BY <2>4, <2>7
    <3> HIDE DEF First
    <3>2. QED BY <2>3, <2>5, <2>6, <3>1
  <2>8. CASE Fits(x, kind, lower, upper)
    <3>1. t = Append(s, x) /\ x \in P /\ s \in Seq(P)
      BY <1>2, <2>2, <2>3, <2>4, <2>6, <2>8 DEF AllFit
    <3>2. Range(t) = Range(s) \cup {x}
      BY <3>1 DEF Range
    <3>3. t \in Seq(P) /\ Len(t) = Len(s) + 1
      BY <3>1
    <3>4. x \notin Range(s)
      <4>1. x \notin First(i)
        BY <1>2, <2>2, <2>3
      <4>2. QED BY <2>6, <4>1
    <3>5. IsFiniteSet(Range(s)) /\ Cardinality(Range(s)) = Len(s)
      BY <2>6 DEF AllFit
    <3>6. IsFiniteSet(Range(t)) /\ Cardinality(Range(t)) = Len(t)
      <4>1. PICK R : R = Range(s)
        OBVIOUS
      <4>2. IsFiniteSet(R \cup {x}) /\ Cardinality(R \cup {x}) = Cardinality(R) + 1
        BY <3>4, <3>5, <4>1, FS_AddElement
      <4>3. QED BY <3>2, <3>3, <3>5, <4>1, <4>2
    <3>7. \A p \in Range(t) : p \in P /\ Fits(p, kind, lower, upper)
      BY <2>6, <2>8, <3>1, <3>2 DEF AllFit
    <3>8. AllFit(t, P, kind, lower, upper)
      BY <3>3, <3>6, <3>7 DEF AllFit
    <3> HIDE DEF First
    <3>9. QED BY <2>3, <2>5, <2>6, <3>2, <3>8
  <2>9. QED BY <2>7, <2>8
<1>6. Right(last)
  <2> HIDE DEF Good, Right
  <2>1. Nat \subseteq Good
    BY <1>4, <1>5, Induction
  <2>2. QED BY <1>2, <2>1 DEF Good
<1>7. QED BY <1>3, <1>6

\* The points of a cluster are all of its kind and within the margin.
LEMMA MatchingIs ==
    ASSUME NEW P, NEW points \in Seq(P),
           \A i, j \in DOMAIN points : i < j => points[i] # points[j],
           NEW kind, NEW level, NEW margin
    PROVE  AllFit(Matching(points, kind, level, margin), P, kind,
                  Minus(Whole(level), margin), Plus(Whole(level), margin))
<1>1. PICK n, m : n = Len(points) /\ m = Min({ScannedPoints, Len(points)})
  OBVIOUS
<1>2. n \in Nat /\ ScannedPoints \in Nat
  BY <1>1, IctAssumption
<1>3. m \in Nat /\ m <= n
  BY <1>2, MinIsLeast, <1>1
<1>4. PICK scanned : scanned = SubSeq(points, 1, m)
  OBVIOUS
<1>5. Len(scanned) = m
  BY <1>1, <1>3, <1>4
<1>6. PICK upper, lower : upper = Plus(Whole(level), margin) /\ lower = Minus(Whole(level), margin)
  OBVIOUS
<1> DEFINE beyond(p) == /\ p.kind = kind
                        /\ IF kind = "HIGH" THEN Less(upper, Whole(p.level))
                           ELSE Less(Whole(p.level), lower)
           I == {i \in 1 .. Len(scanned) : beyond(scanned[i])}
<1>7. PICK end : end = IF I # {} THEN Min(I) ELSE 0
  OBVIOUS
<1>8. end = 0 \/ end \in 1 .. m
  <2>1. I \subseteq 1 .. m
    BY <1>5
  <2> HIDE DEF I
  <2>2. I \in SUBSET Nat
    BY <2>1
  <2>3. QED BY <1>7, <2>1, <2>2, MinIsLeast
<1>9. PICK last : last = IF end = 0 THEN m ELSE end - 1
  OBVIOUS
<1>10. last \in 0 .. n
  BY <1>2, <1>3, <1>8, <1>9
<1>11. Matching(points, kind, level, margin) = Within(points, last, kind, lower, upper)
  <2>1. end = SelectInSeq(scanned, beyond)
    BY <1>7 DEF SelectInSeq
  <2> HIDE DEF beyond, I
  <2>2. Matching(points, kind, level, margin) =
          Within(points, IF end = 0 THEN Len(scanned) ELSE end - 1, kind, lower, upper)
    BY <1>1, <1>4, <1>6, <2>1 DEF Matching, beyond
  <2>3. QED BY <1>5, <1>9, <2>2
<1>12. AllFit(Within(points, last, kind, lower, upper), P, kind, lower, upper)
  BY <1>1, <1>10, WithinIs
<1>13. QED BY <1>6, <1>11, <1>12

\* Fractions are compared after multiplication.
LEMMA FitsIs ==
    ASSUME NEW margin \in Margins, NEW level \in Nat, NEW price \in Nat
    PROVE  /\ Less(Minus(Whole(level), margin), Whole(price))
                <=> level * margin.den - margin.num < price * margin.den
           /\ Less(Whole(price), Plus(Whole(level), margin))
                <=> price * margin.den < level * margin.den + margin.num
<1>1. PICK N, D : N = margin.num /\ D = margin.den
  OBVIOUS
<1>2. N \in Nat /\ D \in Nat \ {0} /\ margin = [num |-> N, den |-> D]
  BY <1>1 DEF Margins
<1>3. Minus(Whole(level), margin) = [num |-> level * D + (-N) * 1, den |-> 1 * D]
  BY <1>2 DEF Minus, Plus, Whole
<1>4. Plus(Whole(level), margin) = [num |-> level * D + N * 1, den |-> 1 * D]
  BY <1>2 DEF Plus, Whole
<1>5. PICK x, y : x = level * D /\ y = price * D
  OBVIOUS
<1>6. x \in Nat /\ y \in Nat
  BY <1>2, <1>5
<1>7. Less(Minus(Whole(level), margin), Whole(price)) <=> x - N < y
  BY <1>3, <1>2, <1>5, <1>6 DEF Less, Whole
<1>8. Less(Whole(price), Plus(Whole(level), margin)) <=> y < x + N
  BY <1>4, <1>2, <1>5, <1>6 DEF Less, Whole
<1>9. QED BY <1>1, <1>5, <1>7, <1>8

\* Beyond the edges of a cluster lies every one of its points.
LEMMA EdgesLeave ==
    ASSUME NEW P \in SUBSET PointRecords, NEW level \in Nat, NEW margin \in Margins,
           NEW kind, NEW list, list # <<>>,
           AllFit(list, P, kind, Minus(Whole(level), margin), Plus(Whole(level), margin)),
           NEW price \in Nat, NEW p \in Range(list)
    PROVE  /\ Less(Plus(Center(list), margin), Whole(price)) => p.level < price
           /\ Less(Whole(price), Minus(Center(list), margin)) => price < p.level
<1>1. PICK N, D : N = margin.num /\ D = margin.den
  OBVIOUS
<1>2. N \in Nat /\ D \in Nat \ {0} /\ margin = [num |-> N, den |-> D]
  BY <1>1 DEF Margins
<1>3. PICK c : c = level * D
  OBVIOUS
<1>4. c \in Nat
  BY <1>2, <1>3
<1>5. \A q \in Range(list) :
        q.level \in Nat /\ c - N < q.level * D /\ q.level * D < c + N
  <2>1. SUFFICES ASSUME NEW q \in Range(list)
        PROVE  q.level \in Nat /\ c - N < q.level * D /\ q.level * D < c + N
    OBVIOUS
  <2>2. q \in PointRecords /\ Fits(q, kind, Minus(Whole(level), margin), Plus(Whole(level), margin))
    BY DEF AllFit
  <2>3. q.level \in Nat
    BY <2>2 DEF PointRecords
  <2>4. QED BY <1>1, <1>3, <2>2, <2>3, FitsIs DEF Fits
<1>6. PICK L : L = Levels(list)
  OBVIOUS
<1>7. \A x \in L : \E q \in Range(list) : x = q.level
  BY <1>6 DEF Levels, Range
<1>8. \A q \in Range(list) : q.level \in L
  BY <1>6 DEF Levels, Range
<1>9. \A x \in L : x \in Nat /\ c - N < x * D /\ x * D < c + N /\ x <= c + N
  <2>1. SUFFICES ASSUME NEW x \in L
        PROVE  x \in Nat /\ c - N < x * D /\ x * D < c + N /\ x <= c + N
    OBVIOUS
  <2>2. x \in Nat /\ c - N < x * D /\ x * D < c + N
    BY <1>5, <1>7
  <2>3. x <= x * D
    <3>1. PICK d \in Nat : D = d + 1
      BY <1>2
    <3>2. x * D = x * d + x /\ x * d \in Nat
      BY <2>2, <3>1
    <3>3. QED BY <2>2, <3>2
  <2>4. x * D \in Nat
    BY <1>2, <2>2
  <2>5. QED BY <1>2, <1>4, <2>2, <2>3, <2>4
<1>10. L # {}
  BY <1>8
<1>11. PICK lo, hi : lo = Min(L) /\ hi = Max(L)
  OBVIOUS
<1>12. lo \in L /\ hi \in L /\ \A x \in L : lo <= x /\ x <= hi
  <2>1. L \in SUBSET Nat
    BY <1>9
  <2>2. c + N \in Nat /\ L \in SUBSET (0 .. c + N)
    BY <1>2, <1>4, <1>9
  <2>3. lo \in L /\ \A x \in L : lo <= x
    BY <1>10, <1>11, <2>1, MinIsLeast
  <2>4. hi \in L /\ \A x \in L : hi >= x
    BY <1>10, <1>11, <2>2, MaxIsGreatest
  <2>5. \A x \in L : x \in Int
    BY <1>9
  <2>6. QED BY <2>3, <2>4, <2>5
<1>13. lo \in Nat /\ hi \in Nat /\ c - N < lo * D /\ hi * D < c + N
  BY <1>9, <1>12
<1>14. p.level \in Nat /\ lo <= p.level /\ p.level <= hi
  BY <1>5, <1>8, <1>12
<1>15. PICK x, y, z : x = lo * D /\ y = hi * D /\ z = price * D
  OBVIOUS
<1>16. x \in Nat /\ y \in Nat /\ z \in Nat /\ y - x < 2 * N
  BY <1>2, <1>4, <1>13, <1>15
<1>17. Center(list) = [num |-> lo + hi, den |-> 2]
  BY <1>6, <1>11 DEF Center
<1>18. Less(Plus(Center(list), margin), Whole(price)) <=> (x + y) + 2 * N < 2 * z
  BY <1>2, <1>17, <1>13, <1>15, <1>16 DEF Plus, Less, Whole
<1>19. Less(Whole(price), Minus(Center(list), margin)) <=> 2 * z < (x + y) - 2 * N
  <2>1. Minus(Center(list), margin) = [num |-> (lo + hi) * D + (-N) * 2, den |-> 2 * D]
    BY <1>2, <1>17 DEF Minus, Plus
  <2>2. Less(Whole(price), Minus(Center(list), margin))
          <=> price * (2 * D) < ((lo + hi) * D + (-N) * 2) * 1
    BY <2>1 DEF Less, Whole
  <2>3. (lo + hi) * D = x + y /\ price * (2 * D) = 2 * z
    BY <1>2, <1>13, <1>15
  <2>4. QED BY <1>2, <1>16, <2>2, <2>3
<1>20. ASSUME NEW a \in Nat, NEW b \in Nat, a <= b PROVE a * D <= b * D
  <2>1. PICK d \in Nat : b = a + d
    BY <1>20
  <2>2. b * D = a * D + d * D /\ d * D \in Nat /\ a * D \in Nat
    BY <1>2, <2>1
  <2>3. QED BY <2>2
<1>21. ASSUME (x + y) + 2 * N < 2 * z PROVE p.level < price
  <2>1. SUFFICES ASSUME price <= hi PROVE FALSE
    BY <1>13, <1>14
  <2>2. z <= y
    BY <1>13, <1>15, <1>20, <2>1
  <2>3. QED BY <1>2, <1>16, <1>21, <2>2
<1>22. ASSUME 2 * z < (x + y) - 2 * N PROVE price < p.level
  <2>1. SUFFICES ASSUME lo <= price PROVE FALSE
    BY <1>13, <1>14
  <2>2. x <= z
    BY <1>13, <1>15, <1>20, <2>1
  <2>3. QED BY <1>2, <1>16, <1>22, <2>2
<1>23. QED BY <1>18, <1>19, <1>21, <1>22

-----------------------------------------------------------------------------
(* The pivots that a zone of liquidity stands on.                           *)

\* Pivots are never withdrawn.
LEMMA BackedMore ==
    ASSUME NEW P, NEW Q, P \subseteq Q, NEW zones, AllBacked(zones, P)
    PROVE  AllBacked(zones, Q)
<1>1. ASSUME NEW z, NEW kind, Backs(z, kind, P) PROVE Backs(z, kind, Q)
  BY <1>1 DEF Backs, DrawnOver, HasLevel, AimsAt
<1>2. QED BY <1>1 DEF AllBacked

LEMMA SidesAre ==
    /\ \A kind, other \in Kinds : Side(kind) = Side(other) => kind = other
    /\ \A kind, other \in Kinds : Side(kind) # Side(other) => other = Opposite(kind)
BY DEF Side, Kinds, Opposite

\* The zone of a cluster stands on its points.
LEMMA ClusterIsLeft ==
    ASSUME NEW P \in SUBSET PointRecords, NEW level \in Nat, NEW margin \in Margins,
           NEW kind \in Kinds, NEW list,
           AllFit(list, P, kind, Minus(Whole(level), margin), Plus(Whole(level), margin)),
           Len(list) >= MinimumPivots, NEW z, z.side = Side(kind),
           z.lower = Minus(Center(list), margin), z.upper = Plus(Center(list), margin),
           \A p \in P : p.index <= z.event
    PROVE  DrawnOver(z, kind, P)
<1>1. PICK S : S = Range(list)
  OBVIOUS
<1>2. list # <<>> /\ Cardinality(S) >= MinimumPivots /\ IsFiniteSet(S) /\ S \in SUBSET P
  BY <1>1, IctAssumption DEF AllFit
<1>3. ASSUME NEW p \in S, NEW c \in Candles, ReachesFar(z, c)
      PROVE  Beyond(kind, c.close, p.level)
  <2>1. PICK price : price = c.close
    OBVIOUS
  <2>2. price \in Nat
    BY CandleIs, <2>1
  <2>3. /\ Less(Plus(Center(list), margin), Whole(price)) => p.level < price
        /\ Less(Whole(price), Minus(Center(list), margin)) => price < p.level
    BY <1>1, <1>2, <2>2, EdgesLeave
  <2>4. p.level \in Nat
    BY <1>2 DEF PointRecords
  <2>5. IF z.side = "BUYSIDE" THEN Less(z.upper, Whole(price)) ELSE Less(Whole(price), z.lower)
    BY <1>3, <2>1 DEF ReachesFar
  <2>6. CASE kind = "HIGH"
    BY <2>5, <2>6, <2>1, <2>2, <2>3, <2>4 DEF Side, Beyond
  <2>7. CASE kind = "LOW"
    BY <2>5, <2>7, <2>1, <2>3 DEF Side, Beyond
  <2>8. QED BY <2>6, <2>7 DEF Kinds
<1>4. \A p \in S : p.kind = kind /\ p.index <= z.event
  BY <1>1, <1>2 DEF AllFit, Fits
<1>5. \A p \in S : LeftBehind(z, kind, p)
  BY <1>3, <1>4 DEF LeftBehind
<1>6. QED BY <1>2, <1>5 DEF DrawnOver

\* It is backed whether it is new or an older one grows.
LEMMA WithZoneBacked ==
    ASSUME NEW n \in Nat, NEW b, Len(b) = n + 1, NEW P \in SUBSET PointRecords,
           \A p \in P : p.index <= n, NEW zones, ZonesOK(zones, b, n), AllBacked(zones, P),
           NEW kind \in Kinds, NEW level \in Nat, NEW margin \in Margins, NEW list,
           AllFit(list, P, kind, Minus(Whole(level), margin), Plus(Whole(level), margin)),
           Len(list) >= MinimumPivots
    PROVE  AllBacked(WithZone(zones, kind, list, margin, b), P)
<1> DEFINE new == WithZone(zones, kind, list, margin, b)
<1>1. PICK anchor, lower, upper, side, i :
        /\ anchor = list[Len(list)] /\ side = Side(kind)
        /\ lower = Minus(Center(list), margin) /\ upper = Plus(Center(list), margin)
        /\ i = Growing(zones, side, anchor.index)
  OBVIOUS
<1>2. Len(zones) \in Nat /\ DOMAIN zones = 1 .. Len(zones) /\ IsList(zones)
  BY ListHas DEF ZonesOK
<1>3. anchor \in P /\ anchor.kind = kind
  BY IctAssumption, <1>1 DEF AllFit, Fits, Range
<1>4. i = 0 \/ /\ i \in DOMAIN zones /\ zones[i].side = side /\ zones[i].state # "FULL"
  <2>1. PICK first : first = LatestOn(zones, side)
    OBVIOUS
  <2>2. \/ first = 0
        \/ first \in DOMAIN zones /\ first # 0 /\ zones[first].side = side
    BY <1>2, <2>1, LatestOnIs
  <2>3. i = IF /\ first # 0 /\ zones[first].state # "FULL"
               /\ zones[first].anchor = anchor.index
            THEN first ELSE 0
    BY <1>1, <2>1 DEF Growing
  <2>4. QED BY <2>2, <2>3
<1>5. CASE i # 0
  <2>1. PICK z, o : /\ o = zones[i]
                    /\ z = [o EXCEPT !.lower = lower, !.upper = upper,
                                     !.event = Len(b) - 1, !.known = Len(b)]
    OBVIOUS
  <2>2. new = [zones EXCEPT ![i] = z]
    BY <1>1, <1>5, <2>1 DEF WithZone
  <2>3. IsZone(o) /\ o.event \in Nat /\ o.event <= n
    BY <1>4, <1>5, <2>1 DEF ZonesOK, TellsSweep
  <2>4. /\ z.side = side /\ z.state = o.state /\ z.level = o.level /\ z.event = n
        /\ z.lower = lower /\ z.upper = upper
    BY <1>1, <1>4, <1>5, <2>1, <2>3 DEF IsZone
  <2>5. PICK other \in Kinds : Backs(o, other, P)
    BY <1>4, <1>5, <2>1 DEF AllBacked
  <2>6. other = kind
    BY <1>1, <1>4, <1>5, <2>1, <2>5, SidesAre DEF Backs
  <2>7. DrawnOver(z, kind, P)
    BY <1>1, <2>4, ClusterIsLeft
  <2>8. HasLevel(z, kind, P)
    <3>1. PICK p \in P : p.kind = kind /\ p.index <= o.event /\ p.level = o.level
      BY <2>5, <2>6 DEF Backs, HasLevel
    <3>2. QED BY <2>4, <3>1 DEF HasLevel
  <2>9. AimsAt(z, kind, P)
    BY <1>4, <1>5, <2>1, <2>4 DEF AimsAt
  <2>10. Backs(z, kind, P)
    BY <1>1, <2>4, <2>7, <2>8, <2>9 DEF Backs
  <2> HIDE DEF new
  <2>11. DOMAIN new = DOMAIN zones /\ \A j \in DOMAIN zones : new[j] = IF j = i THEN z ELSE zones[j]
    BY <1>2, <1>4, <1>5, <2>2, ListChanges
  <2>12. AllBacked(new, P)
    BY <2>10, <2>11 DEF AllBacked
  <2>13. QED BY <2>12 DEF new
<1>6. CASE i = 0
  <2>1. PICK z : z = [side |-> Side(kind), lower |-> lower, upper |-> upper,
                      level |-> anchor.level, event |-> Len(b) - 1, known |-> Len(b),
                      anchor |-> anchor.index, state |-> "ACTIVE",
                      opposing |-> None, swept |-> None]
    OBVIOUS
  <2>2. new = <<z>> \o zones
    BY <1>1, <1>6, <2>1 DEF WithZone
  <2>3. /\ z.side = Side(kind) /\ z.state = "ACTIVE" /\ z.level = anchor.level /\ z.event = n
        /\ z.lower = lower /\ z.upper = upper
    BY <2>1
  <2>4. DrawnOver(z, kind, P)
    BY <1>1, <2>3, ClusterIsLeft
  <2>5. HasLevel(z, kind, P)
    BY <1>3, <2>3 DEF HasLevel
  <2>6. Backs(z, kind, P)
    BY <2>3, <2>4, <2>5 DEF Backs, AimsAt
  <2> HIDE DEF new
  <2>7. IsList(new) /\ Len(new) = Len(zones) + 1
    BY <1>2, <2>2, ListAdds
  <2>8. new[1] = z /\ \A j \in 1 .. Len(zones) : new[j + 1] = zones[j]
    BY <1>2, <2>2, ListAdds
  <2>9. \A j \in DOMAIN new : j = 1 \/ (j - 1 \in DOMAIN zones /\ new[j] = zones[j - 1])
    <3>1. DOMAIN new = 1 .. Len(zones) + 1
      BY <1>2, <2>7, ListHas
    <3>2. SUFFICES ASSUME NEW j \in DOMAIN new, j # 1
          PROVE  j - 1 \in DOMAIN zones /\ new[j] = zones[j - 1]
      OBVIOUS
    <3>3. j - 1 \in 1 .. Len(zones) /\ (j - 1) + 1 = j
      BY <1>2, <3>1, <3>2
    <3>4. QED BY <1>2, <2>8, <3>3
  <2>10. AllBacked(new, P)
    BY <2>6, <2>8, <2>9 DEF AllBacked
  <2>11. QED BY <2>10 DEF new
<1>7. QED BY <1>5, <1>6

\* The level on the opposing side is that of a zone there.
LEMMA OpposingIs ==
    ASSUME NEW zones, IsList(zones), NEW side
    PROVE  \/ OpposingLevel(zones, side) = None
           \/ \E j \in DOMAIN zones : /\ zones[j].side # side
                                      /\ OpposingLevel(zones, side) = zones[j].level
<1> DEFINE I == {i \in 1 .. Len(zones) : zones[i].side # side}
<1>1. Len(zones) \in Nat /\ DOMAIN zones = 1 .. Len(zones)
  BY ListHas
<1>2. PICK i : i = IF I # {} THEN Min(I) ELSE 0
  OBVIOUS
<1>3. OpposingLevel(zones, side) = IF i = 0 THEN None ELSE zones[i].level
  BY <1>2 DEF OpposingLevel, SelectInSeq
<1>4. I # {} => i \in I
  <2>1. I \in SUBSET Nat
    BY <1>1
  <2> HIDE DEF I
  <2>2. QED BY <1>2, <2>1, MinIsLeast
<1>5. CASE I = {}
  <2>1. i = 0
    BY <1>2, <1>5
  <2>2. QED BY <1>3, <2>1
<1>6. CASE I # {}
  BY <1>1, <1>4, <1>6, <1>3
<1>7. QED BY <1>5, <1>6

\* A close changes what became of a zone, not what it stands on.
LEMMA TraversedBacked ==
    ASSUME NEW n \in Nat, NEW b, Len(b) = n + 1, NEW P \in SUBSET PointRecords,
           \A p \in P : p.index <= n, NEW zones, ZonesOK(zones, b, n), AllBacked(zones, P)
    PROVE  AllBacked(Traversed(zones, b), P)
<1>1. ASSUME NEW i \in DOMAIN zones
      PROVE  \E kind \in Kinds : Backs(AfterClose(zones[i], zones, b), kind, P)
  <2>1. PICK z, y : z = zones[i] /\ y = AfterClose(z, zones, b)
    OBVIOUS
  <2>2. PICK kind \in Kinds : Backs(z, kind, P)
    BY <2>1 DEF AllBacked
  <2>3. IsZone(z) /\ z.event \in Nat /\ z.event <= n
    BY <2>1 DEF ZonesOK, TellsSweep
  <2>4. PICK c, swept, opposing :
          /\ c = b[Len(b)] /\ swept = (IF z.side = "BUYSIDE" THEN c.high ELSE c.low)
          /\ opposing = OpposingLevel(zones, z.side)
    OBVIOUS
  <2>5. \/ y = z
        \/ y = [z EXCEPT !.state = "FULL", !.known = Len(b), !.swept = swept,
                         !.opposing = opposing]
        \/ y = [z EXCEPT !.state = "PARTIAL", !.known = Len(b)]
    BY <2>1, <2>4 DEF AfterClose
  <2>6. SUFFICES ASSUME y # z PROVE Backs(y, kind, P)
    BY <2>1, <2>2
  <2>7. /\ y.side = z.side /\ y.lower = z.lower /\ y.upper = z.upper
        /\ y.level = z.level /\ y.event = z.event
        /\ \/ y.state = "FULL" /\ y.known = n + 1 /\ y.opposing = opposing
           \/ y.state = "PARTIAL"
    BY <2>3, <2>5, <2>6 DEF IsZone
  <2>8. \A d : ReachesFar(y, d) <=> ReachesFar(z, d)
    BY <2>7 DEF ReachesFar
  <2>9. DrawnOver(y, kind, P)
    <3>1. PICK S \in SUBSET P : /\ IsFiniteSet(S) /\ Cardinality(S) >= MinimumPivots
                                /\ \A p \in S : LeftBehind(z, kind, p)
      BY <2>2 DEF Backs, DrawnOver
    <3>2. \A p \in S : LeftBehind(y, kind, p)
      BY <2>7, <2>8, <3>1 DEF LeftBehind
    <3>3. QED BY <3>1, <3>2 DEF DrawnOver
  <2>10. HasLevel(y, kind, P)
    BY <2>2, <2>7 DEF Backs, HasLevel
  <2>11. AimsAt(y, kind, P)
    <3>1. SUFFICES ASSUME y.state = "FULL", y.opposing # None
          PROVE  \E p \in P : p.kind = Opposite(kind) /\ p.index < y.known /\ p.level = y.opposing
      BY DEF AimsAt
    <3>2. y.known = n + 1 /\ y.opposing = opposing
      BY <2>7, <3>1
    <3>3. IsList(zones)
      BY DEF ZonesOK
    <3>4. PICK j \in DOMAIN zones : zones[j].side # z.side /\ opposing = zones[j].level
      BY <2>4, <3>1, <3>2, <3>3, OpposingIs
    <3>5. PICK other \in Kinds : Backs(zones[j], other, P)
      BY DEF AllBacked
    <3>6. other = Opposite(kind)
      BY <2>2, <3>4, <3>5, SidesAre DEF Backs
    <3>7. PICK p \in P : p.kind = other /\ p.level = zones[j].level
      BY <3>5 DEF Backs, HasLevel
    <3>8. p.index <= n /\ p.index \in Nat
      BY DEF PointRecords
    <3>9. p.index < n + 1
      BY <3>8
    <3>10. QED BY <3>2, <3>4, <3>6, <3>7, <3>9
  <2>12. QED BY <2>2, <2>7, <2>9, <2>10, <2>11 DEF Backs
<1>2. DOMAIN Traversed(zones, b) = DOMAIN zones
      /\ \A i \in DOMAIN zones : Traversed(zones, b)[i] = AfterClose(zones[i], zones, b)
  BY DEF Traversed
<1>3. QED BY <1>1, <1>2 DEF AllBacked

\* A cluster of pivots so far.
LEMMA ClusteredBacked ==
    ASSUME NEW n \in Nat, NEW b \in Seq(Candles), Len(b) = n + 1, NEW kind \in Kinds,
           NEW P, NEW Q \in SUBSET PointRecords, P \subseteq Q, \A q \in Q : q.index <= n,
           NEW l, IsBook(l), ZonesOK(l.zones, b, n), AllBacked(l.zones, P),
           ZigzagOK(Onward(l.points, kind, b, ClusterWidth), Q)
    PROVE  AllBacked(Clustered(l, kind, b).zones, Q)
<1> DEFINE new == Clustered(l, kind, b)
<1>1. PICK points, atr, level : /\ points = UpdateZigzag(l.points, NewPoint(kind, b))
                                /\ atr = WilderAtr(b, ClusterAtr)
                                /\ level = NewPoint(kind, b).level
  OBVIOUS
<1>2. PICK margin : margin = Times(Margin, atr)
  OBVIOUS
<1>3. PICK matching : matching = Matching(points, kind, level, margin)
  OBVIOUS
<1>4. PICK cluster : cluster = <<kind, [i \in DOMAIN matching |-> matching[i].index]>>
  OBVIOUS
<1>5. new = IF ~IsPivot(kind, b, ClusterWidth) \/ points = l.points THEN l
            ELSE IF atr = None \/ Len(matching) < MinimumPivots \/ cluster \in l.seen
            THEN [l EXCEPT !.points = points]
            ELSE [points |-> points, seen |-> l.seen \cup {cluster},
                  zones |-> WithZone(l.zones, kind, matching, margin, b)]
  BY <1>1, <1>2, <1>3, <1>4 DEF Clustered
<1> HIDE DEF new
<1>6. \/ new.zones = l.zones
      \/ /\ IsPivot(kind, b, ClusterWidth) /\ atr # None /\ ~(Len(matching) < MinimumPivots)
         /\ new.zones = WithZone(l.zones, kind, matching, margin, b)
  BY <1>5 DEF IsBook
<1>7. AllBacked(l.zones, Q)
  BY BackedMore
<1>8. ASSUME IsPivot(kind, b, ClusterWidth), atr # None, ~(Len(matching) < MinimumPivots),
             new.zones = WithZone(l.zones, kind, matching, margin, b)
      PROVE  AllBacked(new.zones, Q)
  <2>1. ZigzagOK(points, Q)
    BY <1>1, <1>8 DEF Onward
  <2>2. points \in Seq(Q)
    BY <2>1 DEF ZigzagOK
  <2>3. \A i, j \in DOMAIN points : i < j => points[i] # points[j]
    <3>1. SUFFICES ASSUME NEW i \in DOMAIN points, NEW j \in DOMAIN points, i < j
          PROVE  points[i] # points[j]
      OBVIOUS
    <3>2. Precedes(points[j], points[i])
      BY <2>1, <3>1 DEF ZigzagOK
    <3>3. points[i] \in PointRecords /\ points[j] \in PointRecords
      BY <2>2
    <3>4. QED BY <3>2, <3>3, PrecedesIs
  <2>4. level \in Nat
    BY IctAssumption, <1>8, PivotIs, <1>1 DEF PointRecords
  <2>5. margin \in Margins
    <3>1. ClusterAtr \in Nat \ {0}
      BY IctAssumption
    <3>2. ~(Len(b) < ClusterAtr)
      BY <1>1, <1>8, <3>1, WilderIs
    <3>3. ClusterAtr <= Len(b)
      BY <3>1, <3>2
    <3>4. atr \in [num : Nat, den : Nat \ {0}]
      BY <1>1, <3>1, <3>3, WilderIsAverage DEF IsAverage
    <3>5. Margin \in [num : Nat, den : Nat \ {0}]
      BY IctAssumption
    <3>6. PICK N, D, M, E : N = Margin.num /\ D = Margin.den /\ M = atr.num /\ E = atr.den
      OBVIOUS
    <3>7. N \in Nat /\ M \in Nat /\ D \in Nat \ {0} /\ E \in Nat \ {0}
      BY <3>4, <3>5, <3>6
    <3>8. N * M \in Nat
      BY <3>7
    <3>9. D * E \in Nat \ {0}
      BY <3>7
    <3>10. margin = [num |-> N * M, den |-> D * E]
      BY <1>2, <3>6 DEF Times
    <3>11. QED BY <3>8, <3>9, <3>10 DEF Margins
  <2>6. AllFit(matching, Q, kind, Minus(Whole(level), margin), Plus(Whole(level), margin))
    BY <1>3, <2>2, <2>3, MatchingIs
  <2>7. Len(matching) >= MinimumPivots
    BY <2>6, IctAssumption, <1>8 DEF AllFit
  <2>8. AllBacked(WithZone(l.zones, kind, matching, margin, b), Q)
    BY <1>7, <2>4, <2>5, <2>6, <2>7, WithZoneBacked
  <2>9. QED BY <1>8, <2>8
<1>9. AllBacked(new.zones, Q)
  BY <1>6, <1>7, <1>8
<1>10. QED BY <1>9 DEF new

\* A bar at which a cluster is drawn or swept.
LEMMA BackedStep ==
    ASSUME BarsOK, ReadsBar, ZonesInv, PointsInv, BackedInv, LiquidityBar(bars')
    PROVE  BackedInv'
<1>1. PICK n, b, l, h, low :
        /\ n = Now /\ b = bars' /\ l = liquidity
        /\ h = Clustered(l, "HIGH", b) /\ low = Clustered(h, "LOW", b)
  OBVIOUS
<1>2. PICK P, Q, R : /\ P = PivotsSoFar(ClusterWidth) /\ R = PivotsSoFar(ClusterWidth)'
                     /\ Q = P \cup Fresh("HIGH", b, ClusterWidth)
  OBVIOUS
<1>3. ClusterWidth \in Nat \ {0}
  BY IctAssumption
<1>4. n \in Nat /\ Len(b) = n + 1 /\ b \in Seq(Candles) /\ Now' = n + 1
  BY <1>1, Grows DEF Now
<1>5. IsBook(l) /\ ZonesOK(l.zones, b, n) /\ AllBacked(l.zones, P)
  BY <1>1, <1>2, ZonesStay DEF ZonesInv, BackedInv
<1>6. /\ ZigzagOK(Onward(l.points, "HIGH", b, ClusterWidth), Q)
      /\ \A q \in Q : /\ q \in PointRecords
                      /\ q.index < n \/ (q.index = n /\ q.kind = "HIGH")
  BY <1>1, <1>2, <1>3, ZigzagHalf DEF PointsInv
<1>7. Q \in SUBSET PointRecords /\ \A q \in Q : q.index <= n
  BY <1>4, <1>6 DEF PointRecords
<1>8. R \in SUBSET PointRecords /\ \A q \in R : q.index <= n
  <2>1. \A q \in R : q \in PointRecords /\ q.index <= n
    <3>1. \A q \in Fresh("LOW", b, ClusterWidth) : q \in PointRecords /\ q.index = n
      <4>1. SUFFICES ASSUME NEW q \in Fresh("LOW", b, ClusterWidth)
            PROVE  q \in PointRecords /\ q.index = n
        OBVIOUS
      <4>2. IsPivot("LOW", b, ClusterWidth) /\ q = NewPoint("LOW", b)
        BY DEF Fresh
      <4>3. "LOW" \in Kinds
        BY DEF Kinds
      <4>4. q \in PointRecords /\ q.index = Len(b) - 1
        BY <1>3, <1>4, <4>2, <4>3, PivotIs
      <4>5. QED BY <1>4, <4>4
    <3>2. R = Q \cup Fresh("LOW", b, ClusterWidth)
      BY <1>1, <1>2, <1>3, PivotsGrow
    <3>3. n <= n
      BY <1>4
    <3>4. QED BY <1>7, <3>1, <3>2, <3>3
  <2>2. QED BY <2>1
<1>9. P \subseteq Q /\ Q \subseteq R
  BY <1>1, <1>2, <1>3, PivotsGrow
<1>10. /\ IsBook(h) /\ ZonesOK(h.zones, b, n)
       /\ h.points = Onward(l.points, "HIGH", b, ClusterWidth)
  BY <1>1, <1>4, <1>5, ClusteredTells, ClusteredPoints
<1>11. AllBacked(h.zones, Q)
  <2>1. "HIGH" \in Kinds
    BY DEF Kinds
  <2>2. QED BY <1>1, <1>4, <1>5, <1>6, <1>7, <1>9, <2>1, ClusteredBacked
<1>12. ZigzagOK(Onward(h.points, "LOW", b, ClusterWidth), R)
  BY <1>1, <1>2, <1>3, <1>10, ZigzagNext DEF PointsInv
<1>13. AllBacked(low.zones, R)
  <2>1. "LOW" \in Kinds
    BY DEF Kinds
  <2>2. QED BY <1>1, <1>4, <1>8, <1>9, <1>10, <1>11, <1>12, <2>1, ClusteredBacked
<1>14. ZonesOK(low.zones, b, n) /\ IsBook(low)
  BY <1>1, <1>4, <1>10, ClusteredTells, ClusteredPoints
<1>15. AllBacked(Traversed(low.zones, b), R)
  BY <1>4, <1>8, <1>13, <1>14, TraversedBacked
<1>16. liquidity' = [low EXCEPT !.zones = Traversed(@, b)]
  BY <1>1 DEF LiquidityBar
<1>17. liquidity'.zones = Traversed(low.zones, b)
  BY <1>14, <1>16 DEF IsBook
<1>18. AllBacked(liquidity'.zones, R)
  BY <1>15, <1>17
<1>19. QED BY <1>2, <1>18 DEF BackedInv, AllBacked, Backs, DrawnOver, HasLevel, AimsAt, LeftBehind

-----------------------------------------------------------------------------
(* Setups.                                                                  *)

\* A pivot is known by its kind and its bar, so that they are finitely many.
LEMMA PivotsAreFinite ==
    ASSUME BarsOK, NEW width \in Nat \ {0}
    PROVE  IsFiniteSet(PivotsSoFar(width))
<1>1. PICK P, T : P = PivotsSoFar(width) /\ T = Kinds \X (1 .. Now)
  OBVIOUS
<1>2. PICK f : f = [q \in P |-> <<q.kind, q.index>>]
  OBVIOUS
<1>3. Now \in Nat
  BY DEF BarsOK, Now
<1>4. \A q \in P : /\ q \in PointRecords /\ q.index \in 1 .. Now - 1
                   /\ q.level = Extreme(q.kind, bars[q.index])
  BY <1>1, PivotsAreThere
<1>5. f \in [P -> T]
  BY <1>1, <1>3, <1>4, <1>2 DEF PointRecords
<1>6. ASSUME NEW p \in P, NEW q \in P, f[p] = f[q] PROVE p = q
  BY <1>2, <1>6, <1>4 DEF PointRecords
<1>7. f \in Injection(P, T)
  BY <1>5, <1>6 DEF Injection, IsInjective
<1>8. IsFiniteSet(T)
  <2>1. IsFiniteSet(1 .. Now)
    BY <1>3, FS_Interval
  <2>2. IsFiniteSet(Kinds)
    <3>1. IsFiniteSet({"HIGH"})
      BY FS_Singleton
    <3>2. IsFiniteSet({"HIGH"} \cup {"LOW"})
      BY <3>1, FS_AddElement
    <3>3. Kinds = {"HIGH"} \cup {"LOW"}
      BY DEF Kinds
    <3>4. QED BY <3>2, <3>3
  <2>3. QED BY <1>1, <2>1, <2>2, FS_Product
<1>9. QED BY <1>1, <1>7, <1>8, FS_Injection

\* A pivot stands out, so that a bar around it has a range.
LEMMA PivotsMove ==
    ASSUME BarsOK, NEW width \in Nat \ {0}, PivotsSoFar(width) # {}
    PROVE  Moves(bars, Now)
<1>1. PICK q \in PivotsSoFar(width) : TRUE
  OBVIOUS
<1>2. PICK i, kind : i = q.index /\ kind = q.kind
  OBVIOUS
<1>3. /\ kind \in Kinds /\ i \in 1 .. Now - 1
      /\ Beyond(kind, Extreme(kind, bars[i]), Extreme(kind, bars[i + 1]))
  BY <1>2, PivotsAreThere DEF PointRecords
<1>4. Now \in Nat /\ i \in 1 .. Now /\ i + 1 \in 1 .. Now /\ i + 1 # 1 /\ (i + 1) - 1 = i
  BY <1>3 DEF BarsOK, Now
<1>5. PICK c, d : c = bars[i] /\ d = bars[i + 1]
  OBVIOUS
<1>6. /\ c \in Candles /\ d \in Candles
  BY <1>4, <1>5 DEF BarsOK, Now
<1>7. /\ c.high \in Nat /\ c.low \in Nat /\ c.close \in Nat /\ c.low <= c.close /\ c.close <= c.high
      /\ d.high \in Nat /\ d.low \in Nat /\ d.low <= d.high
  <2>1. \A x \in Candles : /\ x.high \in Nat /\ x.low \in Nat /\ x.close \in Nat
                           /\ x.low <= x.close /\ x.close <= x.high /\ x.low <= x.high
    <3>1. SUFFICES ASSUME NEW x \in Candles
          PROVE  /\ x.high \in Nat /\ x.low \in Nat /\ x.close \in Nat
                 /\ x.low <= x.close /\ x.close <= x.high /\ x.low <= x.high
      OBVIOUS
    <3>2. x \in [open : Nat, high : Nat, low : Nat, close : Nat]
      BY CandleIs
    <3>3. x.low <= x.close /\ x.close <= x.high
      BY CandlesAssumption
    <3>4. x.low <= x.high
      BY CandleIs
    <3>5. QED BY <3>2, <3>3, <3>4
  <2>2. QED BY <1>6, <2>1
<1>8. SUFFICES ASSUME TrueRange(bars, i) = 0, TrueRange(bars, i + 1) = 0 PROVE FALSE
  BY <1>4 DEF Moves
<1>9. ASSUME NEW j \in 1 .. Now, TrueRange(bars, j) = 0
      PROVE  bars[j].high - bars[j].low = 0
  <2>1. PICK h, l : h = bars[j].high /\ l = bars[j].low
    OBVIOUS
  <2>2. h \in Nat /\ l \in Nat /\ l <= h
    BY <2>1, CandleIs DEF BarsOK, Now
  <2>3. CASE j = 1
    BY <1>9, <2>3 DEF TrueRange
  <2>4. CASE j # 1
    <3>1. j - 1 \in 1 .. Now
      BY <1>4, <2>4
    <3>2. PICK close, x, y : /\ close = bars[j - 1].close
                             /\ x = Distance(h, close) /\ y = Distance(l, close)
      OBVIOUS
    <3>3. close \in Nat
      <4>1. bars[j - 1] \in Candles
        BY <3>1 DEF BarsOK, Now
      <4>2. bars[j - 1] \in [open : Nat, high : Nat, low : Nat, close : Nat]
        BY <4>1, CandleIs
      <4>3. QED BY <3>2, <4>2
    <3>4. x \in Nat /\ y \in Nat /\ h - l \in Nat
      <4>1. h - l \in Nat
        BY <2>2
      <4>2. x \in Nat /\ y \in Nat
        BY <2>2, <3>2, <3>3, DistanceIs
      <4>3. QED BY <4>1, <4>2
    <3>5. TrueRange(bars, j) = Max({h - l, x, y})
      BY <2>1, <2>4, <3>2 DEF TrueRange
    <3>6. Max({h - l, x, y}) >= h - l
      <4>1. PICK S, bound : S = {h - l, x, y} /\ bound = (h - l) + x + y
        OBVIOUS
      <4>2. bound \in Nat /\ S \in SUBSET (0 .. bound) /\ S # {} /\ h - l \in S
        BY <3>4, <4>1
      <4>3. Max(S) >= h - l
        BY <4>2, MaxIsGreatest
      <4>4. QED BY <4>1, <4>3
    <3>7. QED BY <1>9, <2>1, <2>2, <3>4, <3>5, <3>6
  <2>5. QED BY <2>3, <2>4
<1>10. Distance(d.high, c.close) = 0
  <2>1. PICK x, y, w : /\ x = Distance(d.high, c.close) /\ y = Distance(d.low, c.close)
                       /\ w = d.high - d.low
    OBVIOUS
  <2>2. x \in Nat /\ y \in Nat /\ w \in Nat
    <3>1. x \in Nat /\ y \in Nat
      BY <1>7, <2>1, DistanceIs
    <3>2. PICK h, l : h = d.high /\ l = d.low
      OBVIOUS
    <3>3. h - l \in Nat
      BY <1>7, <3>2
    <3>4. QED BY <2>1, <3>1, <3>2, <3>3
  <2>3. TrueRange(bars, i + 1) = Max({w, x, y})
    BY <1>4, <1>5, <2>1 DEF TrueRange
  <2>4. Max({w, x, y}) >= x
    <3>1. PICK S, bound : S = {w, x, y} /\ bound = w + x + y
      OBVIOUS
    <3>2. bound \in Nat /\ S \in SUBSET (0 .. bound) /\ S # {} /\ x \in S
      BY <2>2, <3>1
    <3>3. Max(S) >= x
      BY <3>2, MaxIsGreatest
    <3>4. QED BY <3>1, <3>3
  <2>5. QED BY <1>8, <2>1, <2>2, <2>3, <2>4
<1>11. d.high = c.close
  BY <1>7, <1>10 DEF Distance
<1>12. c.high = c.low /\ d.high = d.low
  <2>1. c.high - c.low = 0 /\ d.high - d.low = 0
    BY <1>4, <1>5, <1>8, <1>9
  <2>2. \A x, y \in Nat : x - y = 0 => x = y
    OBVIOUS
  <2>3. QED BY <1>7, <2>1, <2>2
<1>13. c.high = d.high /\ c.low = d.low
  BY <1>7, <1>11, <1>12
<1>14. QED BY <1>3, <1>5, <1>7, <1>13 DEF Beyond, Extreme, Kinds

\* What is not a plugin's own answer neither passes nor points anywhere.
LEMMA OwnAnswer ==
    ASSUME NEW dependencies, NEW warmup, NEW own, NEW o, o = Answer(dependencies, warmup, own),
           o.status = "PASS" \/ o.direction # None
    PROVE  o = own /\ ~(Now < warmup) /\ DependencyProblem(dependencies, Now) = None
<1>1. PICK problem : problem = DependencyProblem(dependencies, Now)
  OBVIOUS
<1>2. o = IF problem # None THEN problem
          ELSE IF Now < warmup THEN Observed("UNAVAILABLE", "UNAVAILABLE") ELSE own
  BY <1>1 DEF Answer
<1>3. problem = None \/ (problem.status # "PASS" /\ problem.direction = None)
  <2>1. PICK first, failed, open :
          /\ first = SelectInSeq(dependencies, LAMBDA d : d.known # None /\ d.known > Now)
          /\ failed = SelectInSeq(dependencies, LAMBDA d : d.status = "FAIL")
          /\ open = SelectInSeq(dependencies, LAMBDA d : d.status = "UNAVAILABLE")
    OBVIOUS
  <2>2. PICK event, known : event = dependencies[failed].event /\ known = dependencies[failed].known
    OBVIOUS
  <2>3. problem = CASE first # 0 -> Observed("FAIL", "INVALID_DEPENDENCY_EVIDENCE")
                    [] first = 0 /\ failed # 0 ->
                         [Observed("FAIL", "FAILED_DEPENDENCY") EXCEPT !.event = event,
                                                                      !.known = known]
                    [] first = 0 /\ failed = 0 /\ open # 0 ->
                         Observed("UNAVAILABLE", "UNAVAILABLE")
                    [] OTHER -> None
    BY <1>1, <2>1, <2>2 DEF DependencyProblem
  <2>4. \/ problem = Observed("FAIL", "INVALID_DEPENDENCY_EVIDENCE")
        \/ problem = [Observed("FAIL", "FAILED_DEPENDENCY") EXCEPT !.event = event,
                                                                  !.known = known]
        \/ problem = Observed("UNAVAILABLE", "UNAVAILABLE")
        \/ problem = None
    BY <2>3
  <2>5. /\ Observed("FAIL", "INVALID_DEPENDENCY_EVIDENCE").status = "FAIL"
        /\ Observed("FAIL", "INVALID_DEPENDENCY_EVIDENCE").direction = None
        /\ Observed("UNAVAILABLE", "UNAVAILABLE").status = "UNAVAILABLE"
        /\ Observed("UNAVAILABLE", "UNAVAILABLE").direction = None
    BY DEF Observed
  <2>6. PICK p : p = [Observed("FAIL", "FAILED_DEPENDENCY") EXCEPT !.event = event,
                                                                  !.known = known]
    OBVIOUS
  <2>7. p.status = "FAIL" /\ p.direction = None
    BY <2>6 DEF Observed
  <2>8. QED BY <2>4, <2>5, <2>6, <2>7
<1>4. problem = None
  BY <1>2, <1>3
<1>5. ~(Now < warmup)
  <2>1. SUFFICES ASSUME Now < warmup PROVE FALSE
    OBVIOUS
  <2>2. o = Observed("UNAVAILABLE", "UNAVAILABLE")
    BY <1>2, <1>4, <2>1
  <2>3. QED BY <2>2 DEF Observed
<1>6. QED BY <1>1, <1>2, <1>4, <1>5

\* A plugin with one dependency answers on its own when that one passes.
LEMMA PassedOn ==
    ASSUME Now \in Nat, NEW d \in Possible, DependencyProblem(<<d>>, Now) = None
    PROVE  d.status = "PASS"
<1>1. PICK problem : problem = DependencyProblem(<<d>>, Now)
  OBVIOUS
<1>2. problem = IF d.known # None /\ d.known > Now
                THEN Observed("FAIL", "INVALID_DEPENDENCY_EVIDENCE")
                ELSE IF d.status = "FAIL"
                THEN [Observed("FAIL", "FAILED_DEPENDENCY") EXCEPT
                        !.event = d.event, !.known = d.known]
                ELSE IF d.status = "UNAVAILABLE"
                THEN Observed("UNAVAILABLE", "UNAVAILABLE") ELSE None
  BY <1>1, ProblemOfOne
<1>3. /\ d.status \in Statuses
      /\ d.event \in Nat \cup {None} /\ d.known \in Nat \cup {None}
  BY PossibleIs
<1>4. problem # Observed("FAIL", "INVALID_DEPENDENCY_EVIDENCE")
  BY <1>1, NoneAssumption DEF Observed, Statuses
<1>5. problem # [Observed("FAIL", "FAILED_DEPENDENCY") EXCEPT
                   !.event = d.event, !.known = d.known]
  BY <1>1, <1>3, NoneAssumption DEF Observed, Statuses
<1>6. problem # Observed("UNAVAILABLE", "UNAVAILABLE")
  BY <1>1, NoneAssumption DEF Observed, Statuses
<1>7. QED BY <1>2, <1>3, <1>4, <1>5, <1>6 DEF Statuses

\* Levels and the sides they lie on.
LEMMA DifferenceIs ==
    ASSUME NEW p \in [num : Int, den : Int], NEW q \in [num : Int, den : Int]
    PROVE  Less(Whole(0), Minus(p, q)) <=> Less(q, p)
<1>1. PICK a, b, c, d : a = p.num /\ b = p.den /\ c = q.num /\ d = q.den
  OBVIOUS
<1>2. a \in Int /\ b \in Int /\ c \in Int /\ d \in Int
  BY <1>1
<1>3. Minus(p, q) = [num |-> a * d + (-c) * b, den |-> b * d]
  BY <1>1 DEF Minus, Plus
<1>4. PICK x, y, n : x = a * d /\ y = c * b /\ n = b * d
  OBVIOUS
<1>5. x \in Int /\ y \in Int /\ n \in Int /\ (-c) * b = -y
  BY <1>2, <1>4
<1>6. Less(Whole(0), Minus(p, q)) <=> 0 * n < (x + (-y)) * 1
  BY <1>3, <1>4, <1>5 DEF Less, Whole
<1>7. Less(q, p) <=> y < x
  BY <1>1, <1>4 DEF Less
<1>8. QED BY <1>5, <1>6, <1>7

\* A margin puts a level strictly behind another.
LEMMA MarginLeaves ==
    ASSUME NEW level \in Nat, NEW margin \in Margins, margin.num # 0
    PROVE  /\ Minus(Whole(level), margin) \in [num : Int, den : Int]
           /\ Plus(Whole(level), margin) \in [num : Int, den : Int]
           /\ Less(Minus(Whole(level), margin), Whole(level))
           /\ Less(Whole(level), Plus(Whole(level), margin))
<1>1. PICK n, d : n = margin.num /\ d = margin.den
  OBVIOUS
<1>2. n \in Nat \ {0} /\ d \in Nat \ {0} /\ margin = [num |-> n, den |-> d]
  BY <1>1 DEF Margins
<1>3. PICK x : x = level * d
  OBVIOUS
<1>4. x \in Int
  BY <1>2, <1>3
<1>5. Plus(Whole(level), margin) = [num |-> x + n, den |-> d]
  BY <1>2, <1>3 DEF Plus, Whole
<1>6. Minus(Whole(level), margin) = [num |-> x + (-n), den |-> d]
  BY <1>2, <1>3 DEF Minus, Plus, Whole
<1>7. Less(Minus(Whole(level), margin), Whole(level)) <=> (x + (-n)) * 1 < level * d
  BY <1>6 DEF Less, Whole
<1>8. Less(Whole(level), Plus(Whole(level), margin)) <=> level * d < (x + n) * 1
  BY <1>5 DEF Less, Whole
<1>9. QED BY <1>2, <1>3, <1>4, <1>5, <1>6, <1>7, <1>8

\* Levels that pass lie in order and earn enough.
LEMMA RiskPasses ==
    ASSUME Now \in Nat, NEW sweep, NEW gap, NEW o, o = RiskObservation(sweep, gap),
           o.status = "PASS"
    PROVE  LET levels == LevelsOf(sweep.direction)
           IN  /\ ~Contradicts(sweep, SweptZone, gap) /\ RiskAtr <= Now
               /\ o.direction = sweep.direction
               /\ Less(Whole(0), levels.risk) /\ Less(Whole(0), levels.reward)
               /\ ~Less(levels.reward, Times(MinimumReward, levels.risk))
<1>1. PICK levels, judged, own :
        /\ levels = LevelsOf(sweep.direction) /\ judged = Judged(sweep, gap, levels)
        /\ own = IF Contradicts(sweep, SweptZone, gap)
                 THEN Observed("FAIL", "CONTRADICTORY_EVIDENCE") ELSE judged
  OBVIOUS
<1>2. o = Answer(<<sweep, gap>>, RiskAtr, own)
  BY <1>1 DEF RiskObservation
<1>3. o = own /\ ~(Now < RiskAtr)
  BY <1>2, OwnAnswer
<1>4. RiskAtr <= Now
  BY <1>3, RiskAssumption
<1>5. ~Contradicts(sweep, SweptZone, gap) /\ o = judged
  BY <1>1, <1>3 DEF Observed
<1>6. PICK enough : enough = ~Less(levels.reward, Times(MinimumReward, levels.risk))
  OBVIOUS
<1>7. PICK event, known, state :
        /\ event = Max({sweep.event, gap.event}) /\ known = Max({sweep.known, gap.known})
        /\ state = IF enough THEN "LEVELS_CONFIRMED" ELSE "BELOW_MINIMUM_REWARD_RISK"
  OBVIOUS
<1>8. PICK status : status = IF enough THEN "PASS" ELSE "FAIL"
  OBVIOUS
<1>9. judged = IF ~Less(Whole(0), levels.risk) \/ ~Less(Whole(0), levels.reward)
               THEN Observed("FAIL", "INVALID_LEVEL_ORDER")
               ELSE [Evidence("RISK_LEVELS", sweep.direction, event, known, state)
                       EXCEPT !.status = status]
  BY <1>1, <1>6, <1>7, <1>8 DEF Judged
<1>10. Less(Whole(0), levels.risk) /\ Less(Whole(0), levels.reward)
  BY <1>5, <1>9 DEF Observed
<1>11. o.status = status /\ o.direction = sweep.direction
  BY <1>5, <1>9, <1>10 DEF Evidence
<1>12. enough
  BY <1>8, <1>11
<1>13. QED BY <1>1, <1>4, <1>5, <1>6, <1>10, <1>11, <1>12

\* The cluster that a sweep is of.
LEMMA SweepPasses ==
    ASSUME ScanInv, NEW equal \in Possible, NEW o, o = LiquidityObservation(equal),
           o.status = "PASS"
    PROVE  /\ equal.status = "PASS"
           /\ \E i \in DOMAIN liquidity.zones :
                LET z == liquidity.zones[i]
                IN  /\ SweptZone = z /\ o.known = z.known /\ o.state = z.state
                    /\ o.direction = IF z.side = "BUYSIDE" THEN "SHORT" ELSE "LONG"
<1>1. Now \in Nat
  BY DEF ScanInv, BarsOK, Now
<1>2. PICK zones, z, direction, own, warmup :
        /\ zones = liquidity.zones /\ z = SweptZone /\ warmup = Max({ClusterAtr, ClusterWidth + 2})
        /\ direction = (IF z.side = "BUYSIDE" THEN "SHORT" ELSE "LONG")
        /\ own = IF zones = <<>> THEN Observed("FAIL", "NO_CLUSTER")
                 ELSE Evidence("CLUSTERED_LIQUIDITY", direction, z.event, z.known, z.state)
  OBVIOUS
<1>3. o = Answer(<<equal>>, warmup, own)
  BY <1>2 DEF LiquidityObservation, SweptZone
<1>4. o = own /\ DependencyProblem(<<equal>>, Now) = None
  BY <1>3, OwnAnswer
<1>5. zones # <<>>
  BY <1>2, <1>4 DEF Observed
<1>6. o.known = z.known /\ o.state = z.state /\ o.direction = direction
  BY <1>2, <1>4, <1>5 DEF Evidence
<1>7. \E i \in DOMAIN zones : z = zones[i]
  <2>1. IsList(zones) /\ \A i \in DOMAIN zones : Timely(zones[i], Now)
    BY <1>2 DEF ScanInv, ZonesInv, ZonesOK, TimesInv
  <2>2. DOMAIN zones # {}
    <3>1. PICK S : zones \in Seq(S)
      BY <2>1 DEF IsList
    <3>2. 1 \in DOMAIN zones
      BY <1>5, <3>1
    <3>3. QED BY <3>2
  <2>3. z = Foremost(zones, DOMAIN zones)
    BY <1>2 DEF SweptZone
  <2>4. QED BY <1>1, <2>1, <2>2, <2>3, ForemostTimely
<1>8. equal.status = "PASS"
  BY <1>1, <1>4, PassedOn
<1>9. QED BY <1>2, <1>6, <1>7, <1>8

LEMMA GapPasses ==
    ASSUME ScanInv, NEW shift, NEW o, o = GapObservation(shift), o.status = "PASS"
    PROVE  \E d \in Directions : \E i \in GapEnds(d) : PassingGap(d, i, shift, o)
<1>1. Now \in Nat /\ BarsOK /\ GapsInv
  BY DEF ScanInv, BarsOK, Now
<1>2. PICK g, known, own, warmup :
        /\ g = LiveGap /\ known = BothKnown(g, shift)
        /\ warmup = (IF NeedsDisplacement THEN DisplacementLength + 1 ELSE 3)
        /\ own = IF Live = {} THEN Observed("FAIL", "NO_ACTIVE_GAP")
                 ELSE IF shift.direction # g.direction \/ shift.known = None
                 THEN Observed("FAIL", "CONTRADICTORY_EVIDENCE")
                 ELSE Evidence("FAIR_VALUE_GAP", g.direction, g.event, known, g.state)
  OBVIOUS
<1>3. o = Answer(<<shift>>, warmup, own)
  BY <1>2 DEF GapObservation, LiveGap
<1>4. o = own
  BY <1>3, OwnAnswer
<1>5. Live # {} /\ shift.direction = g.direction
      /\ o = Evidence("FAIR_VALUE_GAP", g.direction, g.event, known, g.state)
  BY <1>2, <1>4 DEF Observed
<1>6. o.direction = g.direction /\ o.known = known
  BY <1>5 DEF Evidence
<1>7. PICK j \in Live : g = gaps[j] /\ Timely(g, Now)
  <2>1. IsList(gaps) /\ Live \in SUBSET (DOMAIN gaps)
    BY <1>1 DEF GapsInv, IsList, Live
  <2>2. \A i \in DOMAIN gaps : Timely(gaps[i], Now)
    BY <1>1, GapsAreTimely
  <2>3. g = Foremost(gaps, Live)
    BY <1>2 DEF LiveGap
  <2>4. QED BY <1>1, <1>5, <2>1, <2>2, <2>3, ForemostTimely
<1>8. g \in Defined /\ g.state # "FULL"
  BY <1>1, <1>7 DEF GapsInv, Range, Live
<1>9. PICK d \in Directions : \E i \in GapEnds(d) : g = GapAt(d, i)
  BY <1>1, <1>8, DefinedAre
<1>10. PICK i \in GapEnds(d) : g = GapAt(d, i)
  BY <1>9
<1>11. GapAt(d, i) \in GapRecords /\ GapAt(d, i).direction = d
  <2>1. i \in 3 .. Now
    BY DEF GapEnds, GapBars
  <2>2. QED BY <1>1, <2>1, GapAtIs
<1>12. QED BY <1>2, <1>5, <1>6, <1>7, <1>8, <1>10, <1>11 DEF BothKnown, PassingGap

\* The break, which is the last one that is emitted.
LEMMA BreakPasses ==
    ASSUME ScanInv, NEW d, NEW o, o = StructureObservation(d), o.direction # None
    PROVE  LET emitted == {i \in DOMAIN structure.events : Emits(structure.events[i])}
               last == structure.events[Max(emitted)]
           IN  /\ o.direction = Upward(last.kind) /\ o.known = last.event
               /\ last.event \in 0 .. Now
<1>1. PICK list, e, own : /\ list = structure.events /\ e = list[LastEmitted]
                          /\ own = IF LastEmitted = 0 THEN Observed("FAIL", "NO_BREAK")
                                   ELSE Evidence(e.type, Upward(e.kind), e.event, e.event,
                                                 "CONFIRMED_BREAK")
  OBVIOUS
<1>2. o = Answer(<<d>>, StructureWidth + 2, own)
  BY <1>1 DEF StructureObservation
<1>3. o = own
  BY <1>2, OwnAnswer
<1>4. LastEmitted # 0
  BY <1>1, <1>3 DEF Observed
<1>5. o.direction = Upward(e.kind) /\ o.known = e.event
  BY <1>1, <1>3, <1>4 DEF Evidence
<1>6. DOMAIN list = 1 .. Len(list) /\ IsList(list)
  BY <1>1, ListHas DEF ScanInv, ListsInv
<1>7. PICK I : I = {i \in 1 .. Len(list) : Emits(list[i])}
  OBVIOUS
<1>8. LastEmitted = Max(I)
  BY <1>1, <1>7, <1>4 DEF LastEmitted, SelectLastInSeq
<1>9. LastEmitted \in DOMAIN structure.events
  BY <1>1, <1>4, <1>6, LastEmittedIs
<1>10. e.event \in 0 .. Now
  BY <1>1, <1>9 DEF ScanInv, TimesInv
<1>11. e = structure.events[Max({i \in DOMAIN structure.events : Emits(structure.events[i])})]
  BY <1>1, <1>6, <1>7, <1>8
<1>12. QED BY <1>5, <1>10, <1>11

\* A swept cluster stands on pivots that its sweep left behind.
LEMMA SweptBacked ==
    ASSUME ScanInv, BackedInv, NEW i \in DOMAIN liquidity.zones, NEW z,
           z = liquidity.zones[i], z.state = "FULL", z.opposing # None,
           NEW kind, kind = IF z.side = "BUYSIDE" THEN "HIGH" ELSE "LOW"
    PROVE  /\ z.known \in 1 .. Now /\ z.swept = Extreme(kind, bars[z.known])
           /\ IsSweep(kind, z.known, Whole(z.opposing))
           /\ z.opposing \in Nat /\ PivotsSoFar(ClusterWidth) # {}
<1>1. Now \in Nat /\ BarsOK /\ TellsSweep(z, bars, Now) /\ ClusterWidth \in Nat \ {0}
  BY IctAssumption DEF ScanInv, ZonesInv, ZonesOK, BarsOK, Now
<1>2. PICK k, P : k = z.known /\ P = PivotsSoFar(ClusterWidth)
  OBVIOUS
<1>3. z.event \in Nat /\ k \in z.event + 1 .. Now
  BY <1>1, <1>2, SweptByThen DEF TellsSweep
<1>4. k \in 1 .. Now /\ k > z.event
  BY <1>1, <1>3
<1>5. ReachesFar(z, bars[k])
  BY <1>1, <1>2, <1>3, MinIsLeast DEF TellsSweep, Closes
<1>6. z.swept = Extreme(kind, bars[k])
  <2>1. z.swept = IF z.side = "BUYSIDE" THEN bars[k].high ELSE bars[k].low
    BY <1>1, <1>2 DEF TellsSweep
  <2>2. CASE z.side = "BUYSIDE"
    BY <2>1, <2>2 DEF Extreme
  <2>3. CASE z.side # "BUYSIDE"
    BY <2>1, <2>3 DEF Extreme
  <2>4. QED BY <2>2, <2>3
<1>7. PICK other \in Kinds : Backs(z, other, P)
  BY <1>2 DEF BackedInv, AllBacked
<1>8. other = kind
  BY <1>7 DEF Backs, Side, Kinds
<1>9. bars[k] \in Candles
  BY <1>1, <1>4 DEF BarsOK, Now
<1>10. \A p \in P : p \in PointRecords
  BY <1>1, <1>2, PivotsAreThere
<1>11. PICK S \in SUBSET P : /\ IsFiniteSet(S) /\ Cardinality(S) >= MinimumPivots
                             /\ \A p \in S : LeftBehind(z, kind, p)
  BY <1>7, <1>8 DEF Backs, DrawnOver
<1>12. PICK swept : swept = {p \in P : /\ p.kind = kind /\ p.index < k
                                       /\ Beyond(kind, bars[k].close, p.level)}
  OBVIOUS
<1>13. S \subseteq swept
  <2>1. SUFFICES ASSUME NEW p \in S PROVE p \in swept
    OBVIOUS
  <2>2. /\ p.kind = kind /\ p.index <= z.event
        /\ Beyond(kind, bars[k].close, p.level)
    BY <1>5, <1>9, <1>11 DEF LeftBehind
  <2>3. p.index \in Nat
    BY <1>10, <1>11 DEF PointRecords
  <2>4. p.index < k
    BY <1>3, <2>2, <2>3
  <2>5. QED BY <1>11, <1>12, <2>2, <2>4
<1>14. Cardinality(swept) >= MinimumPivots
  <2>1. IsFiniteSet(P)
    BY <1>1, <1>2, PivotsAreFinite
  <2>2. IsFiniteSet(swept)
    BY <1>12, <2>1, FS_Subset
  <2>3. Cardinality(S) <= Cardinality(swept)
    BY <1>13, <2>2, FS_Subset
  <2>4. Cardinality(S) \in Nat /\ Cardinality(swept) \in Nat
    BY <1>11, <2>2, FS_CardinalityType
  <2>5. MinimumPivots \in Nat
    BY IctAssumption
  <2>6. QED BY <1>11, <2>3, <2>4, <2>5
<1>15. PICK p \in P : p.kind = Opposite(kind) /\ p.index < k /\ p.level = z.opposing
  BY <1>2, <1>7, <1>8 DEF Backs, AimsAt
<1>16. IsSweep(kind, k, Whole(z.opposing))
  BY <1>2, <1>12, <1>14, <1>15 DEF IsSweep
<1>17. QED BY <1>2, <1>4, <1>6, <1>10, <1>15, <1>16 DEF PointRecords

\* The stop lies strictly behind the sweep: a history with a pivot has moved.
LEMMA StopMarginIs ==
    ASSUME BarsOK, RiskAtr <= Now, NEW width \in Nat \ {0}, PivotsSoFar(width) # {}
    PROVE  /\ Times(StopMargin, WilderAtr(bars, RiskAtr)) \in Margins
           /\ Times(StopMargin, WilderAtr(bars, RiskAtr)).num # 0
<1>1. RiskAtr \in Nat \ {0, 1} /\ StopMargin \in [num : Nat \ {0}, den : Nat \ {0}]
  BY RiskAssumption
<1>2. bars \in Seq(Candles) /\ Now = Len(bars)
  BY DEF BarsOK, Now
<1>3. PICK atr : atr = WilderAtr(bars, RiskAtr)
  OBVIOUS
<1>4. Moves(bars, Len(bars))
  BY <1>2, PivotsMove
<1>5. IsAverage(atr, RiskAtr # 1 /\ Moves(bars, Len(bars)))
  BY <1>1, <1>2, <1>3, WilderIsAverage
<1>6. atr \in [num : Nat, den : Nat \ {0}] /\ atr.num # 0
  BY <1>1, <1>4, <1>5 DEF IsAverage
<1>7. PICK N, D, M, E : N = StopMargin.num /\ D = StopMargin.den /\ M = atr.num /\ E = atr.den
  OBVIOUS
<1>8. N \in Nat \ {0} /\ M \in Nat \ {0} /\ D \in Nat \ {0} /\ E \in Nat \ {0}
  BY <1>1, <1>6, <1>7
<1>9. N * M \in Nat \ {0} /\ D * E \in Nat \ {0}
  BY <1>8
<1>10. Times(StopMargin, atr) = [num |-> N * M, den |-> D * E]
  BY <1>7 DEF Times
<1>11. QED BY <1>3, <1>9, <1>10 DEF Margins

\* The levels of a trade, which earn and risk something.
LEMMA LevelsAre ==
    ASSUME NEW direction \in {"LONG", "SHORT"}, NEW zone, NEW g \in GapRecords,
           NEW margin \in Margins, margin.num # 0,
           margin = Times(StopMargin, WilderAtr(bars, RiskAtr)),
           zone.swept \in Nat, OpposingText(zone) \in Nat, NEW levels,
           levels = Composition(direction, zone, g),
           Less(Whole(0), levels.risk), Less(Whole(0), levels.reward)
    PROVE  LET below(p, q) == IF direction = "LONG" THEN Less(p, q) ELSE Less(q, p)
           IN  /\ levels.entry = [num |-> g.lower + g.upper, den |-> 2]
               /\ levels.target = Whole(OpposingText(zone))
               /\ below(levels.stop, levels.entry) /\ below(levels.entry, levels.target)
               /\ below(levels.stop, Whole(zone.swept))
<1>1. PICK entry, stop, target, swept :
        /\ entry = [num |-> g.lower + g.upper, den |-> 2] /\ swept = zone.swept
        /\ stop = (IF direction = "LONG" THEN Minus(Whole(swept), margin)
                   ELSE Plus(Whole(swept), margin))
        /\ target = Whole(OpposingText(zone))
  OBVIOUS
<1>2. levels = [entry |-> entry, stop |-> stop, target |-> target,
                risk |-> IF direction = "LONG" THEN Minus(entry, stop) ELSE Minus(stop, entry),
                reward |-> IF direction = "LONG" THEN Minus(target, entry)
                           ELSE Minus(entry, target)]
  BY <1>1 DEF Composition
<1>3. /\ levels.entry = entry /\ levels.stop = stop /\ levels.target = target
      /\ levels.risk = IF direction = "LONG" THEN Minus(entry, stop) ELSE Minus(stop, entry)
      /\ levels.reward = IF direction = "LONG" THEN Minus(target, entry)
                         ELSE Minus(entry, target)
  BY <1>2
<1>4. entry \in [num : Int, den : Int] /\ target \in [num : Int, den : Int]
  BY <1>1 DEF GapRecords, Whole
<1>5. /\ Minus(Whole(swept), margin) \in [num : Int, den : Int]
      /\ Plus(Whole(swept), margin) \in [num : Int, den : Int]
      /\ Less(Minus(Whole(swept), margin), Whole(swept))
      /\ Less(Whole(swept), Plus(Whole(swept), margin))
  <2>1. swept \in Nat
    BY <1>1
  <2>2. QED BY <2>1, MarginLeaves
<1>6. stop \in [num : Int, den : Int]
  BY <1>1, <1>5
<1>7. CASE direction = "LONG"
  <2>1. stop = Minus(Whole(swept), margin)
    BY <1>1, <1>7
  <2>2. Less(Whole(0), Minus(entry, stop)) /\ Less(Whole(0), Minus(target, entry))
    BY <1>3, <1>7
  <2>3. Less(stop, entry)
    BY <1>4, <1>6, <2>2, DifferenceIs
  <2>4. Less(entry, target)
    BY <1>4, <2>2, DifferenceIs
  <2>5. Less(stop, Whole(swept))
    BY <1>5, <2>1
  <2>6. QED BY <1>1, <1>3, <1>7, <2>3, <2>4, <2>5
<1>8. CASE direction = "SHORT"
  <2>1. stop = Plus(Whole(swept), margin)
    BY <1>1, <1>8
  <2>2. Less(Whole(0), Minus(stop, entry)) /\ Less(Whole(0), Minus(entry, target))
    BY <1>3, <1>8
  <2>3. Less(entry, stop)
    BY <1>4, <1>6, <2>2, DifferenceIs
  <2>4. Less(target, entry)
    BY <1>4, <2>2, DifferenceIs
  <2>5. Less(Whole(swept), stop)
    BY <1>5, <2>1
  <2>6. QED BY <1>1, <1>3, <1>8, <2>3, <2>4, <2>5
<1>9. QED BY <1>7, <1>8

\* News is from after the sweep when the later of two times is.
LEMMA OneIsLater ==
    ASSUME Now \in Nat, NEW k \in Nat, NEW m \in 0 .. Now, NEW n \in 0 .. Now,
           ~(k >= Max({m, n}))
    PROVE  k < m \/ k < n
<1>1. {m, n} \in SUBSET (0 .. Now)
  OBVIOUS
<1>2. Max({m, n}) \in {m, n}
  BY <1>1, MaxIsGreatest
<1>3. QED BY <1>2

\* The parts of a setup together.
LEMMA SetupHolds ==
    ASSUME ScanInv, BackedInv
    PROVE  SetupIsInOrder
<1> DEFINE Ordered(levels, kind, way, last) ==
             LET below(p, q) == IF kind = "LOW" THEN Less(p, q) ELSE Less(q, p)
             IN  /\ below(levels.stop, levels.entry) /\ below(levels.entry, levels.target)
                 /\ ~Less(levels.reward, Times(MinimumReward, levels.risk))
                 /\ Upward(last.kind) = way
                 /\ \E i \in GapEnds(way), k \in 1 .. Now :
                      LET gap == GapAt(way, i)
                      IN  /\ gap.state # "FULL"
                          /\ levels.entry = [num |-> gap.lower + gap.upper, den |-> 2]
                          /\ IsSweep(kind, k, levels.target)
                          /\ below(levels.stop, Whole(Extreme(kind, bars[k])))
                          /\ k < last.event \/ k < gap.known
           KindOf(direction) == IF direction = "LONG" THEN "LOW" ELSE "HIGH"
           LastBreak == structure.events[Max({i \in DOMAIN structure.events :
                                           Emits(structure.events[i])})]
           InOrder(direction, equal) ==
             /\ equal.status = "PASS"
             /\ Ordered(LevelsOf(direction), KindOf(direction),
                        Upward(Opposite(KindOf(direction))), LastBreak)
<1>1. ASSUME NEW equal \in Possible, NEW sweep, sweep = LiquidityObservation(equal),
             NEW shift, shift = StructureObservation(sweep),
             NEW gap, gap = GapObservation(shift),
             NEW o, o = RiskObservation(sweep, gap), o.status = "PASS"
      PROVE  InOrder(o.direction, equal)
  <2>1. Now \in Nat /\ BarsOK
    BY DEF ScanInv, BarsOK, Now
  <2>2. PICK direction, levels : direction = sweep.direction /\ levels = LevelsOf(direction)
    OBVIOUS
  <2>3. /\ ~Contradicts(sweep, SweptZone, gap) /\ RiskAtr <= Now /\ o.direction = direction
        /\ Less(Whole(0), levels.risk) /\ Less(Whole(0), levels.reward)
        /\ ~Less(levels.reward, Times(MinimumReward, levels.risk))
    BY <1>1, <2>1, <2>2, RiskPasses
  <2>4. PICK z : z = SweptZone
    OBVIOUS
  <2>5. /\ sweep.status = "PASS" /\ gap.status = "PASS" /\ ~(sweep.known >= gap.known)
        /\ gap.direction = Wanted(direction) /\ sweep.state = "FULL"
        /\ z.swept # None /\ OpposingText(z) # None
    BY <2>2, <2>3, <2>4 DEF Contradicts
  <2>6. equal.status = "PASS"
    BY <1>1, <2>5, SweepPasses
  <2>7. PICK i \in DOMAIN liquidity.zones :
          /\ z = liquidity.zones[i] /\ sweep.known = z.known /\ sweep.state = z.state
          /\ direction = IF z.side = "BUYSIDE" THEN "SHORT" ELSE "LONG"
    BY <1>1, <2>2, <2>4, <2>5, SweepPasses
  <2>8. z.state = "FULL" /\ OpposingText(z) = z.opposing /\ z.opposing # None
    BY <2>5, <2>7 DEF OpposingText
  <2>9. PICK kind : kind = IF z.side = "BUYSIDE" THEN "HIGH" ELSE "LOW"
    OBVIOUS
  <2>10. /\ z.known \in 1 .. Now /\ z.swept = Extreme(kind, bars[z.known])
         /\ IsSweep(kind, z.known, Whole(z.opposing))
         /\ z.opposing \in Nat /\ PivotsSoFar(ClusterWidth) # {}
    BY <2>7, <2>8, <2>9, SweptBacked
  <2>11. PICK k : k = z.known
    OBVIOUS
  <2>12. z.swept \in Nat
    BY <2>1, <2>10, <2>11, CandleIs DEF BarsOK, Now, Extreme
  <2>13. PICK d \in Directions : \E j \in GapEnds(d) : PassingGap(d, j, shift, gap)
    BY <1>1, <2>5, GapPasses
  <2>14. PICK j \in GapEnds(d) : PassingGap(d, j, shift, gap)
    BY <2>13
  <2>15. PICK g : g = GapAt(d, j)
    OBVIOUS
  <2>16. /\ LiveGap = g /\ g.state # "FULL" /\ Timely(g, Now) /\ g \in GapRecords
         /\ gap.direction = d /\ shift.direction = d
         /\ gap.known = Max({g.known, shift.known})
    BY <2>14, <2>15 DEF PassingGap
  <2>17. PICK last : last = structure.events[Max({n \in DOMAIN structure.events :
                                                   Emits(structure.events[n])})]
    OBVIOUS
  <2>18. shift.direction # None
    BY <2>16, NoneAssumption DEF Directions
  <2>19. d = Upward(last.kind) /\ shift.known = last.event /\ last.event \in 0 .. Now
    BY <1>1, <2>16, <2>17, <2>18, BreakPasses
  <2>20. k < last.event \/ k < g.known
    <3>1. k \in Nat /\ g.known \in 0 .. Now
      BY <2>1, <2>10, <2>11, <2>16 DEF Timely
    <3>2. ~(k >= Max({g.known, last.event}))
      BY <2>5, <2>7, <2>11, <2>16, <2>19
    <3>3. QED BY <2>1, <2>19, <3>1, <3>2, OneIsLater
  <2>21. PICK margin : margin = Times(StopMargin, WilderAtr(bars, RiskAtr))
    OBVIOUS
  <2>22. margin \in Margins /\ margin.num # 0
    BY IctAssumption, <2>1, <2>3, <2>10, <2>21, StopMarginIs
  <2>23. levels = Composition(direction, z, g) /\ direction \in {"LONG", "SHORT"}
    BY <2>2, <2>4, <2>7, <2>16 DEF LevelsOf
  <2> DEFINE below(p, q) == IF direction = "LONG" THEN Less(p, q) ELSE Less(q, p)
  <2>24. /\ levels.entry = [num |-> g.lower + g.upper, den |-> 2]
         /\ levels.target = Whole(z.opposing)
         /\ below(levels.stop, levels.entry) /\ below(levels.entry, levels.target)
         /\ below(levels.stop, Whole(z.swept))
    BY <2>3, <2>8, <2>10, <2>12, <2>21, <2>22, <2>23, <2>16, LevelsAre
  <2>25. /\ kind = (IF direction = "LONG" THEN "LOW" ELSE "HIGH")
         /\ direction = "LONG" <=> kind = "LOW"
    BY <2>7, <2>9
  <2>26. d = Upward(Opposite(kind))
    BY <2>5, <2>16, <2>23, <2>25 DEF Wanted, Upward, Opposite
  <2>27. /\ IsSweep(kind, k, levels.target) /\ k \in 1 .. Now
         /\ Whole(z.swept) = Whole(Extreme(kind, bars[k]))
    BY <2>10, <2>11, <2>24
  <2>28. InOrder(direction, equal)
    <3>1. PICK way : way = Upward(Opposite(kind))
      OBVIOUS
    <3>2. j \in GapEnds(way) /\ g = GapAt(way, j) /\ Upward(last.kind) = way
      BY <2>15, <2>19, <2>26, <3>1
    <3>3. /\ g.state # "FULL"
          /\ levels.entry = [num |-> g.lower + g.upper, den |-> 2]
          /\ IsSweep(kind, k, levels.target)
          /\ below(levels.stop, Whole(Extreme(kind, bars[k])))
          /\ k < last.event \/ k < g.known
      BY <2>16, <2>20, <2>24, <2>27
    <3> DEFINE beneath(p, q) == IF kind = "LOW" THEN Less(p, q) ELSE Less(q, p)
    <3>4. \A p, q : below(p, q) => beneath(p, q)
      BY <2>25
    <3>5. /\ beneath(levels.stop, levels.entry) /\ beneath(levels.entry, levels.target)
          /\ beneath(levels.stop, Whole(Extreme(kind, bars[k])))
      BY <2>24, <3>3, <3>4
    <3> HIDE DEF below, beneath
    <3>6. \E i1 \in GapEnds(way), k1 \in 1 .. Now :
            LET found == GapAt(way, i1)
            IN  /\ found.state # "FULL"
                /\ levels.entry = [num |-> found.lower + found.upper, den |-> 2]
                /\ IsSweep(kind, k1, levels.target)
                /\ beneath(levels.stop, Whole(Extreme(kind, bars[k1])))
                /\ k1 < last.event \/ k1 < found.known
      BY <2>27, <3>2, <3>3, <3>5
    <3>7. Ordered(levels, kind, way, last)
      BY <2>3, <3>2, <3>5, <3>6 DEF beneath
    <3> HIDE DEF Ordered
    <3>8. QED BY <2>2, <2>6, <2>17, <2>25, <3>1, <3>7
  <2>29. QED BY <2>3, <2>28
<1> HIDE DEF InOrder
<1>2. ASSUME NEW equal \in Possible, NEW sweep \in {LiquidityObservation(equal)},
             NEW gapFound \in {GapObservation(StructureObservation(sweep))},
             NEW o \in {RiskObservation(sweep, gapFound)}, o.status = "PASS"
      PROVE  InOrder(o.direction, equal)
  BY <1>1, <1>2
<1>3. QED BY <1>2 DEF SetupIsInOrder, InOrder

\* A trade that passes stands on what the history holds: enough pivots that one close
\* left behind, a level beyond them to aim at, the gap that is open the way of the last
\* emitted break, and news from after the sweep.
THEOREM SetupsAreInOrder == Spec => []SetupIsInOrder
<1>0. Unread => PointsInv /\ TrendInv /\ BackedInv
  <2> SUFFICES ASSUME Unread PROVE BackedInv
    BY BreaksInit
  <2>1. liquidity.zones = <<>>
    BY DEF Unread, IctInit, NoBook
  <2>2. QED BY <2>1 DEF BackedInv, AllBacked
<1>1. Init => PointsInv /\ TrendInv /\ BackedInv
  BY <1>0, AtFirst
<1>2. ScanInv /\ PointsInv /\ TrendInv /\ BackedInv /\ [Next]_vars
        => PointsInv' /\ TrendInv' /\ BackedInv'
  <2> SUFFICES ASSUME ScanInv, PointsInv, TrendInv, BackedInv, [Next]_vars PROVE BackedInv'
    BY BreaksNext
  <2>1. CASE NextBar
    BY <2>1, BackedStep DEF NextBar, IctBar, ScanInv
  <2>2. CASE UNCHANGED vars
    <3>1. bars' = bars /\ liquidity' = liquidity
      BY <2>2 DEF vars, ictVars
    <3>2. Now' = Now
      BY <3>1 DEF Now
    <3>3. PivotsSoFar(ClusterWidth)' = PivotsSoFar(ClusterWidth)
      BY <3>1, <3>2 DEF PivotsSoFar
    <3>4. PICK P, zones : P = PivotsSoFar(ClusterWidth) /\ zones = liquidity.zones
      OBVIOUS
    <3>5. PivotsSoFar(ClusterWidth)' = P /\ liquidity'.zones = zones /\ AllBacked(zones, P)
      BY <3>1, <3>3, <3>4 DEF BackedInv
    <3>6. QED BY <3>5 DEF BackedInv, AllBacked, Backs, DrawnOver, HasLevel, AimsAt, LeftBehind
  <2>3. CASE Slide
    <3>1. Unread'
      BY <2>3, Restarts DEF ScanInv
    <3>2. QED BY <3>1, <1>0, PTL
  <2>4. QED BY <2>1, <2>2, <2>3 DEF Next
<1>3. ScanInv /\ BackedInv => SetupIsInOrder
  BY SetupHolds
<1>4. QED BY <1>1, <1>2, <1>3, ScanHolds, PTL DEF Spec

=============================================================================
