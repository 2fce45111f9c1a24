---------------------------- MODULE MCIndicators ----------------------------
(* Three families of histories.  One is of four candles or of their mirror       *)
(* images: a narrow one at the bottom, two in the middle, one at the top.  One is *)
(* near a script in which a cluster is swept when the gap and the break are old.  *)
(* In the third two zones are drawn over one oldest pivot, with another between.  *)
EXTENDS Indicators

Candle(o, h, l, c) == [open |-> o, high |-> h, low |-> l, close |-> c]
Fraction(n, d) == [num |-> n, den |-> d]
Mirrored(c) == Candle(7 - c.open, 7 - c.low, 7 - c.high, 7 - c.close)

First == Candle(4, 4, 3, 3)
Up == Candle(4, 5, 4, 5)
Top == Candle(6, 6, 6, 6)
Upright == {First, Up, Top, Candle(1, 3, 1, 1)}

Script ==
    <<Candle(1, 1, 1, 1), Candle(5, 8, 5, 7), Candle(3, 4, 3, 3), Candle(6, 6, 6, 6),
      Candle(3, 4, 3, 4), Candle(5, 8, 5, 7), Candle(1, 4, 1, 4), Candle(2, 5, 2, 3),
      Candle(1, 2, 1, 1)>>

Trough == Candle(5, 7, 1, 5)
Peak(high) == Candle(10, high, 8, 10)
Peaks ==
    <<Trough, Peak(26), Trough, Peak(22), Trough, Peak(18), Trough, Peak(26), Trough>>

MCCandles ==
    Upright \cup {Mirrored(c) : c \in Upright} \cup Range(Script) \cup Range(Peaks)
MCMayFollow(b, c) ==
    CASE b = <<>> -> c \in {First, Mirrored(First), Script[1], Trough}
      [] b # <<>> /\ b[1] = Script[1] -> c \in {Script[Len(b)], Script[Len(b) + 1]}
      [] b # <<>> /\ b[1] = Trough -> c \in {Peaks[Len(b)], Peaks[Len(b) + 1]}
      [] Len(b) = 1 /\ b[1] = First -> c \in {Up, Top}
      [] Len(b) = 1 /\ b[1] = Mirrored(First) -> c \in {Mirrored(Up), Mirrored(Top)}
      [] OTHER -> IF b[1] = Mirrored(First) THEN Mirrored(c) \in Upright
                  ELSE c \in Upright

\* Upright windows that repeat their third to fifth bar, moved on by one bar or two.
MCMaySlide(b, k) ==
    /\ k <= 2
    /\ b[1] = First
    /\ \A i \in 6 .. Len(b) : b[i] = b[i - 3]
    /\ \A i \in DOMAIN b : b[i] \in Upright

MCThreshold == Fraction(1, 2)
MCMargin == Fraction(1, 2)
MCStopMargin == Fraction(1, 10)
MCMinimumReward == Fraction(1, 2)
=============================================================================
