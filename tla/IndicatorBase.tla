--------------------------- MODULE IndicatorBase ----------------------------
(***************************************************************************)
(* What the indicator plugins share: one role's closed candles, the true   *)
(* range and its Wilder average.                                           *)
(*                                                                         *)
(* Prices are numbers on a grid, averages exact fractions, and a time is   *)
(* the position of the candle that closes then.  A plugin scans a window   *)
(* of closed candles at every evaluation; the models read it bar by bar,   *)
(* so that their state is also the answer for every shorter window.  The   *)
(* next evaluation has moved the window on: the oldest bars have left it,  *)
(* and the scan begins anew.                                               *)
(***************************************************************************)
EXTENDS Observations, Integers, Sequences, SequencesExt, FiniteSetsExt, TLC

CONSTANTS
    Candles,   \* candles that may close
    MayFollow(_, _),  \* bound: the candles that are looked at after some bars
    MaySlide(_, _),   \* bound: the windows that are moved on, and by how many bars
    WindowBars \* bars of the role in history_minutes

ASSUME CandlesAssumption ==
    \A c \in Candles :
        /\ c \in [open : Nat, high : Nat, low : Nat, close : Nat]
        /\ c.low <= c.open /\ c.open <= c.high
        /\ c.low <= c.close /\ c.close <= c.high

\* None is no number, no kind or direction, no pivot and no answer to a problem with
\* dependencies.
ASSUME NoneAssumption ==
    /\ None \notin Nat \cup {"HIGH", "LOW", "BULLISH", "BEARISH"}
    /\ None \notin [level : Nat, index : Nat, crossed : BOOLEAN]
    /\ None \notin [num : Nat, den : Nat]
    /\ None \notin [status : Statuses, type : {None}, direction : {None},
                    state : {"INVALID_DEPENDENCY_EVIDENCE", "FAILED_DEPENDENCY",
                             "UNAVAILABLE"},
                    event : Nat \cup {None}, known : Nat \cup {None}]

VARIABLES
    bars,    \* what the scan has read of the window, oldest first
    former   \* the window's first bars, those the evaluation before had read too

Now == Len(bars)

\* Candles are contiguous and closed: bars that were there before come again, then
\* those that closed since.
ReadsBar ==
    /\ Now < WindowBars
    /\ \E c \in Candles :
         /\ \/ Now < Len(former) /\ c = former[Now + 1]
            \/ Now >= Len(former) /\ MayFollow(bars, c)
         /\ bars' = Append(bars, c)
    /\ UNCHANGED former

\* The next evaluation is of a window that begins k bars later.  A role whose bars are
\* longer than a minute has one bar fewer while those at the two ends are incomplete.
WindowMoves(k) ==
    /\ Now >= WindowBars - 1
    /\ MaySlide(bars, k)
    /\ bars' = <<>>
    /\ former' = SubSeq(bars, k + 1, Now)

-----------------------------------------------------------------------------
\* High and low are each other's mirror image in all that follows.
Kinds == {"HIGH", "LOW"}
Opposite(kind) == IF kind = "HIGH" THEN "LOW" ELSE "HIGH"
Upward(kind) == IF kind = "HIGH" THEN "BULLISH" ELSE "BEARISH"
Extreme(kind, c) == IF kind = "HIGH" THEN c.high ELSE c.low
Beyond(kind, x, y) == IF kind = "HIGH" THEN x > y ELSE x < y

\* Fractions with a positive denominator.
Whole(n) == [num |-> n, den |-> 1]
Less(p, q) == p.num * q.den < q.num * p.den
Plus(p, q) == [num |-> p.num * q.den + q.num * p.den, den |-> p.den * q.den]
Minus(p, q) == Plus(p, [q EXCEPT !.num = -@])
Times(p, q) == [num |-> p.num * q.num, den |-> p.den * q.den]

Distance(x, y) == IF x < y THEN y - x ELSE x - y

TrueRange(b, i) ==
    LET within == b[i].high - b[i].low
    IN  IF i = 1 THEN within
        ELSE Max({within, Distance(b[i].high, b[i - 1].close),
                  Distance(b[i].low, b[i - 1].close)})

TotalRange(b, i) ==
    LET total[k \in 0 .. i] == IF k = 0 THEN 0 ELSE total[k - 1] + TrueRange(b, k)
    IN  total[i]

\* current * (length - 1) + range, divided by length, from the first average on.
Smoothed(current, range, length) ==
    [num |-> current.num * (length - 1) + range * current.den,
     den |-> current.den * length]
WilderAtr(b, length) ==
    LET current[i \in length .. Len(b)] ==
          IF i = length THEN [num |-> TotalRange(b, length), den |-> length]
          ELSE Smoothed(current[i - 1], TrueRange(b, i), length)
    IN  IF Len(b) < length THEN None ELSE current[Len(b)]

Body(c) == Distance(c.close, c.open)

\* The moving average of the bodies that end with bar i.
TotalBody(b) == FoldLeft(LAMBDA sum, c : sum + Body(c), 0, b)
MeanBody(b, i, length) ==
    IF i < length THEN None
    ELSE [num |-> TotalBody(SubSeq(b, i - length + 1, i)), den |-> length]

-----------------------------------------------------------------------------
\* A plugin's own answer counts when nothing is wrong with its dependencies and
\* enough candles have closed.
Answer(dependencies, warmup, own) ==
    IF DependencyProblem(dependencies, Now) # None
    THEN DependencyProblem(dependencies, Now)
    ELSE IF Now < warmup THEN Observed("UNAVAILABLE", "UNAVAILABLE") ELSE own
=============================================================================
