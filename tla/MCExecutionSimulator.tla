------------------------ MODULE MCExecutionSimulator ------------------------
(* Prices 1 .. 5 around an entry at 3: a long and a short decision, and a long *)
(* one with a wider stop and a nearer target.                                  *)
EXTENDS ExecutionSimulator

Candle(o, h, l, c) == [open |-> o, high |-> h, low |-> l, close |-> c]
Decision(dir, e, s, t) ==
    [direction |-> dir, entry |-> e, stop |-> s, target |-> t]

\* Far from the entry, back to it, beyond a stop within the candle and by a gap,
\* at a target and through everything; from above and, mirrored, from below.
Above ==
    {Candle(4, 4, 4, 4), Candle(4, 5, 3, 4), Candle(3, 3, 2, 2),
     Candle(1, 1, 1, 1), Candle(4, 5, 4, 5)}
Mirrored(c) == Candle(6 - c.open, 6 - c.low, 6 - c.high, 6 - c.close)
MCCandles == Above \cup {Mirrored(c) : c \in Above} \cup {Candle(4, 5, 1, 2)}

MCDecisions ==
    {Decision("LONG", 3, 2, 5), Decision("LONG", 3, 1, 4),
     Decision("SHORT", 3, 4, 1)}
=============================================================================
