------------------------------- MODULE Replay -------------------------------
(***************************************************************************)
(* Which bars an evaluation sees.  A minute is numbered by its open time,  *)
(* a bar of a role is its first minute, and an evaluation is at the close  *)
(* of a minute.  The engine evaluates at the latest closed minute what it  *)
(* loaded for that; the replay cuts its bars out of one long range.        *)
(***************************************************************************)
EXTENDS Integers, FiniteSets, FiniteSetsExt

CONSTANTS
    Roles,     \* logical roles, "execution" among them
    Minutes,   \* [Roles -> Nat], the timeframe of each
    History    \* history_minutes

ASSUME ReplayAssumption ==
    /\ "execution" \in Roles
    /\ Minutes \in [Roles -> Nat \ {0}]
    /\ History \in Nat \ {0}

-----------------------------------------------------------------------------
\* Last minute of a bar.
LastMinute(role, bar) == bar + Minutes[role] - 1

\* Bars that are full: each of their minutes is there and closed.
Complete(role, rows, time) ==
    {bar \in rows : /\ bar % Minutes[role] = 0
                    /\ LastMinute(role, bar) <= time
                    /\ bar .. LastMinute(role, bar) \subseteq rows}

\* What the engine loads for an evaluation, and the bars it makes of it.
Window(time) == time - History + 1 .. time
LiveBars(role, time) == Complete(role, Window(time), time)

-----------------------------------------------------------------------------
\* What a period needs to be replayed: a whole history before its first minute.
Required(period) == period.start - History .. period.end

\* Closes of the execution bars that lie in the period.
Schedule(rows, period) ==
    {LastMinute("execution", bar) :
       bar \in {b \in Complete("execution", rows, period.end) : b >= period.start}}

\* Bars that closed within the history before the evaluation.
SeenWithEdge(role, rows, time) ==
    {bar \in Complete(role, rows, Max(rows)) :
       time - History <= LastMinute(role, bar) /\ LastMinute(role, bar) <= time}
Seen(role, rows, time) ==
    {bar \in Complete(role, rows, Max(rows)) :
       time - History < LastMinute(role, bar) /\ LastMinute(role, bar) <= time}
=============================================================================
