----------------------------- MODULE MCBacktest -----------------------------
(* Periods that overlap, one of which begins too early and one of which executes on  *)
(* the timeframe of the checked-in strategy; bars of two and of three minutes.       *)
EXTENDS Backtest

MCRoles == {"execution", "context"}
MCMinutes == [role \in MCRoles |-> IF role = "execution" THEN 2 ELSE 3]
Period(start, end, timeframe) == [start |-> start, end |-> end, timeframe |-> timeframe]
MCPeriods == {Period(4, 6, "5m"), Period(5, 9, "1h"), Period(2, 6, "5m"), Period(6, 8, "15m")}
Interchangeable == Permutations(Procs)
=============================================================================
