----------------------------- MODULE CandleSync -----------------------------
(***************************************************************************)
(* The candle store of one instrument and the processes that fill it: the  *)
(* engine run, which needs the last History closed minutes, and            *)
(* `market-data sync-range` or a backtest, which need any closed range.    *)
(* A process takes the writer lock, finds the minutes it lacks and fetches *)
(* them range by range, page by page; every page is one transaction over   *)
(* candles_1m and sync_state.  The exchange publishes minutes late, revises*)
(* them, answers short and may be out of reach; a process may die between  *)
(* two pages.                                                              *)
(*                                                                         *)
(* Time is counted in minutes; the content of a candle is the number of    *)
(* times the exchange has revised it.                                      *)
(***************************************************************************)
EXTENDS Integers, FiniteSets, FiniteSetsExt

CONSTANTS
    Procs,        \* processes that sync
    Providers,    \* market data adapters, of which one is configured
    PageLimit,    \* _page_limit of the adapter
    History,      \* history_minutes of the strategy
    MaxMinute,    \* bound: the minutes are 0 .. MaxMinute
    MaxRevisions, \* bound: candles the exchange changes
    MaxCrashes,   \* bound: processes that die
    MaxRanges,    \* bound: ranges an operator asks for
    Absent,       \* no candle
    NoMinute,     \* the None of an optional minute
    NoProc        \* nobody

Minutes == 0 .. MaxMinute
Versions == 0 .. MaxRevisions

ASSUME CandleAssumption ==
    /\ IsFiniteSet(Procs)
    /\ Providers \subseteq {"binance_usdm", "okx_swap"}
    /\ PageLimit \in Nat \ {0}
    /\ History \in Nat \ {0}
    /\ MaxMinute \in Nat /\ History <= MaxMinute + 1
    /\ MaxRevisions \in Nat /\ MaxCrashes \in Nat /\ MaxRanges \in Nat
    /\ Absent \notin Versions /\ NoMinute \notin Minutes /\ NoProc \notin Procs

VARIABLES
    provider,   \* the configured adapter
    closed,     \* latest_closed_open_time_ms
    market,     \* what the exchange has published
    stored,     \* candles_1m
    synced,     \* sync_state.last_completed_open_time_ms
    lock,       \* holder of the writer lock
    pc,         \* of each process: idle, ranging over its gaps, or paging
    want,       \* the minutes it was asked for
    missing,    \* those it has still to fetch
    request,    \* bounds of the next page
    accepted,   \* minutes it has accepted of the range it is fetching
    clash,      \* a page disagreed with a stored candle
    revisions, crashes, ranges

marketVars == <<provider, closed, market, revisions>>
procVars == <<pc, want, missing, request, accepted>>
vars == <<marketVars, stored, synced, lock, procVars, clash, crashes, ranges>>

Present(table) == {t \in Minutes : table[t] # Absent}

Init ==
    /\ provider \in Providers
    /\ closed \in History - 1 .. MaxMinute
    /\ market = [t \in Minutes |-> Absent]
    /\ stored = [t \in Minutes |-> Absent]
    /\ synced = NoMinute
    /\ lock = NoProc
    /\ pc = [p \in Procs |-> "idle"]
    /\ want = [p \in Procs |-> {}]
    /\ missing = [p \in Procs |-> {}]
    /\ request = [p \in Procs |-> <<0, 0>>]
    /\ accepted = [p \in Procs |-> {}]
    /\ clash = FALSE
    /\ revisions = 0 /\ crashes = 0 /\ ranges = 0

-----------------------------------------------------------------------------
(* The exchange.                                                            *)

CloseMinute ==
    /\ closed < MaxMinute
    /\ closed' = closed + 1
    /\ UNCHANGED <<provider, market, revisions, stored, synced, lock, procVars,
                   clash, crashes, ranges>>

Publish(t) ==
    /\ t <= closed
    /\ market[t] = Absent
    /\ market' = [market EXCEPT ![t] = 0]
    /\ UNCHANGED <<provider, closed, revisions, stored, synced, lock, procVars,
                   clash, crashes, ranges>>

Revise(t) ==
    /\ market[t] # Absent
    /\ revisions < MaxRevisions
    /\ market' = [market EXCEPT ![t] = @ + 1]
    /\ revisions' = revisions + 1
    /\ UNCHANGED <<provider, closed, stored, synced, lock, procVars, clash,
                   crashes, ranges>>

-----------------------------------------------------------------------------
(* A sync of one process.                                                   *)

AfterSyncState(minutes) ==
    {t \in minutes : stored[t] = Absent /\ (synced = NoMinute \/ t > synced)}
WholeWindow(minutes) == minutes
\* Rows, not the sync state, say what is missing.
Lacks(minutes) == {t \in minutes : stored[t] = Absent}

Begin(p, minutes) ==
    /\ pc[p] = "idle"
    /\ lock = NoProc
    /\ lock' = p
    /\ pc' = [pc EXCEPT ![p] = "ranging"]
    /\ want' = [want EXCEPT ![p] = minutes]
    /\ missing' = [missing EXCEPT ![p] = Lacks(minutes)]
    /\ UNCHANGED <<marketVars, stored, synced, request, accepted, clash, crashes>>

\* An engine run: latest_open - (history_minutes - 1) .. latest_open.
BeginRun(p) ==
    /\ Begin(p, closed - (History - 1) .. closed)
    /\ UNCHANGED ranges

\* sync-range or a backtest, which asks for whatever closed range it likes.
BeginRange(p, first, last) ==
    /\ last <= closed
    /\ ranges < MaxRanges
    /\ ranges' = ranges + 1
    /\ Begin(p, first .. last)

\* _missing_ranges: gaps are visited upwards, each as long as it gets.
FirstGap(p) ==
    LET start == Min(missing[p]) IN
    {t \in missing[p] : start .. t \subseteq missing[p]}

NextRange(p) ==
    /\ pc[p] = "ranging"
    /\ missing[p] # {}
    /\ pc' = [pc EXCEPT ![p] = "paging"]
    /\ request' = [request EXCEPT ![p] = <<Min(FirstGap(p)), Max(FirstGap(p))>>]
    /\ accepted' = [accepted EXCEPT ![p] = {}]
    /\ UNCHANGED <<marketVars, stored, synced, lock, want, missing, clash,
                   crashes, ranges>>

\* The n rows an exchange answers with: Binance counts up from the start of the
\* range, OKX down from its end and past its start.
Ascending == provider = "binance_usdm"
Rows(from, to, n) ==
    LET available == IF Ascending THEN Present(market) \cap (from .. to)
                                  ELSE Present(market) \cap (0 .. to)
        ahead(t) == IF Ascending THEN {u \in available : u < t}
                                 ELSE {u \in available : u > t} IN
    {t \in available : Cardinality(ahead(t)) < n}

\* What the adapters make of the rows.
PageEnds(rows, page, from, to) ==
    IF Ascending
    THEN Max(page) + 1 > to
    ELSE rows # page \/ Min(page) <= from \/ Cardinality(rows) < PageLimit
RefetchesEdge(page, from, to) ==
    IF Ascending THEN <<Max(page), to>> ELSE <<from, Min(page)>>
Remaining(page, from, to) ==
    IF Ascending THEN <<Max(page) + 1, to>> ELSE <<from, Min(page) - 1>>

\* _validate_page
PageIsSound(page) == page # {} /\ page = Min(page) .. Max(page)

\* _advance_sync_state: the prefix that starts at the required minute, never
\* across a gap between it and the prefix already recorded.
JoinsAnyway(required) == TRUE
JoinsPrefix(required) == synced # NoMinute => synced + 1 >= required
Prefix(table, required) ==
    {t \in Minutes : t >= required /\ required .. t \subseteq Present(table)}

Advanced(table, required) ==
    IF JoinsPrefix(required) /\ Prefix(table, required) # {}
    THEN Max(Prefix(table, required) \cup ({synced} \ {NoMinute}))
    ELSE synced

Clashes(page) == \E t \in page : stored[t] \notin {Absent, market[t]}

Leave(p) ==
    /\ lock' = NoProc
    /\ pc' = [pc EXCEPT ![p] = "idle"]
    /\ want' = [want EXCEPT ![p] = {}]
    /\ missing' = [missing EXCEPT ![p] = {}]
    /\ request' = [request EXCEPT ![p] = <<0, 0>>]
    /\ accepted' = [accepted EXCEPT ![p] = {}]

\* Pages of a range that is complete must add up to it.
TrustsAdapter(p, page) == TRUE
RangeIsWhole(p, page) == accepted[p] \cup page = FirstGap(p)

\* The page is stored; the range is done when the adapter says so, and must then
\* be whole.
StorePage(p, rows, page) ==
    LET from == request[p][1]
        to == request[p][2]
        table == [t \in Minutes |-> IF t \in page THEN market[t] ELSE stored[t]] IN
    /\ stored' = table
    /\ synced' = Advanced(table, Min(FirstGap(p)))
    /\ \/ /\ PageEnds(rows, page, from, to)
          /\ RangeIsWhole(p, page)
          /\ pc' = [pc EXCEPT ![p] = "ranging"]
          /\ missing' = [missing EXCEPT ![p] = @ \ FirstGap(p)]
          /\ UNCHANGED <<lock, want, request, accepted>>
       \/ /\ PageEnds(rows, page, from, to)
          /\ ~RangeIsWhole(p, page)
          /\ Leave(p)
       \/ /\ ~PageEnds(rows, page, from, to)
          /\ request' = [request EXCEPT ![p] = Remaining(page, from, to)]
          /\ accepted' = [accepted EXCEPT ![p] = @ \cup page]
          /\ UNCHANGED <<lock, pc, want, missing>>

Fetch(p, n) ==
    LET from == request[p][1]
        to == request[p][2]
        rows == Rows(from, to, n)
        page == rows \cap (from .. to) IN
    /\ pc[p] = "paging"
    /\ clash' = (clash \/ (PageIsSound(page) /\ Clashes(page)))
    /\ IF PageIsSound(page) /\ ~Clashes(page)
       THEN StorePage(p, rows, page)
       ELSE Leave(p) /\ UNCHANGED <<stored, synced>>
    /\ UNCHANGED <<marketVars, crashes, ranges>>

\* The provider stays out of reach.
FetchFails(p) ==
    /\ pc[p] = "paging"
    /\ Leave(p)
    /\ UNCHANGED <<marketVars, stored, synced, clash, crashes, ranges>>

\* All gaps are filled; the whole range is read back and must be contiguous.
Finish(p) ==
    /\ pc[p] = "ranging"
    /\ missing[p] = {}
    /\ Leave(p)
    /\ UNCHANGED <<marketVars, stored, synced, clash, crashes, ranges>>

Crash(p) ==
    /\ pc[p] # "idle"
    /\ crashes < MaxCrashes
    /\ crashes' = crashes + 1
    /\ Leave(p)
    /\ UNCHANGED <<marketVars, stored, synced, clash, ranges>>

Exchange == CloseMinute \/ \E t \in Minutes : Publish(t) \/ Revise(t)
Continue(p) == NextRange(p) \/ (\E n \in 0 .. PageLimit : Fetch(p, n)) \/ Finish(p)
Sync(p) ==
    \/ BeginRun(p)
    \/ \E first, last \in Minutes : first <= last /\ BeginRange(p, first, last)
    \/ Continue(p)
    \/ FetchFails(p)
    \/ Crash(p)

Next == Exchange \/ \E p \in Procs : Sync(p)

Spec == Init /\ [][Next]_vars

\* The exchange publishes every closed minute and, asked again and again, answers
\* in full; the scheduler keeps starting runs, which do not stop half-way.
FairSpec ==
    /\ Spec
    /\ WF_vars(CloseMinute)
    /\ \A t \in Minutes : WF_vars(Publish(t))
    /\ \A p \in Procs :
         /\ WF_vars(Continue(p))
         /\ SF_vars(BeginRun(p))
         /\ SF_vars(Fetch(p, PageLimit))

-----------------------------------------------------------------------------
TypeOK ==
    /\ provider \in Providers
    /\ closed \in History - 1 .. MaxMinute
    /\ market \in [Minutes -> 0 .. revisions \cup {Absent}]
    /\ stored \in [Minutes -> Versions \cup {Absent}]
    /\ synced \in Minutes \cup {NoMinute}
    /\ lock \in Procs \cup {NoProc}
    /\ pc \in [Procs -> {"idle", "ranging", "paging"}]
    /\ want \in [Procs -> SUBSET Minutes]
    /\ missing \in [Procs -> SUBSET Minutes]
    /\ request \in [Procs -> Minutes \X Minutes]
    /\ accepted \in [Procs -> SUBSET Minutes]
    /\ clash \in BOOLEAN
    /\ revisions \in 0 .. MaxRevisions
    /\ crashes \in 0 .. MaxCrashes
    /\ ranges \in 0 .. MaxRanges

\* A sync asks only for minutes no row holds, whoever stored the others and
\* however a sync before it ended, so a candle the exchange has revised never
\* meets its older self and no sync dies of SOURCE_CONFLICT.
RevisionsNeverClash == ~clash

\* Once sync_state names a minute it only moves up, and every minute it passes
\* is stored: pages that come newest first, gaps filled in any order and ranges
\* far away from it never carry it over a hole.
SyncStateSkipsNoGap ==
    [][synced # NoMinute /\ synced' # synced =>
         /\ synced' > synced
         /\ synced + 1 .. synced' \subseteq Present(stored')]_vars

\* A sync that has got through its gaps holds its whole range, although the
\* adapters judge by a page alone that a range is complete and pages before were
\* lost to crashes and errors: the read-back at the end never fails.
FinishedRangeIsWhole ==
    \A p \in Procs : pc[p] = "ranging" /\ missing[p] = {} =>
        want[p] \subseteq Present(stored)

\* An engine's window is in the end complete, whatever hole an interrupted or a
\* short sync has left below or above the minute sync_state names.
WindowFills ==
    <>[](closed - (History - 1) .. closed \subseteq Present(stored))
=============================================================================
