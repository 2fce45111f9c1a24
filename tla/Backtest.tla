------------------------------ MODULE Backtest ------------------------------
(***************************************************************************)
(* Backtest commands beside the engine: each makes the candles of its      *)
(* range ready and takes a snapshot of them under the writer lock, replays *)
(* the snapshot offline, and publishes a directory of artifacts.           *)
(*                                                                         *)
(*   idle -> locking -> syncing -> snapshot -> replay -> simulate          *)
(*        -> writing -> sealing -> checking -> renaming -> linking -> done *)
(*                                          -> comparing -> done           *)
(*   any -> failed, crashed                                                *)
(*                                                                         *)
(* The identity of a backtest hashes its configuration, its code and its   *)
(* candles; these never change once stored, so that the period stands for  *)
(* it.                                                                     *)
(***************************************************************************)
EXTENDS Replay, Sequences, TLC

CONSTANTS
    Procs,               \* backtest commands
    Periods,         \* [start, end, timeframe]: minutes, and what is executed on
    FirstMinute,     \* latest closed minute in the beginning
    MaxMinute,       \* bound: latest closed minute
    MaxFaults,       \* bound: crashes and power failures
    MaxEdits,        \* bound: results edited by hand
    Nobody, Engine,  \* who else may hold the lock
    None

VARIABLES
    minute,     \* latest closed minute
    rows,       \* stored minutes
    lock,       \* engine.lock
    pc, period,
    workspace,  \* commands whose temporary directory exists
    snapshot,   \* minutes in the snapshot
    staging,    \* artifacts in the staging directory, None when there is none
    seen,       \* what a command has read of an existing result
    answer,     \* what the command has reported
    results,    \* [Periods -> content of the published directory]
    linked,     \* results that survive a power failure
    faults, edits

storeVars == <<minute, rows, lock>>
procVars == <<pc, period, workspace, snapshot, staging, seen, answer>>
resultVars == <<results, linked>>
envVars == <<faults, edits>>
vars == <<storeVars, procVars, resultVars, envVars>>

\* The payloads, and last the manifest with the size and the hash of each.
Artifacts == <<"decisions.jsonl", "pipeline-traces.jsonl", "trades.jsonl",
               "summary.json", "report.html", "manifest.json">>

\* A directory: the artifacts it has, and whether its entries are on the disk.
Directory(count, sealed) == [artifacts |-> SubSeq(Artifacts, 1, count), sealed |-> sealed]
Whole == Directory(Len(Artifacts), TRUE)
Edited == [Whole EXCEPT !.artifacts = <<"edited">>]
Directories ==
    {Directory(count, sealed) : count \in 0 .. Len(Artifacts), sealed \in BOOLEAN}

\* The lock has one owner, and no directory is none.
ASSUME IdentityAssumption ==
    /\ Nobody \notin Procs /\ Engine \notin Procs
    /\ None \notin Directories \cup {Edited}

\* A period that starts after its end is refused when the configuration is loaded.
ASSUME PeriodAssumption ==
    \A d \in Periods : d.start \in Int /\ d.end \in Int /\ d.start < d.end

Silent == [status |-> "NONE", id |-> None]

Init ==
    /\ minute = FirstMinute
    /\ rows = {}
    /\ lock = Nobody
    /\ pc = [p \in Procs |-> "idle"]
    /\ period = [p \in Procs |-> None]
    /\ workspace = {}
    /\ snapshot = [p \in Procs |-> {}]
    /\ staging = [p \in Procs |-> None]
    /\ seen = [p \in Procs |-> None]
    /\ answer = [p \in Procs |-> Silent]
    /\ results = [d \in Periods |-> None]
    /\ linked = {}
    /\ faults = 0 /\ edits = 0

-----------------------------------------------------------------------------
Goto(p, label) == pc' = [pc EXCEPT ![p] = label]
Answers(p, status, id) == answer' = [answer EXCEPT ![p] = [status |-> status, id |-> id]]

\* An exception leaves the `with` blocks: the staging directory goes, then the
\* temporary directory, and the lock if it is held.
KeepsStaging(p) ==
    /\ Goto(p, "failed")
    /\ Answers(p, "RAISED", None)
    /\ workspace' = workspace \ {p}
    /\ staging' = staging
Raises(p) ==
    /\ Goto(p, "failed")
    /\ Answers(p, "RAISED", None)
    /\ workspace' = workspace \ {p}
    /\ staging' = [staging EXCEPT ![p] = None]

\* The command is refused before it makes a directory when the history before its
\* period begins before the epoch.
Begin(p, d) ==
    /\ pc[p] = "idle"
    /\ d.start >= History
    /\ period' = [period EXCEPT ![p] = d]
    /\ Goto(p, "locking")
    /\ workspace' = workspace \cup {p}
    /\ UNCHANGED <<storeVars, snapshot, staging, seen, answer, resultVars, envVars>>

BeginRaises(p, d) ==
    /\ pc[p] = "idle"
    /\ d.start < History
    /\ Raises(p)
    /\ UNCHANGED <<storeVars, period, snapshot, seen, resultVars, envVars>>

\* The lock is tried once.
Lock(p) ==
    /\ pc[p] = "locking"
    /\ lock = Nobody
    /\ lock' = p
    /\ Goto(p, "syncing")
    /\ UNCHANGED <<minute, rows, period, workspace, snapshot, staging, seen, answer,
                   resultVars, envVars>>

Overlaps(p) ==
    /\ pc[p] = "locking"
    /\ lock # Nobody
    /\ Raises(p)
    /\ UNCHANGED <<storeVars, period, snapshot, seen, resultVars, envVars>>

\* Every missing minute is fetched and stored; none may still be open.
Sync(p) ==
    /\ pc[p] = "syncing"
    /\ period[p].end <= minute
    /\ rows' = rows \cup Required(period[p])
    /\ Goto(p, "snapshot")
    /\ UNCHANGED <<minute, lock, period, workspace, snapshot, staging, seen, answer,
                   resultVars, envVars>>

\* Gaps are filled one after the other, a gap from its start (Binance) or from its end
\* (OKX): some minutes in between are still missing.
Stored(d, first, last, next) ==
    {m \in Required(d) : m < first \/ (last < m /\ m < next)}

\* The provider fails, or the range is still open; the pages before stay stored.
SyncRaises(p) ==
    /\ pc[p] = "syncing"
    /\ IF period[p].end > minute THEN UNCHANGED rows
       ELSE \E first, last, next \in Required(period[p]) :
              rows' = rows \cup Stored(period[p], first, last, next)
    /\ lock' = Nobody
    /\ Raises(p)
    /\ UNCHANGED <<minute, period, snapshot, seen, resultVars, envVars>>

\* The copy is made in the temporary directory and named when it is complete; then
\* the lock is released.
Snapshot(p) ==
    /\ pc[p] = "snapshot"
    /\ snapshot' = [snapshot EXCEPT ![p] = rows]
    /\ lock' = Nobody
    /\ Goto(p, "replay")
    /\ UNCHANGED <<minute, rows, period, workspace, staging, seen, answer,
                   resultVars, envVars>>

SnapshotRaises(p) ==
    /\ pc[p] = "snapshot"
    /\ lock' = Nobody
    /\ Raises(p)
    /\ UNCHANGED <<minute, rows, period, snapshot, seen, resultVars, envVars>>

-----------------------------------------------------------------------------
\* The candles of the range, of which none may be missing.
Loaded(p) == snapshot[p] \cap Required(period[p])
Evaluations(p) == Schedule(Loaded(p), period[p])

ReplaySnapshot(p) ==
    /\ pc[p] = "replay"
    /\ Loaded(p) = Required(period[p])
    /\ Goto(p, "simulate")
    /\ UNCHANGED <<storeVars, period, workspace, snapshot, staging, seen, answer,
                   resultVars, envVars>>

ReplayRaises(p) ==
    /\ pc[p] = "replay"
    /\ Raises(p)
    /\ UNCHANGED <<storeVars, period, snapshot, seen, resultVars, envVars>>

\* The timeframes that _timeframe_minutes knows.
Simulated == {"1m", "5m", "1h", "4h"}

\* Trades, metrics and the identity are computed, and the staging directory is made.
Simulate(p) ==
    /\ pc[p] = "simulate"
    /\ period[p].timeframe \in Simulated
    /\ staging' = [staging EXCEPT ![p] = Directory(0, FALSE)]
    /\ Goto(p, "writing")
    /\ UNCHANGED <<storeVars, period, workspace, snapshot, seen, answer,
                   resultVars, envVars>>

SimulateRaises(p) ==
    /\ pc[p] = "simulate"
    /\ period[p].timeframe \notin Simulated
    /\ Raises(p)
    /\ UNCHANGED <<storeVars, period, snapshot, seen, resultVars, envVars>>

-----------------------------------------------------------------------------
\* The artifacts are written one by one, each flushed to the disk.
Write(p) ==
    /\ pc[p] = "writing"
    /\ LET count == Len(staging[p].artifacts) + 1
       IN  /\ staging' = [staging EXCEPT ![p] = Directory(count, FALSE)]
           /\ Goto(p, IF count = Len(Artifacts) THEN "sealing" ELSE "writing")
    /\ UNCHANGED <<storeVars, period, workspace, snapshot, seen, answer,
                   resultVars, envVars>>

Seal(p) ==
    /\ pc[p] = "sealing"
    /\ staging' = [staging EXCEPT ![p] = Directory(Len(@.artifacts), TRUE)]
    /\ Goto(p, "checking")
    /\ UNCHANGED <<storeVars, period, workspace, snapshot, seen, answer,
                   resultVars, envVars>>

WriteRaises(p) ==
    /\ pc[p] \in {"writing", "sealing"}
    /\ Raises(p)
    /\ UNCHANGED <<storeVars, period, snapshot, seen, resultVars, envVars>>

\* Is there a result of that identity?
CheckFinds(p) ==
    /\ pc[p] = "checking"
    /\ results[period[p]] # None
    /\ seen' = [seen EXCEPT ![p] = results[period[p]]]
    /\ Goto(p, "comparing")
    /\ UNCHANGED <<storeVars, period, workspace, snapshot, staging, answer,
                   resultVars, envVars>>

CheckFindsNone(p) ==
    /\ pc[p] = "checking"
    /\ results[period[p]] = None
    /\ Goto(p, "renaming")
    /\ UNCHANGED <<storeVars, period, workspace, snapshot, staging, seen, answer,
                   resultVars, envVars>>

\* What was read is what is staged, and it has not changed since.
AnyManifest(p) == seen[p] = results[period[p]]
Matches(p) == seen[p] = staging[p] /\ seen[p] = results[period[p]]

ConfirmExisting(p) ==
    /\ pc[p] = "comparing"
    /\ Matches(p)
    /\ staging' = [staging EXCEPT ![p] = None]
    /\ workspace' = workspace \ {p}
    /\ Answers(p, "EXISTING_IDENTICAL", period[p])
    /\ Goto(p, "done")
    /\ UNCHANGED <<storeVars, period, snapshot, seen, resultVars, envVars>>

RefuseExisting(p) ==
    /\ pc[p] = "comparing"
    /\ ~Matches(p)
    /\ Raises(p)
    /\ UNCHANGED <<storeVars, period, snapshot, seen, resultVars, envVars>>

Rename(p) ==
    /\ pc[p] = "renaming"
    /\ results[period[p]] = None
    /\ results' = [results EXCEPT ![period[p]] = staging[p]]
    /\ staging' = [staging EXCEPT ![p] = None]
    /\ Goto(p, "linking")
    /\ UNCHANGED <<storeVars, period, workspace, snapshot, seen, answer, linked,
                   envVars>>

\* The directory appeared since it was looked for, or the disk fails.
RenameRaises(p) ==
    /\ pc[p] = "renaming"
    /\ Raises(p)
    /\ UNCHANGED <<storeVars, period, snapshot, seen, resultVars, envVars>>

\* The entry of the result itself is flushed to the disk.
Link(p) ==
    /\ pc[p] = "linking"
    /\ linked' = linked \cup {period[p]}
    /\ workspace' = workspace \ {p}
    /\ Answers(p, "SUCCEEDED", period[p])
    /\ Goto(p, "done")
    /\ UNCHANGED <<storeVars, period, snapshot, staging, seen, results, envVars>>

\* The result is there, and yet the command raises.
LinkRaises(p) ==
    /\ pc[p] = "linking"
    /\ Raises(p)
    /\ UNCHANGED <<storeVars, period, snapshot, seen, resultVars, envVars>>

-----------------------------------------------------------------------------
\* The engine holds the lock for a run that makes its own window ready.
EngineLocks ==
    /\ lock = Nobody
    /\ lock' = Engine
    /\ UNCHANGED <<minute, rows, procVars, resultVars, envVars>>

EngineRuns ==
    /\ lock = Engine
    /\ rows' = rows \cup Window(minute)
    /\ lock' = Nobody
    /\ UNCHANGED <<minute, procVars, resultVars, envVars>>

MinuteCloses ==
    /\ minute < MaxMinute
    /\ minute' = minute + 1
    /\ UNCHANGED <<rows, lock, procVars, resultVars, envVars>>

Active == {p \in Procs : pc[p] \notin {"idle", "done", "failed", "crashed"}}

Killed(procs) == pc' = [p \in Procs |-> IF p \in procs THEN "crashed" ELSE pc[p]]

\* A command is killed: the system frees its lock, its directories stay.
Crash(p) ==
    /\ faults < MaxFaults
    /\ p \in Active
    /\ faults' = faults + 1
    /\ Killed({p})
    /\ lock' = IF lock = p THEN Nobody ELSE lock
    /\ UNCHANGED <<minute, rows, period, workspace, snapshot, staging, seen, answer,
                   resultVars, edits>>

\* What a power failure may leave of a result: an entry that is not on the disk is
\* lost, and so are the entries in a directory that is not.
Surviving(d, kept) ==
    IF results[d] = None \/ d \in linked \cup kept
    THEN IF results[d] # None /\ ~results[d].sealed THEN Directory(0, FALSE)
         ELSE results[d]
    ELSE None

PowerFails ==
    /\ faults < MaxFaults
    /\ faults' = faults + 1
    /\ Killed(Active)
    /\ lock' = Nobody
    /\ \E kept \in SUBSET Periods : results' = [d \in Periods |-> Surviving(d, kept)]
    /\ UNCHANGED <<minute, rows, period, workspace, snapshot, staging, seen, answer,
                   linked, edits>>

\* Somebody edits a published result, which the documentation asks not to do.
Edit(d) ==
    /\ edits < MaxEdits
    /\ results[d] # None
    /\ edits' = edits + 1
    /\ results' = [results EXCEPT ![d] = Edited]
    /\ UNCHANGED <<storeVars, procVars, linked, faults>>

-----------------------------------------------------------------------------
Prepare(p) ==
    \/ \E d \in Periods : Begin(p, d) \/ BeginRaises(p, d)
    \/ Lock(p) \/ Overlaps(p)
    \/ Sync(p) \/ SyncRaises(p)
    \/ Snapshot(p) \/ SnapshotRaises(p)

Compute(p) ==
    \/ ReplaySnapshot(p) \/ ReplayRaises(p)
    \/ Simulate(p) \/ SimulateRaises(p)

Publish(p) ==
    \/ Write(p) \/ Seal(p) \/ WriteRaises(p)
    \/ CheckFinds(p) \/ CheckFindsNone(p)
    \/ ConfirmExisting(p) \/ RefuseExisting(p)
    \/ Rename(p) \/ RenameRaises(p)
    \/ Link(p) \/ LinkRaises(p)

Next ==
    \/ \E p \in Procs : Prepare(p) \/ Compute(p) \/ Publish(p) \/ Crash(p)
    \/ EngineLocks \/ EngineRuns \/ MinuteCloses
    \/ PowerFails
    \/ \E d \in Periods : Edit(d)

Spec == Init /\ [][Next]_vars

-----------------------------------------------------------------------------
\* A published result is whole when it appears, it is never replaced or repaired, one
\* command at most calls it its own success, a success outlives a power failure,
\* and a result is confirmed only while it is what it was.  (publish,
\* _directories_match)
Promise == INSTANCE Publication WITH
    Ids <- Periods,
    Absent <- None,
    shown <- results

ImplementsPublication == Promise!Spec

\* Only a command that was killed leaves anything behind it: neither a temporary nor
\* a staging directory is there of one that returned or raised, at whatever step,
\* and none of them keeps the lock.  (run_backtest, publish)
OnlyCrashesLitter ==
    \A p \in Procs : pc[p] \in {"idle", "done", "failed"} =>
        p \notin workspace /\ staging[p] = None /\ lock # p

\* The replay is a fair witness of what the engine would have said: at every close of
\* an execution bar in the period, and only there, every role sees all bars that a
\* live run at that time sees, no bar of the future, and at most one bar more, the
\* one that straddles the beginning of the history.  (PointInTimeReplay.run,
\* _prefixes; EngineRunner._run_locked)
ReplaySeesLiveBars ==
    \A p \in Procs : pc[p] = "simulate" =>
        /\ Evaluations(p) =
             {t \in period[p].start .. period[p].end :
                (t + 1) % Minutes["execution"] = 0
                  /\ t - Minutes["execution"] >= period[p].start - 1}
        /\ \A t \in Evaluations(p), role \in Roles :
             LET replayed == Seen(role, Loaded(p), t)
                 live == LiveBars(role, t)
             IN  /\ live \subseteq replayed
                 /\ Cardinality(replayed \ live) <= 1
                 /\ \A bar \in replayed \ live :
                      bar < t - History + 1 /\ t - History + 1 <= LastMinute(role, bar)

\* README.md:149 and docs/operations.md:140 have the checked-in scenario, whose strategy
\* executes on 15m, run with `trading-research backtest`: a command that has replayed
\* its snapshot goes on to simulate its trades, unless it is killed.  (run_backtest)
ConfiguredTimeframeRuns ==
    [][\A p \in Procs : pc[p] = "simulate" => pc[p]' # "failed"]_vars
=============================================================================
