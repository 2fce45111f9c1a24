--------------------------- MODULE EngineProcess ----------------------------
(***************************************************************************)
(* The processes that execute `trading-research run`: run_once around      *)
(* EngineRunner.run around ProcessLock.  A process may die at any moment   *)
(* before it has exited; its advisory lock dies with it and its open       *)
(* transaction is rolled back, so only whole table operations are visible. *)
(*                                                                         *)
(*   free -> entering -> locking -> syncing -> analysing -> notifying      *)
(*        -> leaving -> exited,     analysing -> failing -> notifying      *)
(***************************************************************************)
EXTENDS RunStore

CONSTANTS
    Procs,   \* operating-system processes
    Daemon,  \* the scheduler daemon as owner of the lock (startup recovery)
    Free     \* nobody owns the lock

ASSUME OwnersAssumption ==
    /\ Procs \cap Jobs = {}
    /\ Daemon \notin Procs \cup Jobs
    /\ Free \notin Procs \cup Jobs \cup {Daemon}

VARIABLES
    now,        \* what the wall clock shows
    lock,       \* owner of engine.lock: a process, a job's interrupter, Daemon
    pc,         \* what each process is doing
    runOf,      \* the run a process has stored
    startedAt,  \* clock reading with which it entered
    receipt     \* the receipt it is about to print

\* Phases in which the process holds the lock, and all in which it lives.
Locked == {"syncing", "analysing", "failing", "notifying"}
Alive == Locked \cup {"entering", "locking", "leaving"}
Ended == {"exited", "killed", "terminated"}

ReceiptStatuses == SuccessOutcomes \cup {"FAILED", "OVERLAP_SKIPPED", "none"}
Receipts == [status: ReceiptStatuses, run: RunIds \cup {NoRun}]
Receipt(status, run) == [status |-> status, run |-> run]
NoReceipt == Receipt("none", NoRun)

procVars == <<pc, runOf, startedAt, receipt>>

ProcTypeOK ==
    /\ runs \in [Ids -> Rows]
    /\ now \in Time
    /\ lock \in Procs \cup Jobs \cup {Daemon, Free}
    /\ pc \in [Procs -> {"free"} \cup Alive \cup Ended]
    /\ runOf \in [Procs -> RunIds \cup {NoRun}]
    /\ startedAt \in [Procs -> Time]
    /\ receipt \in [Procs -> Receipts]

ProcInit ==
    /\ runs = [id \in Ids |-> NoRow]
    /\ now = 0
    /\ lock = Free
    /\ pc = [p \in Procs |-> "free"]
    /\ runOf = [p \in Procs |-> NoRun]
    /\ startedAt = [p \in Procs |-> 0]
    /\ receipt = [p \in Procs |-> NoReceipt]

\* flock(LOCK_EX | LOCK_NB) on the one lock file.
LockOfAnotherFile == TRUE
CanLock == lock = Free

-----------------------------------------------------------------------------
Spawn(p) ==
    /\ pc[p] = "free"
    /\ pc' = [pc EXCEPT ![p] = "entering"]

\* The slot of a process that is gone, made ready for another one.
Vacate(p) ==
    /\ pc' = [pc EXCEPT ![p] = "free"]
    /\ runOf' = [runOf EXCEPT ![p] = NoRun]
    /\ startedAt' = [startedAt EXCEPT ![p] = 0]
    /\ receipt' = [receipt EXCEPT ![p] = NoReceipt]

\* An advisory lock is released by close or by process death.
ReleasedBy(p) == IF lock = p THEN Free ELSE lock

\* Every way out of EngineRunner.run: the lock is released, then the receipt
\* is on its way to the standard output.
Leave(p, r) ==
    /\ pc' = [pc EXCEPT ![p] = "leaving"]
    /\ receipt' = [receipt EXCEPT ![p] = r]
    /\ lock' = ReleasedBy(p)

-----------------------------------------------------------------------------
\* run_once raises before the runner is entered: a bad configuration.
EnterFails(p) ==
    /\ pc[p] = "entering"
    /\ Leave(p, Receipt("FAILED", NoRun))
    /\ UNCHANGED <<runs, now, runOf, startedAt>>

\* EngineRunner.run reads the clock before it tries the lock.
Enter(p) ==
    /\ pc[p] = "entering"
    /\ pc' = [pc EXCEPT ![p] = "locking"]
    /\ startedAt' = [startedAt EXCEPT ![p] = now]
    /\ UNCHANGED <<runs, now, lock, runOf, receipt>>

Acquire(p) ==
    /\ pc[p] = "locking"
    /\ CanLock
    /\ lock' = p
    /\ pc' = [pc EXCEPT ![p] = "syncing"]
    /\ UNCHANGED <<runs, now, runOf, startedAt, receipt>>

\* The lock is taken without waiting: whoever finds it held skips its run.
SkipOverlap(p) ==
    /\ pc[p] = "locking"
    /\ lock # Free
    /\ Leave(p, Receipt("OVERLAP_SKIPPED", NoRun))
    /\ UNCHANGED <<runs, now, runOf, startedAt>>

\* Configuration, market synchronisation or store_run raises (the last one on
\* a conflict with an existing row): run_once answers without a run identity.
RunAborts(p) ==
    /\ pc[p] = "syncing"
    /\ Leave(p, Receipt("FAILED", NoRun))
    /\ UNCHANGED <<runs, now, runOf, startedAt>>

\* Candles are synchronised first; they determine the identity that is stored.
OpenRun(p) ==
    /\ pc[p] = "syncing"
    /\ \E r \in RunIds :
         /\ StoreRun(r, startedAt[p])
         /\ runOf' = [runOf EXCEPT ![p] = r]
    /\ pc' = [pc EXCEPT ![p] = "analysing"]
    /\ UNCHANGED <<now, lock, startedAt, receipt>>

CommitSucceeds(p) ==
    /\ pc[p] = "analysing"
    /\ CommitRun(runOf[p], now)
    /\ pc' = [pc EXCEPT ![p] = "notifying"]
    /\ receipt' = [receipt EXCEPT ![p] = Receipt("SUCCEEDED", runOf[p])]
    /\ UNCHANGED <<now, lock, runOf, startedAt>>

\* The graph, the policy or commit_run itself raises.
AnalysisFails(p) ==
    /\ pc[p] = "analysing"
    /\ pc' = [pc EXCEPT ![p] = "failing"]
    /\ UNCHANGED <<runs, now, lock, runOf, startedAt, receipt>>

MarkFailed(p) ==
    /\ pc[p] = "failing"
    /\ FinishRun(runOf[p], "FAILED", now, "RUN_ERROR", "none")
    /\ pc' = [pc EXCEPT ![p] = "notifying"]
    /\ receipt' = [receipt EXCEPT ![p] = Receipt("FAILED", runOf[p])]
    /\ UNCHANGED <<now, lock, runOf, startedAt>>

\* finish_run in the handler raises in turn (the clock is behind the start).
MarkFailedRaises(p) ==
    /\ pc[p] = "failing"
    /\ ~CanFinish(runOf[p], "FAILED", now, "RUN_ERROR", "none")
    /\ Leave(p, Receipt("FAILED", NoRun))
    /\ UNCHANGED <<runs, now, runOf, startedAt>>

\* The terminal events are sent while the lock is still held.
Notified(p) ==
    /\ pc[p] = "notifying"
    /\ Leave(p, receipt[p])
    /\ UNCHANGED <<runs, now, runOf, startedAt>>

\* A delivery that failed, then or in the final flush, adds a warning.
Exit(p) ==
    /\ pc[p] = "leaving"
    /\ pc' = [pc EXCEPT ![p] = "exited"]
    /\ \/ receipt' = receipt
       \/ /\ receipt[p].status = "SUCCEEDED"
          /\ receipt' = [receipt EXCEPT
               ![p] = Receipt("SUCCEEDED_WITH_WARNINGS", receipt[p].run)]
    /\ UNCHANGED <<runs, now, lock, runOf, startedAt>>

RunStep(p) ==
    \/ EnterFails(p) \/ Enter(p) \/ Acquire(p) \/ SkipOverlap(p)
    \/ RunAborts(p) \/ OpenRun(p) \/ CommitSucceeds(p) \/ AnalysisFails(p)
    \/ MarkFailed(p) \/ MarkFailedRaises(p) \/ Notified(p) \/ Exit(p)

-----------------------------------------------------------------------------
\* Death by a signal, wherever the process is; how says who sent it.
Dies(p, how) ==
    /\ pc' = [pc EXCEPT ![p] = how]
    /\ lock' = ReleasedBy(p)

-----------------------------------------------------------------------------
(* Properties. *)

\* A process is inside the run transaction exactly while it owns the lock, so
\* two runs never overlap: README "A process lock prevents concurrent runs".
WriterHoldsLock == \A p \in Procs : pc[p] \in Locked <=> lock = p

\* Nobody ends a run that a live process is still executing: recovery at a
\* restart and reconciliation after a timeout leave it RUNNING.
ExecutedRunStaysRunning ==
    \A p \in Procs : pc[p] \in {"analysing", "failing"} =>
        runOf[p] \in RunIds /\ runs[runOf[p]].status = "RUNNING"

\* A receipt that names a run says of it what its row says, at every later
\* time as well.
ReceiptTellsRow ==
    \A p \in Procs :
        /\ receipt[p].status \in SuccessOutcomes =>
             receipt[p].run \in RunIds /\ runs[receipt[p].run].status = "SUCCEEDED"
        /\ receipt[p].status = "FAILED" /\ receipt[p].run # NoRun =>
             runs[receipt[p].run].status = "FAILED"
=============================================================================
