------------------------------ MODULE RunStore ------------------------------
(***************************************************************************)
(* The `runs` table of the SQLite repository together with the evidence    *)
(* rows (observations and decisions) that reference it.                    *)
(*                                                                         *)
(* One row stands for one engine run (its identity is a digest of the      *)
(* strategy, the market mapping, the evaluation minute, the data and the   *)
(* code, so the same work repeated within a minute has the same identity)  *)
(* or for one scheduler attempt (identity: job, start time, sequence).     *)
(* Every operation is one BEGIN IMMEDIATE transaction: it either happens   *)
(* completely or raises and leaves the table alone.  Operations are given  *)
(* by a guard (Can...: the transaction commits) and an action.             *)
(***************************************************************************)
EXTENDS Integers, FiniteSets

CONSTANTS
    RunIds,      \* identities of engine runs
    Jobs,        \* identities of scheduled jobs
    NoRun,       \* the None of an optional run identity
    MaxTime,     \* bound: the clock runs over 0 .. MaxTime
    MaxAttempts  \* bound: attempts one scheduler process may record

Time == 0 .. MaxTime
Sequences == 0 .. MaxAttempts - 1
AttemptIds == Jobs \X Time \X Sequences
Ids == RunIds \cup AttemptIds

ASSUME BoundsAssumption ==
    /\ MaxTime \in Nat
    /\ MaxAttempts \in Nat

ASSUME IdentityAssumption ==
    /\ RunIds \cap AttemptIds = {}
    /\ NoRun \notin Ids

Statuses == {"ABSENT", "RUNNING", "SUCCEEDED", "FAILED"}
Terminal == {"SUCCEEDED", "FAILED"}

\* The receipt outcomes a scheduler attempt may store.
SuccessOutcomes == {"SUCCEEDED", "SUCCEEDED_WITH_WARNINGS"}
FailureOutcomes ==
    {"FAILED", "OVERLAP_SKIPPED", "MAXIMUM_RUNTIME", "SCHEDULER_SHUTDOWN",
     "PROCESS_RESTART"}
Outcomes == SuccessOutcomes \cup FailureOutcomes

\* "RUN_ERROR" stands for the bounded text of whatever exception failed a run.
Errors == FailureOutcomes \cup {"RUN_ERROR", "none"}

Rows == [status: Statuses, started: Time, completed: Time,
         error: Errors, outcome: Outcomes \cup {"none"}, evidence: BOOLEAN]

NoRow == [status |-> "ABSENT", started |-> 0, completed |-> 0,
          error |-> "none", outcome |-> "none", evidence |-> FALSE]

VARIABLE runs    \* [Ids -> Rows]

-----------------------------------------------------------------------------
\* A new receipt: RUNNING, nothing completed, no error.
RunningRow(t) == [status |-> "RUNNING", started |-> t, completed |-> 0,
                  error |-> "none", outcome |-> "none", evidence |-> FALSE]

\* store_run inserts, or accepts the very same record again.
CanStore(id, t) == runs[id] \in {NoRow, RunningRow(t)}

StoreRun(id, t) ==
    /\ CanStore(id, t)
    /\ runs' = [runs EXCEPT ![id] = RunningRow(t)]

-----------------------------------------------------------------------------
Finished(row, status, t, error, outcome) ==
    [row EXCEPT !.status = status, !.completed = t,
                !.error = error, !.outcome = outcome]

\* The CHECK on completed_at_ms makes the transaction fail when the clock
\* stepped back behind started_at_ms; a terminal row accepts only itself.
CanFinish(id, status, t, error, outcome) ==
    \/ /\ runs[id].status = "RUNNING"
       /\ runs[id].started <= t
    \/ /\ runs[id].status \in Terminal
       /\ runs[id] = Finished(runs[id], status, t, error, outcome)

FinishRun(id, status, t, error, outcome) ==
    /\ CanFinish(id, status, t, error, outcome)
    /\ runs' = [runs EXCEPT ![id] = Finished(@, status, t, error, outcome)]

\* finish_scheduler_attempt keeps the outcome category only.
SkipCountsAsSuccess(outcome) ==
    IF outcome \in SuccessOutcomes \cup {"OVERLAP_SKIPPED"}
    THEN "SUCCEEDED" ELSE "FAILED"
AttemptStatus(outcome) ==
    IF outcome \in SuccessOutcomes THEN "SUCCEEDED" ELSE "FAILED"
CategoryAlways(outcome) == outcome
AttemptError(outcome) ==
    IF outcome \in SuccessOutcomes THEN "none" ELSE outcome

-----------------------------------------------------------------------------
\* commit_run: evidence and the successful terminal state in one transaction.
CanCommit(id, t) == runs[id].status = "RUNNING" /\ runs[id].started <= t

EvidenceFirst(id, t) ==
    /\ CanCommit(id, t)
    /\ runs' = [runs EXCEPT ![id].evidence = TRUE]

CommitRun(id, t) ==
    /\ CanCommit(id, t)
    /\ runs' = [runs EXCEPT ![id] = [@ EXCEPT !.status = "SUCCEEDED",
                                              !.completed = t,
                                              !.evidence = TRUE]]

-----------------------------------------------------------------------------
\* recover_running_runs: every RUNNING row not started in the future fails;
\* the scheduler's own attempts only when asked for.
StaleOrFinished(t, attempts) ==
    {id \in Ids : /\ runs[id].status # "ABSENT"
                  /\ runs[id].started <= t
                  /\ attempts \/ id \notin AttemptIds}

StaleAttemptsToo(t, attempts) ==
    {id \in Ids : runs[id].status = "RUNNING" /\ runs[id].started <= t}

StaleRunsOnly(t, attempts) == StaleAttemptsToo(t, attempts) \ AttemptIds

Stale(t, attempts) ==
    {id \in Ids : /\ runs[id].status = "RUNNING"
                  /\ runs[id].started <= t
                  /\ attempts \/ id \notin AttemptIds}

RecoverRuns(t, reason, attempts) ==
    runs' = [id \in Ids |->
               IF id \in Stale(t, attempts)
               THEN [runs[id] EXCEPT !.status = "FAILED",
                                     !.completed = t, !.error = reason]
               ELSE runs[id]]

-----------------------------------------------------------------------------
(* Properties. *)

\* Observations and decisions exist exactly for the runs that succeeded:
\* commit_run leaves no partial evidence and recovery fails no committed run.
EvidenceIsAtomic ==
    /\ \A r \in RunIds : runs[r].evidence <=> runs[r].status = "SUCCEEDED"
    /\ \A a \in AttemptIds : ~runs[a].evidence

\* Whoever comes late (a retry, a recovery, a second process with the same
\* run identity) never changes a row that has reached a terminal status.
TerminalRowsAreFinal ==
    [][\A id \in Ids : runs[id].status \in Terminal => runs'[id] = runs[id]]_runs
=============================================================================
