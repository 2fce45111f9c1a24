--------------------------- MODULE SchedulerProofs --------------------------
(***************************************************************************)
(* Proofs about Scheduler for every number of jobs, processes, runs and    *)
(* faults: the invariant IInv of SchedulerInvariant is inductive, and the  *)
(* safety properties follow from it.  There is one lemma per conjunct of   *)
(* IInv, with one step per action or per group of actions that disturb the *)
(* conjunct in the same way.  The last part is the refinement of           *)
(* RunLifecycle.                                                           *)
(***************************************************************************)
EXTENDS SchedulerInvariant, FiniteSetTheorems, TLAPS

RunsType == runs \in [Ids -> Rows]

FinalRows == \A id \in Ids : runs[id].status \in Terminal => runs'[id] = runs[id]

NewSuccess ==
  \A a \in AttemptIds : runs'[a].status = "SUCCEEDED" =>
    \/ runs[a].status = "SUCCEEDED"
    \/ \E j \in Jobs : verdict[j].outcome \in SuccessOutcomes

-----------------------------------------------------------------------------
(* The records that are passed around.                                      *)

LEMMA ReceiptRecords ==
  /\ \A s \in ReceiptStatuses, r \in RunIds \cup {NoRun} :
       Receipt(s, r) \in Receipts /\ Receipt(s, r).status = s /\ Receipt(s, r).run = r
  /\ \A x \in Receipts : x.status \in ReceiptStatuses /\ x.run \in RunIds \cup {NoRun}
  BY DEF Receipt, Receipts

LEMMA VerdictRecords ==
  /\ \A o \in Outcomes \cup {"none"}, r \in RunIds \cup {NoRun} :
       Verdict(o, r) \in Verdicts /\ Verdict(o, r).outcome = o /\ Verdict(o, r).run = r
  /\ \A x \in Verdicts : x.outcome \in Outcomes \cup {"none"} /\ x.run \in RunIds \cup {NoRun}
  BY DEF Verdict, Verdicts

LEMMA InterruptionRecords ==
  /\ NoInterruption \in Interruptions
  /\ \A r \in RunIds \cup {NoRun}, reason \in {"MAXIMUM_RUNTIME", "SCHEDULER_SHUTDOWN"} :
       /\ Interruption(r, reason) \in Interruptions
       /\ Interruption(r, reason).reason = reason
       /\ Interruption(r, reason) # NoInterruption
  /\ \A x \in Interruptions :
       /\ x.run \in RunIds \cup {NoRun}
       /\ x.reason \in {"MAXIMUM_RUNTIME", "SCHEDULER_SHUTDOWN", "none"}
  BY DEF Interruption, NoInterruption, Interruptions

-----------------------------------------------------------------------------
(* Table operations keep the type of the table and do what they say.        *)

LEMMA StoreRunType ==
  ASSUME RunsType, NEW id \in Ids, NEW t \in Time, StoreRun(id, t)
  PROVE  RunsType' /\ runs'[id].status = "RUNNING" /\ ~runs'[id].evidence
  <1>1. 0 \in Time
    BY BoundsAssumption DEF Time
  <1>2. RunningRow(t) \in Rows
    BY <1>1 DEF RunningRow, Rows, Statuses, Errors
  <1> QED BY <1>2 DEF RunsType, StoreRun, RunningRow

LEMMA FinishRunType ==
  ASSUME RunsType, NEW id \in Ids, NEW status \in Terminal, NEW t \in Time,
         NEW error \in Errors, NEW outcome \in Outcomes \cup {"none"},
         FinishRun(id, status, t, error, outcome)
  PROVE  RunsType'
  BY DEF RunsType, FinishRun, Finished, Rows, Statuses, Terminal

LEMMA CommitRunType ==
  ASSUME RunsType, NEW id \in Ids, NEW t \in Time, CommitRun(id, t)
  PROVE  RunsType'
  BY DEF RunsType, CommitRun, Rows, Statuses

LEMMA RecoverRunsType ==
  ASSUME RunsType, NEW t \in Time, NEW reason \in Errors, NEW attempts \in BOOLEAN,
         RecoverRuns(t, reason, attempts)
  PROVE  RunsType'
  BY DEF RunsType, RecoverRuns, Rows, Statuses

\* Recovery fails stale rows, which were RUNNING, and no others.
LEMMA RecoverRunsEffect ==
  ASSUME RunsType, NEW t, NEW reason, NEW attempts \in BOOLEAN,
         RecoverRuns(t, reason, attempts), NEW id \in Ids
  PROVE  /\ id \notin Stale(t, attempts) => runs'[id] = runs[id]
         /\ id \in Stale(t, attempts) =>
              /\ runs[id].status = "RUNNING"
              /\ runs'[id].status = "FAILED"
              /\ runs'[id].evidence = runs[id].evidence
              /\ attempts \/ id \notin AttemptIds
  BY DEF RunsType, RecoverRuns, Stale, Rows

\* However many rows were stale, reconciliation ends by recording something.
LEMMA ReconcileShape ==
  ASSUME NEW j \in Jobs, Reconcile(j)
  PROVE  /\ lock = j /\ lock' = Free
         /\ RecoverRuns(now, Reason(j), FALSE)
         /\ \E run \in Stale(now, FALSE) \cup {NoRun} : StopRecorded(j, run)
         /\ Stale(now, FALSE) \subseteq RunIds
  BY DEF Reconcile, Stale, Ids

\* A job that has been submitted finds a number for its attempt.
LEMMA SubmittedHasNumber ==
  ASSUME TypeOK, BudgetInv, NEW j \in Jobs, thread[j] = "submitted"
  PROVE  /\ IsFiniteSet(Submitted)
         /\ Cardinality(Submitted \ {j}) = Cardinality(Submitted) - 1
         /\ Cardinality(Submitted) \in Nat
         /\ seq \in Sequences
         /\ <<j, now, seq>> \in AttemptIds
  <1>1. Submitted \in SUBSET Jobs /\ j \in Submitted
    BY DEF Submitted
  <1>2. IsFiniteSet(Submitted)
    BY <1>1, FS_Subset, SchedulerAssumption
  <1>3. Cardinality(Submitted) \in Nat /\ Cardinality(Submitted \ {j}) \in Nat
    BY <1>2, FS_CardinalityType, FS_RemoveElement
  <1>4. Cardinality(Submitted \ {j}) = Cardinality(Submitted) - 1
    BY <1>1, <1>2, FS_RemoveElement
  <1>5. seq \in Nat /\ seq + 1 <= MaxAttempts
    BY <1>3, <1>4, BoundsAssumption DEF BudgetInv, TypeOK, MainTypeOK
  <1>6. seq \in Sequences
    BY <1>5, BoundsAssumption DEF Sequences
  <1> QED
    BY <1>2, <1>3, <1>4, <1>6 DEF AttemptIds, TypeOK, ProcTypeOK

\* So does an overlap, which leaves the numbers in reserve alone.
LEMMA OverlapHasNumber ==
  ASSUME TypeOK, Budgeted, NEW j \in Jobs, NEW t \in 0 .. now
  PROVE  t \in Time /\ <<j, t, seq>> \in AttemptIds
  <1>1. Cardinality(Submitted) \in Nat
    BY FS_Subset, FS_CardinalityType, SchedulerAssumption DEF Submitted
  <1>2. seq \in Sequences
    BY <1>1, BoundsAssumption DEF Budgeted, TypeOK, MainTypeOK, Sequences
  <1>3. t \in Time
    BY BoundsAssumption DEF Time, TypeOK, ProcTypeOK
  <1> QED
    BY <1>2, <1>3 DEF AttemptIds

\* What the operation answers is what the child or the interrupter has said.
LEMMA OutcomeType ==
  ASSUME TypeOK, ReceiptInv, VerdictInv, NEW j \in Jobs, child[j] \in Procs
  PROVE  /\ Outcome(j) \in Verdicts
         /\ Outcome(j).outcome # "none"
         /\ Outcome(j).outcome \in SuccessOutcomes =>
              Outcome(j).run \in RunIds /\ runs[Outcome(j).run].status = "SUCCEEDED"
  <1>1. CASE interruption[j] # NoInterruption
    <2>1. /\ interruption[j].reason \in {"MAXIMUM_RUNTIME", "SCHEDULER_SHUTDOWN"}
          /\ interruption[j].run \in RunIds \cup {NoRun}
      BY <1>1, InterruptionRecords DEF TypeOK, JobTypeOK, VerdictInv
    <2>2. Outcome(j) = Verdict(interruption[j].reason, interruption[j].run)
      BY <1>1 DEF Outcome
    <2> QED
      BY <2>1, <2>2, VerdictRecords DEF Outcomes, FailureOutcomes, SuccessOutcomes
  <1>2. CASE interruption[j] = NoInterruption /\ pc[child[j]] = "exited"
    <2>1. /\ receipt[child[j]].status \in ReceiptStatuses
          /\ receipt[child[j]].run \in RunIds \cup {NoRun}
          /\ receipt[child[j]].status # "none"
      BY <1>2, ReceiptRecords DEF TypeOK, ProcTypeOK, ReceiptInv
    <2>2. Outcome(j) = Verdict(receipt[child[j]].status, receipt[child[j]].run)
      BY <1>2 DEF Outcome, ChildReceipt
    <2>3. receipt[child[j]].status \in Outcomes
      BY <2>1 DEF ReceiptStatuses, Outcomes, FailureOutcomes
    <2> QED
      BY <2>1, <2>2, <2>3, VerdictRecords DEF ReceiptInv, ReceiptTellsRow
  <1>3. CASE interruption[j] = NoInterruption /\ pc[child[j]] # "exited"
    <2>1. Outcome(j) = Verdict("FAILED", NoRun)
      BY <1>3 DEF Outcome, ChildReceipt
    <2> QED
      BY <2>1, VerdictRecords DEF Outcomes, FailureOutcomes, SuccessOutcomes
  <1> QED
    BY <1>1, <1>2, <1>3

-----------------------------------------------------------------------------
(* Types.                                                                   *)

\* The table keeps its type.
LEMMA RunsTypeStep ==
  ASSUME TypeOK, BudgetInv, AttemptInv, ExecutedRunStaysRunning,
  AttemptSurvives, VerdictInv, [Next]_vars
  PROVE  RunsType'
  <1>1. ASSUME NEW p \in Procs, \/ EnterFails(p) \/ Enter(p) \/ Acquire(p)
                                \/ SkipOverlap(p) \/ RunAborts(p)
                                \/ AnalysisFails(p) \/ MarkFailedRaises(p)
                                \/ Notified(p) \/ Exit(p), UNCHANGED <<jobVars, mainVars, envVars>>
        PROVE  RunsType'
    BY <1>1
    DEF EnterFails, Leave, Receipt, ReleasedBy, Enter, Acquire, CanLock,
        SkipOverlap, RunAborts, AnalysisFails, MarkFailedRaises, Notified,
        Exit, storeVars, procVars, jobVars, mainVars, envVars, TypeOK,
        ProcTypeOK, JobTypeOK, MainTypeOK, RunsType
  <1>2. ASSUME NEW p \in Procs, OpenRun(p), UNCHANGED <<jobVars, mainVars, envVars>>
        PROVE  RunsType'
    BY <1>2, StoreRunType DEF OpenRun, TypeOK, ProcTypeOK, JobTypeOK, MainTypeOK, RunsType, Ids
  <1>3. ASSUME NEW p \in Procs, CommitSucceeds(p), UNCHANGED <<jobVars, mainVars, envVars>>
        PROVE  RunsType'
    BY <1>3, CommitRunType
    DEF CommitSucceeds, ExecutedRunStaysRunning, TypeOK, ProcTypeOK, JobTypeOK, MainTypeOK, RunsType, Ids
  <1>4. ASSUME NEW p \in Procs, MarkFailed(p), UNCHANGED <<jobVars, mainVars, envVars>>
        PROVE  RunsType'
    BY <1>4, FinishRunType
    DEF MarkFailed, ExecutedRunStaysRunning, TypeOK, ProcTypeOK, JobTypeOK, MainTypeOK, RunsType, Ids,
        Terminal, Errors
  <1>5. ASSUME NEW p \in Procs, \/ StartManual(p) \/ Reap(p) \/ Kill(p)
        PROVE  RunsType'
    BY <1>5
    DEF StartManual, Spawn, Reap, Vacate, Watched, Kill, Dies, ReleasedBy,
        storeVars, procVars, jobVars, mainVars, envVars, TypeOK, ProcTypeOK,
        JobTypeOK, MainTypeOK, RunsType
  <1>6. ASSUME NEW j \in Jobs, \/ Fire(j) \/ StartAttemptRaises(j)
                               \/ PopenRaises(j) \/ Register(j) \/ ChildEnds(j)
                               \/ Expire(j) \/ AlreadyStopped(j)
                               \/ ReadInterruption(j)
        PROVE  RunsType'
    BY <1>6
    DEF Fire, Moves, StartAttemptRaises, PopenRaises, Verdict, Register,
        ChildEnds, Expire, AlreadyStopped, ReadInterruption, Outcome,
        storeVars, procVars, jobVars, mainVars, envVars, TypeOK, ProcTypeOK,
        JobTypeOK, MainTypeOK, RunsType
  <1>7. ASSUME NEW j \in Jobs, StartAttempt(j)
        PROVE  RunsType'
    BY <1>7, SubmittedHasNumber, StoreRunType
    DEF StartAttempt, TypeOK, ProcTypeOK, JobTypeOK, MainTypeOK, RunsType, Ids
  <1>8. ASSUME NEW j \in Jobs, Popen(j)
        PROVE  RunsType'
    BY <1>8
    DEF Popen, Moves, Spawn, storeVars, procVars, jobVars, mainVars, envVars,
        TypeOK, ProcTypeOK, JobTypeOK, MainTypeOK, RunsType
  <1>9. ASSUME NEW j \in Jobs, StopOnTimeout(j)
        PROVE  RunsType'
    BY <1>9
    DEF StopOnTimeout, Moves, StopChild, Dies, ReleasedBy, storeVars, procVars,
        jobVars, mainVars, envVars, TypeOK, ProcTypeOK, JobTypeOK, MainTypeOK,
        RunsType
  <1>10. ASSUME NEW j \in Jobs, StopOnShutdown(j)
         PROVE  RunsType'
    BY <1>10
    DEF StopOnShutdown, StopChild, Dies, ReleasedBy, Moves, Verdict, storeVars,
        procVars, jobVars, mainVars, envVars, TypeOK, ProcTypeOK, JobTypeOK,
        MainTypeOK, RunsType
  <1>11. ASSUME NEW j \in Jobs, FinishAttempt(j)
         PROVE  RunsType'
    <2> DEFINE o == verdict[j].outcome
    <2>1. attempt[j] \in AttemptIds /\ o \in Outcomes
      BY <1>11, VerdictRecords
      DEF FinishAttempt, EndsJob, AttemptInv, Busy, VerdictInv, TypeOK, JobTypeOK
    <2>2. AttemptEnd(j) \in Time
      BY <2>1 DEF AttemptEnd, Later, AttemptIds, TypeOK, ProcTypeOK, JobTypeOK, MainTypeOK
    <2>3. AttemptStatus(o) \in Terminal /\ AttemptError(o) \in Errors
      BY <2>1 DEF AttemptStatus, AttemptError, Terminal, Errors, Outcomes
    <2>4. FinishRun(attempt[j], AttemptStatus(o), AttemptEnd(j), AttemptError(o), o)
      BY <1>11 DEF FinishAttempt
    <2> QED
      BY <2>1, <2>2, <2>3, <2>4, FinishRunType DEF TypeOK, ProcTypeOK, JobTypeOK, MainTypeOK, RunsType, Ids
  <1>12. ASSUME NEW j \in Jobs, \/ ReconcileBegins(j) \/ VisitOperation(j)
                                \/ StopNotNeeded(j)
         PROVE  RunsType'
    BY <1>12
    DEF ReconcileBegins, CanLock, VisitOperation, StopNotNeeded, storeVars,
        procVars, jobVars, mainVars, envVars, TypeOK, ProcTypeOK, JobTypeOK,
        MainTypeOK, RunsType
  <1>13. ASSUME NEW j \in Jobs, Reconcile(j)
         PROVE  RunsType'
    BY <1>13, ReconcileShape, RecoverRunsType
    DEF Reason, TypeOK, ProcTypeOK, JobTypeOK, MainTypeOK, RunsType, Errors, FailureOutcomes
  <1>14. ASSUME NEW j \in Jobs, ReconcileSkipped(j)
         PROVE  RunsType'
    BY <1>14
    DEF ReconcileSkipped, StopRecorded, Moves, storeVars, procVars, jobVars,
        mainVars, envVars, TypeOK, ProcTypeOK, JobTypeOK, MainTypeOK, RunsType
  <1>15. ASSUME NEW j \in Jobs, RecordOverlap(j)
         PROVE  RunsType'
    <2>1. PICK t \in 0 .. now : \/ StoreRun(<<j, t, seq>>, t)
                                \/ UNCHANGED runs
      BY <1>15 DEF RecordOverlap
    <2>2. t \in Time /\ <<j, t, seq>> \in AttemptIds
      BY <1>15, OverlapHasNumber DEF RecordOverlap
    <2> QED
      BY <2>1, <2>2, StoreRunType DEF TypeOK, ProcTypeOK, JobTypeOK, MainTypeOK, RunsType, Ids
  <1>16. ASSUME \/ Boot \/ Drain \/ Shutdown \/ Tick
                \/ UNCHANGED vars
         PROVE  RunsType'
    BY <1>16
    DEF Boot, CanLock, Drain, Shutdown, Tick, vars, storeVars, procVars,
        jobVars, mainVars, envVars, TypeOK, ProcTypeOK, JobTypeOK, MainTypeOK,
        RunsType
  <1>17. ASSUME Recover
         PROVE  RunsType'
    BY <1>17, RecoverRunsType
    DEF Recover, TypeOK, ProcTypeOK, JobTypeOK, MainTypeOK, RunsType, Errors, FailureOutcomes
  <1>18. ASSUME Down
         PROVE  RunsType'
    BY <1>18
    DEF Down, WorkersDone, Nothing, storeVars, procVars, jobVars, mainVars,
        envVars, TypeOK, ProcTypeOK, JobTypeOK, MainTypeOK, RunsType
  <1>19. ASSUME FinishOverlap
         PROVE  RunsType'
    <2>1. overlap \in AttemptIds /\ Later(overlap[2]) \in Time
      BY <1>19 DEF FinishOverlap, Later, AttemptIds, TypeOK, ProcTypeOK, JobTypeOK, MainTypeOK
    <2> QED
      BY <1>19, <2>1, FinishRunType
      DEF FinishOverlap, TypeOK, ProcTypeOK, JobTypeOK, MainTypeOK, RunsType, Ids, Terminal, Errors,
          Outcomes, FailureOutcomes
  <1>20. ASSUME DaemonCrash
         PROVE  RunsType'
    BY <1>20
    DEF DaemonCrash, Nothing, Verdict, storeVars, procVars, jobVars, mainVars,
        envVars, TypeOK, ProcTypeOK, JobTypeOK, MainTypeOK, RunsType
  <1> QED
    BY <1>1, <1>2, <1>3, <1>4, <1>5, <1>6, <1>7, <1>8, <1>9, <1>10, <1>11,
       <1>12, <1>13, <1>14, <1>15, <1>16, <1>17, <1>18, <1>19, <1>20
    DEF Next, ProcStep, RunStep, JobStep, StopStep, MainStep

\* The variables of the processes keep their types.
LEMMA ProcTypeStep ==
  ASSUME TypeOK, BudgetInv, AttemptInv, LockInv, ExecutedRunStaysRunning,
  AttemptSurvives, VerdictInv, [Next]_vars
  PROVE  ProcTypeOK'
  <1>0. runs' \in [Ids -> Rows]
    BY RunsTypeStep DEF RunsType
  <1>1. ASSUME NEW p \in Procs, \/ EnterFails(p) \/ Enter(p) \/ Acquire(p)
                                \/ SkipOverlap(p) \/ RunAborts(p)
                                \/ CommitSucceeds(p) \/ AnalysisFails(p)
                                \/ MarkFailed(p) \/ MarkFailedRaises(p)
                                \/ Notified(p), UNCHANGED <<jobVars, mainVars, envVars>>
        PROVE  ProcTypeOK'
    BY <1>1, <1>0, ReceiptRecords, SchedulerAssumption, BoundsAssumption
    DEF EnterFails, Leave, ReleasedBy, Enter, Acquire, CanLock, SkipOverlap,
        RunAborts, CommitSucceeds, AnalysisFails, MarkFailed, MarkFailedRaises,
        Notified, storeVars, procVars, jobVars, mainVars, envVars, TypeOK,
        ProcTypeOK, Alive, Locked, Ended, ReceiptStatuses, SuccessOutcomes,
        NoReceipt, Time
  <1>2. ASSUME NEW p \in Procs, OpenRun(p), UNCHANGED <<jobVars, mainVars, envVars>>
        PROVE  ProcTypeOK'
    BY <1>2, <1>0, ReceiptRecords, SchedulerAssumption, BoundsAssumption
    DEF OpenRun, storeVars, procVars, jobVars, mainVars, envVars, TypeOK,
        ProcTypeOK, Alive, Locked, Ended, ReceiptStatuses, SuccessOutcomes,
        NoReceipt, Time
  <1>3. ASSUME NEW p \in Procs, Exit(p), UNCHANGED <<jobVars, mainVars, envVars>>
        PROVE  ProcTypeOK'
    BY <1>3, <1>0, ReceiptRecords, SchedulerAssumption, BoundsAssumption
    DEF Exit, storeVars, procVars, jobVars, mainVars, envVars, TypeOK,
        ProcTypeOK, Alive, Locked, Ended, ReceiptStatuses, SuccessOutcomes,
        NoReceipt, Time
  <1>4. ASSUME NEW p \in Procs, \/ StartManual(p) \/ Reap(p) \/ Kill(p)
        PROVE  ProcTypeOK'
    BY <1>4, <1>0, ReceiptRecords, SchedulerAssumption, BoundsAssumption
    DEF StartManual, Spawn, Reap, Vacate, Watched, Kill, Dies, ReleasedBy,
        storeVars, procVars, jobVars, mainVars, envVars, TypeOK, ProcTypeOK,
        Alive, Locked, Ended, ReceiptStatuses, SuccessOutcomes, NoReceipt, Time
  <1>5. ASSUME NEW j \in Jobs, \/ Fire(j) \/ StartAttemptRaises(j)
                               \/ PopenRaises(j) \/ Register(j) \/ ChildEnds(j)
                               \/ Expire(j) \/ AlreadyStopped(j)
                               \/ ReadInterruption(j)
        PROVE  ProcTypeOK'
    BY <1>5, <1>0, ReceiptRecords, SchedulerAssumption, BoundsAssumption
    DEF Fire, Moves, StartAttemptRaises, PopenRaises, Register, ChildEnds,
        Expire, AlreadyStopped, ReadInterruption, storeVars, procVars, jobVars,
        mainVars, envVars, TypeOK, ProcTypeOK, Alive, Locked, Ended,
        ReceiptStatuses, SuccessOutcomes, NoReceipt, Time
  <1>6. ASSUME NEW j \in Jobs, StartAttempt(j)
        PROVE  ProcTypeOK'
    BY <1>6, <1>0, ReceiptRecords, SchedulerAssumption, BoundsAssumption
    DEF StartAttempt, Moves, storeVars, procVars, jobVars, mainVars, envVars,
        TypeOK, ProcTypeOK, Alive, Locked, Ended, ReceiptStatuses,
        SuccessOutcomes, NoReceipt, Time
  <1>7. ASSUME NEW j \in Jobs, Popen(j)
        PROVE  ProcTypeOK'
    BY <1>7, <1>0, ReceiptRecords, SchedulerAssumption, BoundsAssumption
    DEF Popen, Moves, Spawn, storeVars, procVars, jobVars, mainVars, envVars,
        TypeOK, ProcTypeOK, Alive, Locked, Ended, ReceiptStatuses,
        SuccessOutcomes, NoReceipt, Time
  <1>8. ASSUME NEW j \in Jobs, StopOnTimeout(j)
        PROVE  ProcTypeOK'
    BY <1>8, <1>0, ReceiptRecords, SchedulerAssumption, BoundsAssumption
    DEF StopOnTimeout, Moves, StopChild, Dies, ReleasedBy, storeVars, procVars,
        jobVars, mainVars, envVars, TypeOK, ProcTypeOK, Alive, Locked, Ended,
        ReceiptStatuses, SuccessOutcomes, NoReceipt, Time, JobTypeOK
  <1>9. ASSUME NEW j \in Jobs, StopOnShutdown(j)
        PROVE  ProcTypeOK'
    BY <1>9, <1>0, ReceiptRecords, SchedulerAssumption, BoundsAssumption
    DEF StopOnShutdown, StopChild, Dies, ReleasedBy, Moves, storeVars,
        procVars, jobVars, mainVars, envVars, TypeOK, ProcTypeOK, Alive,
        Locked, Ended, ReceiptStatuses, SuccessOutcomes, NoReceipt, Time,
        JobTypeOK
  <1>10. ASSUME NEW j \in Jobs, FinishAttempt(j)
         PROVE  ProcTypeOK'
    <2>1. EndsJob(j)
      BY <1>10 DEF FinishAttempt
    <2>2. NoReceipt \in Receipts /\ 0 \in Time
      BY ReceiptRecords, BoundsAssumption DEF NoReceipt, ReceiptStatuses, Time
    <2>3. CASE child[j] = NoProc
      BY <2>1, <2>3, <1>0 DEF EndsJob, procVars, TypeOK, ProcTypeOK
    <2>4. CASE child[j] # NoProc
      BY <2>1, <2>2, <2>4, <1>0 DEF EndsJob, Vacate, TypeOK, ProcTypeOK
    <2> QED
      BY <2>3, <2>4
  <1>11. ASSUME NEW j \in Jobs, \/ ReconcileBegins(j) \/ VisitOperation(j)
                                \/ StopNotNeeded(j)
         PROVE  ProcTypeOK'
    BY <1>11, <1>0, ReceiptRecords, SchedulerAssumption, BoundsAssumption
    DEF ReconcileBegins, CanLock, VisitOperation, StopNotNeeded, storeVars,
        procVars, jobVars, mainVars, envVars, TypeOK, ProcTypeOK, Alive,
        Locked, Ended, ReceiptStatuses, SuccessOutcomes, NoReceipt, Time
  <1>12. ASSUME NEW j \in Jobs, Reconcile(j)
         PROVE  ProcTypeOK'
    <2>1. PICK run \in Stale(now, FALSE) \cup {NoRun} : StopRecorded(j, run)
      BY <1>12, ReconcileShape
    <2>2. lock' = Free
      BY <1>12, ReconcileShape
    <2> QED
      BY <1>0, <2>1, <2>2 DEF StopRecorded, procVars, TypeOK, ProcTypeOK
  <1>13. ASSUME NEW j \in Jobs, ReconcileSkipped(j)
         PROVE  ProcTypeOK'
    BY <1>13, <1>0, ReceiptRecords, SchedulerAssumption, BoundsAssumption
    DEF ReconcileSkipped, StopRecorded, Moves, storeVars, procVars, jobVars,
        mainVars, envVars, TypeOK, ProcTypeOK, Alive, Locked, Ended,
        ReceiptStatuses, SuccessOutcomes, NoReceipt, Time
  <1>14. ASSUME NEW j \in Jobs, RecordOverlap(j)
         PROVE  ProcTypeOK'
    BY <1>14, <1>0, ReceiptRecords, SchedulerAssumption, BoundsAssumption
    DEF RecordOverlap, storeVars, procVars, jobVars, mainVars, envVars, TypeOK,
        ProcTypeOK, Alive, Locked, Ended, ReceiptStatuses, SuccessOutcomes,
        NoReceipt, Time
  <1>15. ASSUME \/ Boot \/ Drain \/ Shutdown \/ Tick
                \/ UNCHANGED vars
         PROVE  ProcTypeOK'
    BY <1>15, <1>0, ReceiptRecords, SchedulerAssumption, BoundsAssumption
    DEF Boot, CanLock, Drain, Shutdown, Tick, vars, storeVars, procVars,
        jobVars, mainVars, envVars, TypeOK, ProcTypeOK, Alive, Locked, Ended,
        ReceiptStatuses, SuccessOutcomes, NoReceipt, Time
  <1>16. ASSUME Recover
         PROVE  ProcTypeOK'
    BY <1>16, <1>0, ReceiptRecords, SchedulerAssumption, BoundsAssumption
    DEF Recover, storeVars, procVars, jobVars, mainVars, envVars, TypeOK,
        ProcTypeOK, Alive, Locked, Ended, ReceiptStatuses, SuccessOutcomes,
        NoReceipt, Time
  <1>17. ASSUME Down
         PROVE  ProcTypeOK'
    BY <1>17, <1>0, ReceiptRecords, SchedulerAssumption, BoundsAssumption
    DEF Down, WorkersDone, Nothing, storeVars, procVars, jobVars, mainVars,
        envVars, TypeOK, ProcTypeOK, Alive, Locked, Ended, ReceiptStatuses,
        SuccessOutcomes, NoReceipt, Time
  <1>18. ASSUME FinishOverlap
         PROVE  ProcTypeOK'
    BY <1>18, <1>0, ReceiptRecords, SchedulerAssumption, BoundsAssumption
    DEF FinishOverlap, storeVars, procVars, jobVars, mainVars, envVars, TypeOK,
        ProcTypeOK, Alive, Locked, Ended, ReceiptStatuses, SuccessOutcomes,
        NoReceipt, Time
  <1>19. ASSUME DaemonCrash
         PROVE  ProcTypeOK'
    BY <1>19, <1>0, ReceiptRecords, SchedulerAssumption, BoundsAssumption
    DEF DaemonCrash, Nothing, storeVars, procVars, jobVars, mainVars, envVars,
        TypeOK, ProcTypeOK, Alive, Locked, Ended, ReceiptStatuses,
        SuccessOutcomes, NoReceipt, Time
  <1> QED
    BY <1>1, <1>2, <1>3, <1>4, <1>5, <1>6, <1>7, <1>8, <1>9, <1>10, <1>11,
       <1>12, <1>13, <1>14, <1>15, <1>16, <1>17, <1>18, <1>19
    DEF Next, ProcStep, RunStep, JobStep, StopStep, MainStep

\* The variables of the jobs keep their types.
LEMMA JobTypeStep ==
  ASSUME TypeOK, BudgetInv, LockInv, ChildInv, EndedInv, ReceiptInv,
  VerdictInv, [Next]_vars
  PROVE  JobTypeOK'
  <1>1. ASSUME NEW p \in Procs, ProcStep(p)
        PROVE  JobTypeOK'
    BY <1>1, VerdictRecords, InterruptionRecords, SchedulerAssumption
    DEF ProcStep, RunStep, EnterFails, Enter, Acquire, CanLock, SkipOverlap,
        RunAborts, OpenRun, CommitSucceeds, AnalysisFails, MarkFailed,
        MarkFailedRaises, Notified, Exit, storeVars, procVars, jobVars,
        mainVars, envVars, TypeOK, JobTypeOK, Threads, Busy, Outcomes,
        FailureOutcomes
  <1>2. ASSUME NEW p \in Procs, \/ StartManual(p) \/ Reap(p) \/ Kill(p)
        PROVE  JobTypeOK'
    BY <1>2, VerdictRecords, InterruptionRecords, SchedulerAssumption
    DEF StartManual, Spawn, Reap, Watched, Kill, storeVars, procVars, jobVars,
        mainVars, envVars, TypeOK, JobTypeOK, Threads, Busy, Outcomes,
        FailureOutcomes
  <1>3. ASSUME NEW j \in Jobs, \/ Fire(j) \/ StartAttemptRaises(j) \/ ChildEnds(j)
                               \/ Expire(j) \/ AlreadyStopped(j)
        PROVE  JobTypeOK'
    BY <1>3, VerdictRecords, InterruptionRecords, SchedulerAssumption
    DEF Fire, Moves, StartAttemptRaises, ChildEnds, Expire, AlreadyStopped,
        storeVars, procVars, jobVars, mainVars, envVars, TypeOK, JobTypeOK,
        Threads, Busy, Outcomes, FailureOutcomes
  <1>4. ASSUME NEW j \in Jobs, PopenRaises(j)
        PROVE  JobTypeOK'
    BY <1>4, VerdictRecords, InterruptionRecords, SchedulerAssumption
    DEF PopenRaises, Moves, storeVars, procVars, jobVars, mainVars, envVars,
        TypeOK, JobTypeOK, Threads, Busy, Outcomes, FailureOutcomes
  <1>5. ASSUME NEW j \in Jobs, Register(j)
        PROVE  JobTypeOK'
    BY <1>5, VerdictRecords, InterruptionRecords, SchedulerAssumption
    DEF Register, Moves, storeVars, procVars, jobVars, mainVars, envVars,
        TypeOK, JobTypeOK, Threads, Busy, Outcomes, FailureOutcomes
  <1>6. ASSUME NEW j \in Jobs, ReadInterruption(j)
        PROVE  JobTypeOK'
    <2>1. Outcome(j) \in Verdicts
      BY <1>6, OutcomeType DEF ReadInterruption, ChildInv, TypeOK, JobTypeOK
    <2> QED
      BY <1>6, <2>1 DEF ReadInterruption, Moves, TypeOK, JobTypeOK, Threads, Busy
  <1>7. ASSUME NEW j \in Jobs, StartAttempt(j)
        PROVE  JobTypeOK'
    <2>1. <<j, now, seq>> \in AttemptIds
      BY <1>7, SubmittedHasNumber DEF StartAttempt
    <2> QED
      BY <1>7, <2>1 DEF StartAttempt, Moves, TypeOK, JobTypeOK, Threads, Busy
  <1>8. ASSUME NEW j \in Jobs, Popen(j)
        PROVE  JobTypeOK'
    BY <1>8, VerdictRecords, InterruptionRecords, SchedulerAssumption
    DEF Popen, Moves, Spawn, storeVars, procVars, jobVars, mainVars, envVars,
        TypeOK, JobTypeOK, Threads, Busy, Outcomes, FailureOutcomes
  <1>9. ASSUME NEW j \in Jobs, StopOnTimeout(j)
        PROVE  JobTypeOK'
    BY <1>9, VerdictRecords, InterruptionRecords, SchedulerAssumption
    DEF StopOnTimeout, Moves, StopChild, storeVars, procVars, jobVars,
        mainVars, envVars, TypeOK, JobTypeOK, Threads, Busy, Outcomes,
        FailureOutcomes
  <1>10. ASSUME NEW j \in Jobs, StopOnShutdown(j)
         PROVE  JobTypeOK'
    <2>1. \/ UNCHANGED <<thread, verdict, owned>>
          \/ /\ verdict' = [verdict EXCEPT ![j] = Verdict("FAILED", NoRun)]
             /\ owned' = [owned EXCEPT ![j] = NoProc]
             /\ thread' = [thread EXCEPT ![j] = "finishing"]
      BY <1>10 DEF StopOnShutdown, Moves
    <2>2. \/ UNCHANGED stopBy
          \/ stopBy' = [stopBy EXCEPT ![j] = "shutdown"]
      BY <1>10 DEF StopOnShutdown
    <2>3. UNCHANGED <<attempt, child, interruption>>
      BY <1>10 DEF StopOnShutdown
    <2>4. Verdict("FAILED", NoRun) \in Verdicts
      BY VerdictRecords DEF Outcomes, FailureOutcomes
    <2> QED
      BY <2>1, <2>2, <2>3, <2>4 DEF TypeOK, JobTypeOK, Threads, Busy
  <1>11. ASSUME NEW j \in Jobs, FinishAttempt(j)
         PROVE  JobTypeOK'
    BY <1>11, VerdictRecords, InterruptionRecords, SchedulerAssumption
    DEF FinishAttempt, EndsJob, Moves, storeVars, procVars, jobVars, mainVars,
        envVars, TypeOK, JobTypeOK, Threads, Busy, Outcomes, FailureOutcomes
  <1>12. ASSUME NEW j \in Jobs, \/ ReconcileBegins(j) \/ VisitOperation(j)
                                \/ StopNotNeeded(j)
         PROVE  JobTypeOK'
    BY <1>12, VerdictRecords, InterruptionRecords, SchedulerAssumption
    DEF ReconcileBegins, CanLock, VisitOperation, StopNotNeeded, storeVars,
        procVars, jobVars, mainVars, envVars, TypeOK, JobTypeOK, Threads, Busy,
        Outcomes, FailureOutcomes
  <1>13. ASSUME NEW j \in Jobs, Reconcile(j)
         PROVE  JobTypeOK'
    <2>1. PICK run \in Stale(now, FALSE) \cup {NoRun} : StopRecorded(j, run)
      BY <1>13, ReconcileShape
    <2>2. Reason(j) \in {"MAXIMUM_RUNTIME", "SCHEDULER_SHUTDOWN"} /\ run \in RunIds \cup {NoRun}
      BY <1>13, ReconcileShape DEF Reason
    <2> QED
      BY <2>1, <2>2, InterruptionRecords
      DEF StopRecorded, Moves, TypeOK, JobTypeOK, Threads, Busy
  <1>14. ASSUME NEW j \in Jobs, ReconcileSkipped(j)
         PROVE  JobTypeOK'
    BY <1>14, VerdictRecords, InterruptionRecords, SchedulerAssumption
    DEF ReconcileSkipped, StopRecorded, Moves, storeVars, procVars, jobVars,
        mainVars, envVars, TypeOK, JobTypeOK, Threads, Busy, Outcomes,
        FailureOutcomes, Reason
  <1>15. ASSUME NEW j \in Jobs, RecordOverlap(j)
         PROVE  JobTypeOK'
    BY <1>15, VerdictRecords, InterruptionRecords, SchedulerAssumption
    DEF RecordOverlap, storeVars, procVars, jobVars, mainVars, envVars, TypeOK,
        JobTypeOK, Threads, Busy, Outcomes, FailureOutcomes
  <1>16. ASSUME \/ Boot \/ Drain \/ Shutdown \/ Tick
                \/ UNCHANGED vars
         PROVE  JobTypeOK'
    BY <1>16, VerdictRecords, InterruptionRecords, SchedulerAssumption
    DEF Boot, CanLock, Drain, Shutdown, Tick, vars, storeVars, procVars,
        jobVars, mainVars, envVars, TypeOK, JobTypeOK, Threads, Busy, Outcomes,
        FailureOutcomes
  <1>17. ASSUME Recover
         PROVE  JobTypeOK'
    BY <1>17, VerdictRecords, InterruptionRecords, SchedulerAssumption
    DEF Recover, storeVars, procVars, jobVars, mainVars, envVars, TypeOK,
        JobTypeOK, Threads, Busy, Outcomes, FailureOutcomes
  <1>18. ASSUME Down
         PROVE  JobTypeOK'
    BY <1>18, VerdictRecords, InterruptionRecords, SchedulerAssumption
    DEF Down, WorkersDone, Nothing, storeVars, procVars, jobVars, mainVars,
        envVars, TypeOK, JobTypeOK, Threads, Busy, Outcomes, FailureOutcomes
  <1>19. ASSUME FinishOverlap
         PROVE  JobTypeOK'
    BY <1>19, VerdictRecords, InterruptionRecords, SchedulerAssumption
    DEF FinishOverlap, storeVars, procVars, jobVars, mainVars, envVars, TypeOK,
        JobTypeOK, Threads, Busy, Outcomes, FailureOutcomes
  <1>20. ASSUME DaemonCrash
         PROVE  JobTypeOK'
    BY <1>20, VerdictRecords, InterruptionRecords, SchedulerAssumption
    DEF DaemonCrash, Nothing, storeVars, procVars, jobVars, mainVars, envVars,
        TypeOK, JobTypeOK, Threads, Busy, Outcomes, FailureOutcomes
  <1> QED
    BY <1>1, <1>2, <1>3, <1>4, <1>5, <1>6, <1>7, <1>8, <1>9, <1>10, <1>11,
       <1>12, <1>13, <1>14, <1>15, <1>16, <1>17, <1>18, <1>19, <1>20
    DEF Next, ProcStep, RunStep, JobStep, StopStep, MainStep

\* The variables of the main thread keep their types.
LEMMA MainTypeStep ==
  ASSUME TypeOK, BudgetInv, LockInv, [Next]_vars
  PROVE  MainTypeOK'
  <1>1. ASSUME NEW p \in Procs, ProcStep(p)
        PROVE  MainTypeOK'
    BY <1>1, SchedulerAssumption, BoundsAssumption
    DEF ProcStep, RunStep, EnterFails, Enter, Acquire, CanLock, SkipOverlap,
        RunAborts, OpenRun, CommitSucceeds, AnalysisFails, MarkFailed,
        MarkFailedRaises, Notified, Exit, storeVars, procVars, jobVars,
        mainVars, envVars, TypeOK, MainTypeOK
  <1>2. ASSUME NEW p \in Procs, \/ StartManual(p) \/ Reap(p) \/ Kill(p)
        PROVE  MainTypeOK'
    BY <1>2, SchedulerAssumption, BoundsAssumption
    DEF StartManual, Spawn, Reap, Watched, Kill, storeVars, procVars, jobVars,
        mainVars, envVars, TypeOK, MainTypeOK
  <1>3. ASSUME NEW j \in Jobs, \/ Fire(j) \/ PopenRaises(j) \/ Register(j)
                               \/ ChildEnds(j) \/ Expire(j) \/ AlreadyStopped(j)
                               \/ ReadInterruption(j)
        PROVE  MainTypeOK'
    BY <1>3, SchedulerAssumption, BoundsAssumption
    DEF Fire, Moves, PopenRaises, Register, ChildEnds, Expire, AlreadyStopped,
        ReadInterruption, storeVars, procVars, jobVars, mainVars, envVars,
        TypeOK, MainTypeOK
  <1>4. ASSUME NEW j \in Jobs, StartAttemptRaises(j)
        PROVE  MainTypeOK'
    <2>0. seq \in Sequences
      BY <1>4, SubmittedHasNumber DEF StartAttemptRaises
    <2>1. seq + 1 \in 0 .. MaxAttempts
      BY <2>0, BoundsAssumption DEF Sequences
    <2> QED
      BY <1>4, <2>1, SchedulerAssumption, BoundsAssumption
      DEF StartAttemptRaises, envVars, TypeOK, MainTypeOK
  <1>5. ASSUME NEW j \in Jobs, StartAttempt(j)
        PROVE  MainTypeOK'
    <2>0. seq \in Sequences
      BY <1>5, SubmittedHasNumber DEF StartAttempt
    <2>1. seq + 1 \in 0 .. MaxAttempts
      BY <2>0, BoundsAssumption DEF Sequences
    <2> QED
      BY <1>5, <2>1, SchedulerAssumption, BoundsAssumption
      DEF StartAttempt, envVars, TypeOK, MainTypeOK
  <1>6. ASSUME NEW j \in Jobs, Popen(j)
        PROVE  MainTypeOK'
    BY <1>6, SchedulerAssumption, BoundsAssumption
    DEF Popen, Moves, Spawn, storeVars, procVars, jobVars, mainVars, envVars,
        TypeOK, MainTypeOK
  <1>7. ASSUME NEW j \in Jobs, StopOnTimeout(j)
        PROVE  MainTypeOK'
    BY <1>7, SchedulerAssumption, BoundsAssumption
    DEF StopOnTimeout, Moves, StopChild, storeVars, procVars, jobVars,
        mainVars, envVars, TypeOK, MainTypeOK
  <1>8. ASSUME NEW j \in Jobs, StopOnShutdown(j)
        PROVE  MainTypeOK'
    BY <1>8, SchedulerAssumption, BoundsAssumption
    DEF StopOnShutdown, StopChild, Moves, storeVars, procVars, jobVars,
        mainVars, envVars, TypeOK, MainTypeOK
  <1>9. ASSUME NEW j \in Jobs, FinishAttempt(j)
        PROVE  MainTypeOK'
    BY <1>9, SchedulerAssumption, BoundsAssumption
    DEF FinishAttempt, EndsJob, Moves, storeVars, procVars, jobVars, mainVars,
        envVars, TypeOK, MainTypeOK
  <1>10. ASSUME NEW j \in Jobs, \/ ReconcileBegins(j) \/ VisitOperation(j)
                                \/ StopNotNeeded(j)
         PROVE  MainTypeOK'
    BY <1>10, SchedulerAssumption, BoundsAssumption
    DEF ReconcileBegins, CanLock, VisitOperation, StopNotNeeded, storeVars,
        procVars, jobVars, mainVars, envVars, TypeOK, MainTypeOK
  <1>11. ASSUME NEW j \in Jobs, Reconcile(j)
         PROVE  MainTypeOK'
    <2>1. PICK run \in Stale(now, FALSE) \cup {NoRun} : StopRecorded(j, run)
      BY <1>11, ReconcileShape
    <2> QED
      BY <2>1 DEF StopRecorded, envVars, TypeOK, MainTypeOK
  <1>12. ASSUME NEW j \in Jobs, ReconcileSkipped(j)
         PROVE  MainTypeOK'
    BY <1>12, SchedulerAssumption, BoundsAssumption
    DEF ReconcileSkipped, StopRecorded, Moves, storeVars, procVars, jobVars,
        mainVars, envVars, TypeOK, MainTypeOK
  <1>13. ASSUME NEW j \in Jobs, RecordOverlap(j)
         PROVE  MainTypeOK'
    <2>1. \A t \in 0 .. now : <<j, t, seq>> \in AttemptIds
      BY <1>13, OverlapHasNumber DEF RecordOverlap
    <2>2. overlap' \in AttemptIds \cup {NoAttempt}
      BY <1>13, <2>1 DEF RecordOverlap, TypeOK, MainTypeOK
    <2>3. seq + 1 \in 0 .. MaxAttempts
      BY <1>13, OverlapHasNumber, BoundsAssumption DEF RecordOverlap, AttemptIds, Sequences
    <2> QED
      BY <1>13, <2>2, <2>3 DEF RecordOverlap, envVars, TypeOK, MainTypeOK
  <1>14. ASSUME \/ Boot \/ Drain \/ Shutdown \/ Tick
                \/ UNCHANGED vars
         PROVE  MainTypeOK'
    BY <1>14, SchedulerAssumption, BoundsAssumption
    DEF Boot, CanLock, Drain, Shutdown, Tick, vars, storeVars, procVars,
        jobVars, mainVars, envVars, TypeOK, MainTypeOK
  <1>15. ASSUME Recover
         PROVE  MainTypeOK'
    BY <1>15, SchedulerAssumption, BoundsAssumption
    DEF Recover, storeVars, procVars, jobVars, mainVars, envVars, TypeOK,
        MainTypeOK
  <1>16. ASSUME Down
         PROVE  MainTypeOK'
    BY <1>16, SchedulerAssumption, BoundsAssumption
    DEF Down, WorkersDone, Nothing, storeVars, procVars, jobVars, mainVars,
        envVars, TypeOK, MainTypeOK
  <1>17. ASSUME FinishOverlap
         PROVE  MainTypeOK'
    BY <1>17, SchedulerAssumption, BoundsAssumption
    DEF FinishOverlap, storeVars, procVars, jobVars, mainVars, envVars, TypeOK,
        MainTypeOK
  <1>18. ASSUME DaemonCrash
         PROVE  MainTypeOK'
    BY <1>18, SchedulerAssumption, BoundsAssumption
    DEF DaemonCrash, Nothing, storeVars, procVars, jobVars, mainVars, envVars,
        TypeOK, MainTypeOK
  <1> QED
    BY <1>1, <1>2, <1>3, <1>4, <1>5, <1>6, <1>7, <1>8, <1>9, <1>10, <1>11,
       <1>12, <1>13, <1>14, <1>15, <1>16, <1>17, <1>18
    DEF Next, ProcStep, RunStep, JobStep, StopStep, MainStep

-----------------------------------------------------------------------------
(* Threads, children and the lock.                                          *)

\* Children belong to one job from Popen to the end of the job.
LEMMA ChildStep ==
  ASSUME TypeOK, ChildInv, StopInv, [Next]_vars
  PROVE  ChildInv'
  <1>1. ASSUME NEW p \in Procs, ProcStep(p)
        PROVE  ChildInv'
    BY <1>1, SchedulerAssumption, OwnersAssumption
    DEF ProcStep, RunStep, EnterFails, Leave, Receipt, ReleasedBy, Enter,
        Acquire, CanLock, SkipOverlap, RunAborts, OpenRun, StoreRun, CanStore,
        RunningRow, NoRow, CommitSucceeds, CommitRun, CanCommit, AnalysisFails,
        MarkFailed, FinishRun, CanFinish, Finished, MarkFailedRaises, Notified,
        Exit, storeVars, procVars, jobVars, mainVars, envVars, TypeOK,
        ProcTypeOK, JobTypeOK, MainTypeOK, ChildInv, StopInv, Alive, Locked,
        Ended, Threads, Busy
  <1>2. ASSUME NEW p \in Procs, \/ StartManual(p) \/ Reap(p) \/ Kill(p)
        PROVE  ChildInv'
    BY <1>2, SchedulerAssumption, OwnersAssumption
    DEF StartManual, Spawn, Reap, Vacate, Watched, Kill, Dies, ReleasedBy,
        storeVars, procVars, jobVars, mainVars, envVars, TypeOK, ProcTypeOK,
        JobTypeOK, MainTypeOK, ChildInv, StopInv, Alive, Locked, Ended,
        Threads, Busy
  <1>3. ASSUME NEW j \in Jobs, \/ Fire(j) \/ StartAttemptRaises(j)
                               \/ PopenRaises(j) \/ Register(j) \/ ChildEnds(j)
                               \/ Expire(j) \/ AlreadyStopped(j)
                               \/ ReadInterruption(j)
        PROVE  ChildInv'
    BY <1>3, SchedulerAssumption, OwnersAssumption
    DEF Fire, Moves, StartAttemptRaises, PopenRaises, Verdict, Register,
        ChildEnds, Expire, AlreadyStopped, ReadInterruption, Outcome,
        storeVars, procVars, jobVars, mainVars, envVars, TypeOK, ProcTypeOK,
        JobTypeOK, MainTypeOK, ChildInv, StopInv, Alive, Locked, Ended,
        Threads, Busy
  <1>4. ASSUME NEW j \in Jobs, StartAttempt(j)
        PROVE  ChildInv'
    BY <1>4, SchedulerAssumption, OwnersAssumption
    DEF StartAttempt, Moves, StoreRun, CanStore, RunningRow, NoRow, storeVars,
        procVars, jobVars, mainVars, envVars, TypeOK, ProcTypeOK, JobTypeOK,
        MainTypeOK, ChildInv, StopInv, Alive, Locked, Ended, Threads, Busy
  <1>5. ASSUME NEW j \in Jobs, Popen(j)
        PROVE  ChildInv'
    BY <1>5, SchedulerAssumption, OwnersAssumption
    DEF Popen, Moves, Spawn, storeVars, procVars, jobVars, mainVars, envVars,
        TypeOK, ProcTypeOK, JobTypeOK, MainTypeOK, ChildInv, StopInv, Alive,
        Locked, Ended, Threads, Busy
  <1>6. ASSUME NEW j \in Jobs, StopOnTimeout(j)
        PROVE  ChildInv'
    BY <1>6, SchedulerAssumption, OwnersAssumption
    DEF StopOnTimeout, Moves, StopChild, Dies, ReleasedBy, storeVars, procVars,
        jobVars, mainVars, envVars, TypeOK, ProcTypeOK, JobTypeOK, MainTypeOK,
        ChildInv, StopInv, Alive, Locked, Ended, Threads, Busy
  <1>7. ASSUME NEW j \in Jobs, StopOnShutdown(j)
        PROVE  ChildInv'
    BY <1>7, SchedulerAssumption, OwnersAssumption
    DEF StopOnShutdown, StopChild, Dies, ReleasedBy, Moves, Verdict, storeVars,
        procVars, jobVars, mainVars, envVars, TypeOK, ProcTypeOK, JobTypeOK,
        MainTypeOK, ChildInv, StopInv, Alive, Locked, Ended, Threads, Busy
  <1>8. ASSUME NEW j \in Jobs, FinishAttempt(j)
        PROVE  ChildInv'
    BY <1>8, SchedulerAssumption, OwnersAssumption
    DEF FinishAttempt, EndsJob, Moves, Vacate, Verdict, storeVars, procVars,
        jobVars, mainVars, envVars, TypeOK, ProcTypeOK, JobTypeOK, MainTypeOK,
        ChildInv, StopInv, Alive, Locked, Ended, Threads, Busy
  <1>9. ASSUME NEW j \in Jobs, \/ ReconcileBegins(j) \/ VisitOperation(j)
                               \/ StopNotNeeded(j)
        PROVE  ChildInv'
    BY <1>9, SchedulerAssumption, OwnersAssumption
    DEF ReconcileBegins, CanLock, VisitOperation, StopNotNeeded, storeVars,
        procVars, jobVars, mainVars, envVars, TypeOK, ProcTypeOK, JobTypeOK,
        MainTypeOK, ChildInv, StopInv, Alive, Locked, Ended, Threads, Busy
  <1>10. ASSUME NEW j \in Jobs, Reconcile(j)
         PROVE  ChildInv'
    <2>1. PICK run \in Stale(now, FALSE) \cup {NoRun} : StopRecorded(j, run)
      BY <1>10, ReconcileShape
    <2>2. lock = j /\ lock' = Free
      BY <1>10, ReconcileShape
    <2> QED
      BY <2>1, <2>2, SchedulerAssumption, OwnersAssumption
      DEF StopRecorded, Moves, procVars, envVars, TypeOK, ProcTypeOK, JobTypeOK, MainTypeOK, ChildInv, StopInv
  <1>11. ASSUME NEW j \in Jobs, ReconcileSkipped(j)
         PROVE  ChildInv'
    BY <1>11, SchedulerAssumption, OwnersAssumption
    DEF ReconcileSkipped, StopRecorded, Moves, storeVars, procVars, jobVars,
        mainVars, envVars, TypeOK, ProcTypeOK, JobTypeOK, MainTypeOK, ChildInv,
        StopInv, Alive, Locked, Ended, Threads, Busy
  <1>12. ASSUME NEW j \in Jobs, RecordOverlap(j)
         PROVE  ChildInv'
    BY <1>12, SchedulerAssumption, OwnersAssumption
    DEF RecordOverlap, StoreRun, CanStore, RunningRow, NoRow, storeVars,
        procVars, jobVars, mainVars, envVars, TypeOK, ProcTypeOK, JobTypeOK,
        MainTypeOK, ChildInv, StopInv, Alive, Locked, Ended, Threads, Busy
  <1>13. ASSUME \/ Boot \/ Drain \/ Shutdown \/ Tick
                \/ UNCHANGED vars
         PROVE  ChildInv'
    BY <1>13, SchedulerAssumption, OwnersAssumption
    DEF Boot, CanLock, Drain, Shutdown, Tick, vars, storeVars, procVars,
        jobVars, mainVars, envVars, TypeOK, ProcTypeOK, JobTypeOK, MainTypeOK,
        ChildInv, StopInv, Alive, Locked, Ended, Threads, Busy
  <1>14. ASSUME Recover
         PROVE  ChildInv'
    BY <1>14, SchedulerAssumption, OwnersAssumption
    DEF Recover, RecoverRuns, Stale, storeVars, procVars, jobVars, mainVars,
        envVars, TypeOK, ProcTypeOK, JobTypeOK, MainTypeOK, ChildInv, StopInv,
        Alive, Locked, Ended, Threads, Busy
  <1>15. ASSUME Down
         PROVE  ChildInv'
    BY <1>15, SchedulerAssumption, OwnersAssumption
    DEF Down, WorkersDone, Nothing, storeVars, procVars, jobVars, mainVars,
        envVars, TypeOK, ProcTypeOK, JobTypeOK, MainTypeOK, ChildInv, StopInv,
        Alive, Locked, Ended, Threads, Busy
  <1>16. ASSUME FinishOverlap
         PROVE  ChildInv'
    BY <1>16, SchedulerAssumption, OwnersAssumption
    DEF FinishOverlap, Later, FinishRun, CanFinish, Finished, storeVars,
        procVars, jobVars, mainVars, envVars, TypeOK, ProcTypeOK, JobTypeOK,
        MainTypeOK, ChildInv, StopInv, Alive, Locked, Ended, Threads, Busy
  <1>17. ASSUME DaemonCrash
         PROVE  ChildInv'
    BY <1>17, SchedulerAssumption, OwnersAssumption
    DEF DaemonCrash, Nothing, Verdict, storeVars, procVars, jobVars, mainVars,
        envVars, TypeOK, ProcTypeOK, JobTypeOK, MainTypeOK, ChildInv, StopInv,
        Alive, Locked, Ended, Threads, Busy
  <1> QED
    BY <1>1, <1>2, <1>3, <1>4, <1>5, <1>6, <1>7, <1>8, <1>9, <1>10, <1>11,
       <1>12, <1>13, <1>14, <1>15, <1>16, <1>17
    DEF Next, ProcStep, RunStep, JobStep, StopStep, MainStep

\* Nobody leaves communicate before the child has ended.
LEMMA EndedStep ==
  ASSUME TypeOK, LockInv, ChildInv, EndedInv, StopInv, [Next]_vars
  PROVE  EndedInv'
  <1>1. ASSUME NEW p \in Procs, ProcStep(p)
        PROVE  EndedInv'
    BY <1>1, SchedulerAssumption, OwnersAssumption
    DEF ProcStep, RunStep, EnterFails, Leave, Receipt, ReleasedBy, Enter,
        Acquire, CanLock, SkipOverlap, RunAborts, OpenRun, StoreRun, CanStore,
        RunningRow, NoRow, CommitSucceeds, CommitRun, CanCommit, AnalysisFails,
        MarkFailed, FinishRun, CanFinish, Finished, MarkFailedRaises, Notified,
        Exit, storeVars, procVars, jobVars, mainVars, envVars, TypeOK,
        ProcTypeOK, JobTypeOK, MainTypeOK, ChildInv, EndedInv, StopInv, Alive,
        Locked, Ended, Threads, Busy
  <1>2. ASSUME NEW p \in Procs, \/ StartManual(p) \/ Reap(p) \/ Kill(p)
        PROVE  EndedInv'
    BY <1>2, SchedulerAssumption, OwnersAssumption
    DEF StartManual, Spawn, Reap, Vacate, Watched, Kill, Dies, ReleasedBy,
        storeVars, procVars, jobVars, mainVars, envVars, TypeOK, ProcTypeOK,
        JobTypeOK, MainTypeOK, ChildInv, EndedInv, StopInv, Alive, Locked,
        Ended, Threads, Busy
  <1>3. ASSUME NEW j \in Jobs, \/ Fire(j) \/ StartAttemptRaises(j)
                               \/ PopenRaises(j) \/ Register(j) \/ ChildEnds(j)
                               \/ Expire(j) \/ AlreadyStopped(j)
                               \/ ReadInterruption(j)
        PROVE  EndedInv'
    BY <1>3, SchedulerAssumption, OwnersAssumption
    DEF Fire, Moves, StartAttemptRaises, PopenRaises, Verdict, Register,
        ChildEnds, Expire, AlreadyStopped, ReadInterruption, Outcome,
        storeVars, procVars, jobVars, mainVars, envVars, TypeOK, ProcTypeOK,
        JobTypeOK, MainTypeOK, ChildInv, EndedInv, StopInv, Alive, Locked,
        Ended, Threads, Busy
  <1>4. ASSUME NEW j \in Jobs, StartAttempt(j)
        PROVE  EndedInv'
    BY <1>4, SchedulerAssumption, OwnersAssumption
    DEF StartAttempt, Moves, StoreRun, CanStore, RunningRow, NoRow, storeVars,
        procVars, jobVars, mainVars, envVars, TypeOK, ProcTypeOK, JobTypeOK,
        MainTypeOK, ChildInv, EndedInv, StopInv, Alive, Locked, Ended, Threads,
        Busy
  <1>5. ASSUME NEW j \in Jobs, Popen(j)
        PROVE  EndedInv'
    BY <1>5, SchedulerAssumption, OwnersAssumption
    DEF Popen, Moves, Spawn, storeVars, procVars, jobVars, mainVars, envVars,
        TypeOK, ProcTypeOK, JobTypeOK, MainTypeOK, ChildInv, EndedInv, StopInv,
        Alive, Locked, Ended, Threads, Busy
  <1>6. ASSUME NEW j \in Jobs, StopOnTimeout(j)
        PROVE  EndedInv'
    BY <1>6, SchedulerAssumption, OwnersAssumption
    DEF StopOnTimeout, Moves, StopChild, Dies, ReleasedBy, storeVars, procVars,
        jobVars, mainVars, envVars, TypeOK, ProcTypeOK, JobTypeOK, MainTypeOK,
        ChildInv, EndedInv, StopInv, Alive, Locked, Ended, Threads, Busy
  <1>7. ASSUME NEW j \in Jobs, StopOnShutdown(j)
        PROVE  EndedInv'
    BY <1>7, SchedulerAssumption, OwnersAssumption
    DEF StopOnShutdown, StopChild, Dies, ReleasedBy, Moves, Verdict, storeVars,
        procVars, jobVars, mainVars, envVars, TypeOK, ProcTypeOK, JobTypeOK,
        MainTypeOK, ChildInv, EndedInv, StopInv, Alive, Locked, Ended, Threads,
        Busy
  <1>8. ASSUME NEW j \in Jobs, FinishAttempt(j)
        PROVE  EndedInv'
    BY <1>8, SchedulerAssumption, OwnersAssumption
    DEF FinishAttempt, EndsJob, Moves, Vacate, Verdict, storeVars, procVars,
        jobVars, mainVars, envVars, TypeOK, ProcTypeOK, JobTypeOK, MainTypeOK,
        ChildInv, EndedInv, StopInv, Alive, Locked, Ended, Threads, Busy
  <1>9. ASSUME NEW j \in Jobs, \/ ReconcileBegins(j) \/ VisitOperation(j)
                               \/ StopNotNeeded(j)
        PROVE  EndedInv'
    BY <1>9, SchedulerAssumption, OwnersAssumption
    DEF ReconcileBegins, CanLock, VisitOperation, StopNotNeeded, storeVars,
        procVars, jobVars, mainVars, envVars, TypeOK, ProcTypeOK, JobTypeOK,
        MainTypeOK, ChildInv, EndedInv, StopInv, Alive, Locked, Ended, Threads,
        Busy
  <1>10. ASSUME NEW j \in Jobs, Reconcile(j)
         PROVE  EndedInv'
    <2>1. PICK run \in Stale(now, FALSE) \cup {NoRun} : StopRecorded(j, run)
      BY <1>10, ReconcileShape
    <2>2. lock = j /\ lock' = Free
      BY <1>10, ReconcileShape
    <2> QED
      BY <2>1, <2>2, SchedulerAssumption, OwnersAssumption
      DEF StopRecorded, Moves, procVars, envVars, TypeOK, ProcTypeOK, JobTypeOK, MainTypeOK, LockInv, EndedInv, StopInv
  <1>11. ASSUME NEW j \in Jobs, ReconcileSkipped(j)
         PROVE  EndedInv'
    BY <1>11, SchedulerAssumption, OwnersAssumption
    DEF ReconcileSkipped, StopRecorded, Moves, storeVars, procVars, jobVars,
        mainVars, envVars, TypeOK, ProcTypeOK, JobTypeOK, MainTypeOK, ChildInv,
        EndedInv, StopInv, Alive, Locked, Ended, Threads, Busy
  <1>12. ASSUME NEW j \in Jobs, RecordOverlap(j)
         PROVE  EndedInv'
    BY <1>12, SchedulerAssumption, OwnersAssumption
    DEF RecordOverlap, StoreRun, CanStore, RunningRow, NoRow, storeVars,
        procVars, jobVars, mainVars, envVars, TypeOK, ProcTypeOK, JobTypeOK,
        MainTypeOK, ChildInv, EndedInv, StopInv, Alive, Locked, Ended, Threads,
        Busy
  <1>13. ASSUME \/ Boot \/ Drain \/ Shutdown \/ Tick
                \/ UNCHANGED vars
         PROVE  EndedInv'
    BY <1>13, SchedulerAssumption, OwnersAssumption
    DEF Boot, CanLock, Drain, Shutdown, Tick, vars, storeVars, procVars,
        jobVars, mainVars, envVars, TypeOK, ProcTypeOK, JobTypeOK, MainTypeOK,
        ChildInv, EndedInv, StopInv, Alive, Locked, Ended, Threads, Busy
  <1>14. ASSUME Recover
         PROVE  EndedInv'
    BY <1>14, SchedulerAssumption, OwnersAssumption
    DEF Recover, RecoverRuns, Stale, storeVars, procVars, jobVars, mainVars,
        envVars, TypeOK, ProcTypeOK, JobTypeOK, MainTypeOK, ChildInv, EndedInv,
        StopInv, Alive, Locked, Ended, Threads, Busy
  <1>15. ASSUME Down
         PROVE  EndedInv'
    BY <1>15, SchedulerAssumption, OwnersAssumption
    DEF Down, WorkersDone, Nothing, storeVars, procVars, jobVars, mainVars,
        envVars, TypeOK, ProcTypeOK, JobTypeOK, MainTypeOK, ChildInv, EndedInv,
        StopInv, Alive, Locked, Ended, Threads, Busy
  <1>16. ASSUME FinishOverlap
         PROVE  EndedInv'
    BY <1>16, SchedulerAssumption, OwnersAssumption
    DEF FinishOverlap, Later, FinishRun, CanFinish, Finished, storeVars,
        procVars, jobVars, mainVars, envVars, TypeOK, ProcTypeOK, JobTypeOK,
        MainTypeOK, ChildInv, EndedInv, StopInv, Alive, Locked, Ended, Threads,
        Busy
  <1>17. ASSUME DaemonCrash
         PROVE  EndedInv'
    BY <1>17, SchedulerAssumption, OwnersAssumption
    DEF DaemonCrash, Nothing, Verdict, storeVars, procVars, jobVars, mainVars,
        envVars, TypeOK, ProcTypeOK, JobTypeOK, MainTypeOK, ChildInv, EndedInv,
        StopInv, Alive, Locked, Ended, Threads, Busy
  <1> QED
    BY <1>1, <1>2, <1>3, <1>4, <1>5, <1>6, <1>7, <1>8, <1>9, <1>10, <1>11,
       <1>12, <1>13, <1>14, <1>15, <1>16, <1>17
    DEF Next, ProcStep, RunStep, JobStep, StopStep, MainStep

\* At most one party is inside _interrupt of an operation.
LEMMA InterruptStep ==
  ASSUME TypeOK, LockInv, ChildInv, StopInv, QuietInv, [Next]_vars
  PROVE  StopInv'
  <1>1. ASSUME NEW p \in Procs, ProcStep(p)
        PROVE  StopInv'
    BY <1>1, SchedulerAssumption, OwnersAssumption
    DEF ProcStep, RunStep, EnterFails, Leave, Receipt, ReleasedBy, Enter,
        Acquire, CanLock, SkipOverlap, RunAborts, OpenRun, StoreRun, CanStore,
        RunningRow, NoRow, CommitSucceeds, CommitRun, CanCommit, AnalysisFails,
        MarkFailed, FinishRun, CanFinish, Finished, MarkFailedRaises, Notified,
        Exit, storeVars, procVars, jobVars, mainVars, envVars, TypeOK,
        ProcTypeOK, JobTypeOK, MainTypeOK, ChildInv, StopInv, QuietInv,
        Threads, Busy
  <1>2. ASSUME NEW p \in Procs, \/ StartManual(p) \/ Reap(p) \/ Kill(p)
        PROVE  StopInv'
    BY <1>2, SchedulerAssumption, OwnersAssumption
    DEF StartManual, Spawn, Reap, Vacate, Watched, Kill, Dies, ReleasedBy,
        storeVars, procVars, jobVars, mainVars, envVars, TypeOK, ProcTypeOK,
        JobTypeOK, MainTypeOK, ChildInv, StopInv, QuietInv, Threads, Busy
  <1>3. ASSUME NEW j \in Jobs, \/ Fire(j) \/ StartAttemptRaises(j)
                               \/ PopenRaises(j) \/ Register(j) \/ ChildEnds(j)
                               \/ Expire(j) \/ AlreadyStopped(j)
                               \/ ReadInterruption(j)
        PROVE  StopInv'
    BY <1>3, SchedulerAssumption, OwnersAssumption
    DEF Fire, Moves, StartAttemptRaises, PopenRaises, Verdict, Register,
        ChildEnds, Expire, AlreadyStopped, ReadInterruption, Outcome,
        storeVars, procVars, jobVars, mainVars, envVars, TypeOK, ProcTypeOK,
        JobTypeOK, MainTypeOK, ChildInv, StopInv, QuietInv, Threads, Busy
  <1>4. ASSUME NEW j \in Jobs, StartAttempt(j)
        PROVE  StopInv'
    BY <1>4, SchedulerAssumption, OwnersAssumption
    DEF StartAttempt, Moves, StoreRun, CanStore, RunningRow, NoRow, storeVars,
        procVars, jobVars, mainVars, envVars, TypeOK, ProcTypeOK, JobTypeOK,
        MainTypeOK, ChildInv, StopInv, QuietInv, Threads, Busy
  <1>5. ASSUME NEW j \in Jobs, Popen(j)
        PROVE  StopInv'
    BY <1>5, SchedulerAssumption, OwnersAssumption
    DEF Popen, Moves, Spawn, storeVars, procVars, jobVars, mainVars, envVars,
        TypeOK, ProcTypeOK, JobTypeOK, MainTypeOK, ChildInv, StopInv, QuietInv,
        Threads, Busy
  <1>6. ASSUME NEW j \in Jobs, StopOnTimeout(j)
        PROVE  StopInv'
    BY <1>6, SchedulerAssumption, OwnersAssumption
    DEF StopOnTimeout, Moves, StopChild, Dies, ReleasedBy, storeVars, procVars,
        jobVars, mainVars, envVars, TypeOK, ProcTypeOK, JobTypeOK, MainTypeOK,
        ChildInv, StopInv, QuietInv, Threads, Busy
  <1>7. ASSUME NEW j \in Jobs, StopOnShutdown(j)
        PROVE  StopInv'
    BY <1>7, SchedulerAssumption, OwnersAssumption
    DEF StopOnShutdown, StopChild, Dies, ReleasedBy, Moves, Verdict, storeVars,
        procVars, jobVars, mainVars, envVars, TypeOK, ProcTypeOK, JobTypeOK,
        MainTypeOK, ChildInv, StopInv, QuietInv, Threads, Busy
  <1>8. ASSUME NEW j \in Jobs, FinishAttempt(j)
        PROVE  StopInv'
    BY <1>8, SchedulerAssumption, OwnersAssumption
    DEF FinishAttempt, EndsJob, Moves, Vacate, Verdict, storeVars, procVars,
        jobVars, mainVars, envVars, TypeOK, ProcTypeOK, JobTypeOK, MainTypeOK,
        ChildInv, StopInv, QuietInv, Threads, Busy
  <1>9. ASSUME NEW j \in Jobs, \/ ReconcileBegins(j) \/ VisitOperation(j)
                               \/ StopNotNeeded(j)
        PROVE  StopInv'
    BY <1>9, SchedulerAssumption, OwnersAssumption
    DEF ReconcileBegins, CanLock, VisitOperation, StopNotNeeded, storeVars,
        procVars, jobVars, mainVars, envVars, TypeOK, ProcTypeOK, JobTypeOK,
        MainTypeOK, ChildInv, StopInv, QuietInv, Threads, Busy
  <1>10. ASSUME NEW j \in Jobs, Reconcile(j)
         PROVE  StopInv'
    <2>1. PICK run \in Stale(now, FALSE) \cup {NoRun} : StopRecorded(j, run)
      BY <1>10, ReconcileShape
    <2>2. lock = j /\ lock' = Free
      BY <1>10, ReconcileShape
    <2> QED
      BY <2>1, <2>2, SchedulerAssumption, OwnersAssumption
      DEF StopRecorded, Moves, procVars, envVars, TypeOK, ProcTypeOK, JobTypeOK, MainTypeOK, LockInv, StopInv, QuietInv
  <1>11. ASSUME NEW j \in Jobs, ReconcileSkipped(j)
         PROVE  StopInv'
    BY <1>11, SchedulerAssumption, OwnersAssumption
    DEF ReconcileSkipped, StopRecorded, Moves, storeVars, procVars, jobVars,
        mainVars, envVars, TypeOK, ProcTypeOK, JobTypeOK, MainTypeOK, ChildInv,
        StopInv, QuietInv, Threads, Busy
  <1>12. ASSUME NEW j \in Jobs, RecordOverlap(j)
         PROVE  StopInv'
    BY <1>12, SchedulerAssumption, OwnersAssumption
    DEF RecordOverlap, StoreRun, CanStore, RunningRow, NoRow, storeVars,
        procVars, jobVars, mainVars, envVars, TypeOK, ProcTypeOK, JobTypeOK,
        MainTypeOK, ChildInv, StopInv, QuietInv, Threads, Busy
  <1>13. ASSUME \/ Boot \/ Drain \/ Shutdown \/ Tick
                \/ UNCHANGED vars
         PROVE  StopInv'
    BY <1>13, SchedulerAssumption, OwnersAssumption
    DEF Boot, CanLock, Drain, Shutdown, Tick, vars, storeVars, procVars,
        jobVars, mainVars, envVars, TypeOK, ProcTypeOK, JobTypeOK, MainTypeOK,
        ChildInv, StopInv, QuietInv, Threads, Busy
  <1>14. ASSUME Recover
         PROVE  StopInv'
    BY <1>14, SchedulerAssumption, OwnersAssumption
    DEF Recover, RecoverRuns, Stale, storeVars, procVars, jobVars, mainVars,
        envVars, TypeOK, ProcTypeOK, JobTypeOK, MainTypeOK, ChildInv, StopInv,
        QuietInv, Threads, Busy
  <1>15. ASSUME Down
         PROVE  StopInv'
    BY <1>15, SchedulerAssumption, OwnersAssumption
    DEF Down, WorkersDone, Nothing, storeVars, procVars, jobVars, mainVars,
        envVars, TypeOK, ProcTypeOK, JobTypeOK, MainTypeOK, ChildInv, StopInv,
        QuietInv, Threads, Busy
  <1>16. ASSUME FinishOverlap
         PROVE  StopInv'
    BY <1>16, SchedulerAssumption, OwnersAssumption
    DEF FinishOverlap, Later, FinishRun, CanFinish, Finished, storeVars,
        procVars, jobVars, mainVars, envVars, TypeOK, ProcTypeOK, JobTypeOK,
        MainTypeOK, ChildInv, StopInv, QuietInv, Threads, Busy
  <1>17. ASSUME DaemonCrash
         PROVE  StopInv'
    BY <1>17, SchedulerAssumption, OwnersAssumption
    DEF DaemonCrash, Nothing, Verdict, storeVars, procVars, jobVars, mainVars,
        envVars, TypeOK, ProcTypeOK, JobTypeOK, MainTypeOK, ChildInv, StopInv,
        QuietInv, Threads, Busy
  <1> QED
    BY <1>1, <1>2, <1>3, <1>4, <1>5, <1>6, <1>7, <1>8, <1>9, <1>10, <1>11,
       <1>12, <1>13, <1>14, <1>15, <1>16, <1>17
    DEF Next, ProcStep, RunStep, JobStep, StopStep, MainStep

\* Threads end before the daemon is down.
LEMMA QuietStep ==
  ASSUME TypeOK, StopInv, QuietInv, [Next]_vars
  PROVE  QuietInv'
  <1>1. ASSUME NEW p \in Procs, ProcStep(p)
        PROVE  QuietInv'
    BY <1>1, SchedulerAssumption, OwnersAssumption
    DEF ProcStep, RunStep, EnterFails, Leave, Receipt, ReleasedBy, Enter,
        Acquire, CanLock, SkipOverlap, RunAborts, OpenRun, StoreRun, CanStore,
        RunningRow, NoRow, CommitSucceeds, CommitRun, CanCommit, AnalysisFails,
        MarkFailed, FinishRun, CanFinish, Finished, MarkFailedRaises, Notified,
        Exit, storeVars, procVars, jobVars, mainVars, envVars, TypeOK,
        ProcTypeOK, JobTypeOK, MainTypeOK, StopInv, QuietInv
  <1>2. ASSUME NEW p \in Procs, \/ StartManual(p) \/ Reap(p) \/ Kill(p)
        PROVE  QuietInv'
    BY <1>2, SchedulerAssumption, OwnersAssumption
    DEF StartManual, Spawn, Reap, Vacate, Watched, Kill, Dies, ReleasedBy,
        storeVars, procVars, jobVars, mainVars, envVars, TypeOK, ProcTypeOK,
        JobTypeOK, MainTypeOK, StopInv, QuietInv
  <1>3. ASSUME NEW j \in Jobs, \/ Fire(j) \/ StartAttemptRaises(j)
                               \/ PopenRaises(j) \/ Register(j) \/ ChildEnds(j)
                               \/ Expire(j) \/ AlreadyStopped(j)
                               \/ ReadInterruption(j)
        PROVE  QuietInv'
    BY <1>3, SchedulerAssumption, OwnersAssumption
    DEF Fire, Moves, StartAttemptRaises, PopenRaises, Verdict, Register,
        ChildEnds, Expire, AlreadyStopped, ReadInterruption, Outcome,
        storeVars, procVars, jobVars, mainVars, envVars, TypeOK, ProcTypeOK,
        JobTypeOK, MainTypeOK, StopInv, QuietInv
  <1>4. ASSUME NEW j \in Jobs, StartAttempt(j)
        PROVE  QuietInv'
    BY <1>4, SchedulerAssumption, OwnersAssumption
    DEF StartAttempt, Moves, StoreRun, CanStore, RunningRow, NoRow, storeVars,
        procVars, jobVars, mainVars, envVars, TypeOK, ProcTypeOK, JobTypeOK,
        MainTypeOK, StopInv, QuietInv
  <1>5. ASSUME NEW j \in Jobs, Popen(j)
        PROVE  QuietInv'
    BY <1>5, SchedulerAssumption, OwnersAssumption
    DEF Popen, Moves, Spawn, storeVars, procVars, jobVars, mainVars, envVars,
        TypeOK, ProcTypeOK, JobTypeOK, MainTypeOK, StopInv, QuietInv
  <1>6. ASSUME NEW j \in Jobs, StopOnTimeout(j)
        PROVE  QuietInv'
    BY <1>6, SchedulerAssumption, OwnersAssumption
    DEF StopOnTimeout, Moves, StopChild, Dies, ReleasedBy, storeVars, procVars,
        jobVars, mainVars, envVars, TypeOK, ProcTypeOK, JobTypeOK, MainTypeOK,
        StopInv, QuietInv
  <1>7. ASSUME NEW j \in Jobs, StopOnShutdown(j)
        PROVE  QuietInv'
    BY <1>7, SchedulerAssumption, OwnersAssumption
    DEF StopOnShutdown, StopChild, Dies, ReleasedBy, Moves, Verdict, storeVars,
        procVars, jobVars, mainVars, envVars, TypeOK, ProcTypeOK, JobTypeOK,
        MainTypeOK, StopInv, QuietInv
  <1>8. ASSUME NEW j \in Jobs, FinishAttempt(j)
        PROVE  QuietInv'
    BY <1>8, SchedulerAssumption, OwnersAssumption
    DEF FinishAttempt, EndsJob, Moves, Vacate, Verdict, storeVars, procVars,
        jobVars, mainVars, envVars, TypeOK, ProcTypeOK, JobTypeOK, MainTypeOK,
        StopInv, QuietInv
  <1>9. ASSUME NEW j \in Jobs, \/ ReconcileBegins(j) \/ VisitOperation(j)
                               \/ StopNotNeeded(j)
        PROVE  QuietInv'
    BY <1>9, SchedulerAssumption, OwnersAssumption
    DEF ReconcileBegins, CanLock, VisitOperation, StopNotNeeded, storeVars,
        procVars, jobVars, mainVars, envVars, TypeOK, ProcTypeOK, JobTypeOK,
        MainTypeOK, StopInv, QuietInv
  <1>10. ASSUME NEW j \in Jobs, Reconcile(j)
         PROVE  QuietInv'
    BY <1>10, SchedulerAssumption, OwnersAssumption
    DEF Reconcile, StopRecorded, Moves, storeVars, procVars, jobVars, mainVars,
        envVars, TypeOK, ProcTypeOK, JobTypeOK, MainTypeOK, StopInv, QuietInv
  <1>11. ASSUME NEW j \in Jobs, ReconcileSkipped(j)
         PROVE  QuietInv'
    BY <1>11, SchedulerAssumption, OwnersAssumption
    DEF ReconcileSkipped, StopRecorded, Moves, storeVars, procVars, jobVars,
        mainVars, envVars, TypeOK, ProcTypeOK, JobTypeOK, MainTypeOK, StopInv,
        QuietInv
  <1>12. ASSUME NEW j \in Jobs, RecordOverlap(j)
         PROVE  QuietInv'
    BY <1>12, SchedulerAssumption, OwnersAssumption
    DEF RecordOverlap, StoreRun, CanStore, RunningRow, NoRow, storeVars,
        procVars, jobVars, mainVars, envVars, TypeOK, ProcTypeOK, JobTypeOK,
        MainTypeOK, StopInv, QuietInv
  <1>13. ASSUME \/ Boot \/ Drain \/ Shutdown \/ Tick
                \/ UNCHANGED vars
         PROVE  QuietInv'
    BY <1>13, SchedulerAssumption, OwnersAssumption
    DEF Boot, CanLock, Drain, Shutdown, Tick, vars, storeVars, procVars,
        jobVars, mainVars, envVars, TypeOK, ProcTypeOK, JobTypeOK, MainTypeOK,
        StopInv, QuietInv
  <1>14. ASSUME Recover
         PROVE  QuietInv'
    BY <1>14, SchedulerAssumption, OwnersAssumption
    DEF Recover, RecoverRuns, Stale, storeVars, procVars, jobVars, mainVars,
        envVars, TypeOK, ProcTypeOK, JobTypeOK, MainTypeOK, StopInv, QuietInv
  <1>15. ASSUME Down
         PROVE  QuietInv'
    BY <1>15, SchedulerAssumption, OwnersAssumption
    DEF Down, WorkersDone, Nothing, storeVars, procVars, jobVars, mainVars,
        envVars, TypeOK, ProcTypeOK, JobTypeOK, MainTypeOK, StopInv, QuietInv
  <1>16. ASSUME FinishOverlap
         PROVE  QuietInv'
    BY <1>16, SchedulerAssumption, OwnersAssumption
    DEF FinishOverlap, Later, FinishRun, CanFinish, Finished, storeVars,
        procVars, jobVars, mainVars, envVars, TypeOK, ProcTypeOK, JobTypeOK,
        MainTypeOK, StopInv, QuietInv
  <1>17. ASSUME DaemonCrash
         PROVE  QuietInv'
    BY <1>17, SchedulerAssumption, OwnersAssumption
    DEF DaemonCrash, Nothing, Verdict, storeVars, procVars, jobVars, mainVars,
        envVars, TypeOK, ProcTypeOK, JobTypeOK, MainTypeOK, StopInv, QuietInv
  <1> QED
    BY <1>1, <1>2, <1>3, <1>4, <1>5, <1>6, <1>7, <1>8, <1>9, <1>10, <1>11,
       <1>12, <1>13, <1>14, <1>15, <1>16, <1>17
    DEF Next, ProcStep, RunStep, JobStep, StopStep, MainStep

\* The lock passes from owner to owner through Free.
LEMMA LockStep ==
  ASSUME TypeOK, LockInv, ChildInv, EndedInv, StopInv, QuietInv, [Next]_vars
  PROVE  LockInv'
  <1>1. ASSUME NEW p \in Procs, ProcStep(p)
        PROVE  LockInv'
    BY <1>1, SchedulerAssumption, OwnersAssumption
    DEF ProcStep, RunStep, EnterFails, Leave, Receipt, ReleasedBy, Enter,
        Acquire, CanLock, SkipOverlap, RunAborts, OpenRun, StoreRun, CanStore,
        RunningRow, NoRow, CommitSucceeds, CommitRun, CanCommit, AnalysisFails,
        MarkFailed, FinishRun, CanFinish, Finished, MarkFailedRaises, Notified,
        Exit, storeVars, procVars, jobVars, mainVars, envVars, TypeOK,
        ProcTypeOK, JobTypeOK, MainTypeOK, LockInv, WriterHoldsLock, ChildInv,
        EndedInv, StopInv, QuietInv, Alive, Locked, Ended
  <1>2. ASSUME NEW p \in Procs, \/ StartManual(p) \/ Reap(p) \/ Kill(p)
        PROVE  LockInv'
    BY <1>2, SchedulerAssumption, OwnersAssumption
    DEF StartManual, Spawn, Reap, Vacate, Watched, Kill, Dies, ReleasedBy,
        storeVars, procVars, jobVars, mainVars, envVars, TypeOK, ProcTypeOK,
        JobTypeOK, MainTypeOK, LockInv, WriterHoldsLock, ChildInv, EndedInv,
        StopInv, QuietInv, Alive, Locked, Ended
  <1>3. ASSUME NEW j \in Jobs, \/ Fire(j) \/ StartAttemptRaises(j)
                               \/ PopenRaises(j) \/ Register(j) \/ ChildEnds(j)
                               \/ Expire(j) \/ AlreadyStopped(j)
                               \/ ReadInterruption(j)
        PROVE  LockInv'
    BY <1>3, SchedulerAssumption, OwnersAssumption
    DEF Fire, Moves, StartAttemptRaises, PopenRaises, Verdict, Register,
        ChildEnds, Expire, AlreadyStopped, ReadInterruption, Outcome,
        storeVars, procVars, jobVars, mainVars, envVars, TypeOK, ProcTypeOK,
        JobTypeOK, MainTypeOK, LockInv, WriterHoldsLock, ChildInv, EndedInv,
        StopInv, QuietInv, Alive, Locked, Ended
  <1>4. ASSUME NEW j \in Jobs, StartAttempt(j)
        PROVE  LockInv'
    BY <1>4, SchedulerAssumption, OwnersAssumption
    DEF StartAttempt, Moves, StoreRun, CanStore, RunningRow, NoRow, storeVars,
        procVars, jobVars, mainVars, envVars, TypeOK, ProcTypeOK, JobTypeOK,
        MainTypeOK, LockInv, WriterHoldsLock, ChildInv, EndedInv, StopInv,
        QuietInv, Alive, Locked, Ended
  <1>5. ASSUME NEW j \in Jobs, Popen(j)
        PROVE  LockInv'
    BY <1>5, SchedulerAssumption, OwnersAssumption
    DEF Popen, Moves, Spawn, storeVars, procVars, jobVars, mainVars, envVars,
        TypeOK, ProcTypeOK, JobTypeOK, MainTypeOK, LockInv, WriterHoldsLock,
        ChildInv, EndedInv, StopInv, QuietInv, Alive, Locked, Ended
  <1>6. ASSUME NEW j \in Jobs, StopOnTimeout(j)
        PROVE  LockInv'
    BY <1>6, SchedulerAssumption, OwnersAssumption
    DEF StopOnTimeout, Moves, StopChild, Dies, ReleasedBy, storeVars, procVars,
        jobVars, mainVars, envVars, TypeOK, ProcTypeOK, JobTypeOK, MainTypeOK,
        LockInv, WriterHoldsLock, ChildInv, EndedInv, StopInv, QuietInv, Alive,
        Locked, Ended
  <1>7. ASSUME NEW j \in Jobs, StopOnShutdown(j)
        PROVE  LockInv'
    BY <1>7, SchedulerAssumption, OwnersAssumption
    DEF StopOnShutdown, StopChild, Dies, ReleasedBy, Moves, Verdict, storeVars,
        procVars, jobVars, mainVars, envVars, TypeOK, ProcTypeOK, JobTypeOK,
        MainTypeOK, LockInv, WriterHoldsLock, ChildInv, EndedInv, StopInv,
        QuietInv, Alive, Locked, Ended
  <1>8. ASSUME NEW j \in Jobs, FinishAttempt(j)
        PROVE  LockInv'
    BY <1>8, SchedulerAssumption, OwnersAssumption
    DEF FinishAttempt, EndsJob, Moves, Vacate, Verdict, storeVars, procVars,
        jobVars, mainVars, envVars, TypeOK, ProcTypeOK, JobTypeOK, MainTypeOK,
        LockInv, WriterHoldsLock, ChildInv, EndedInv, StopInv, QuietInv, Alive,
        Locked, Ended
  <1>9. ASSUME NEW j \in Jobs, \/ ReconcileBegins(j) \/ VisitOperation(j)
                               \/ StopNotNeeded(j)
        PROVE  LockInv'
    BY <1>9, SchedulerAssumption, OwnersAssumption
    DEF ReconcileBegins, CanLock, VisitOperation, StopNotNeeded, storeVars,
        procVars, jobVars, mainVars, envVars, TypeOK, ProcTypeOK, JobTypeOK,
        MainTypeOK, LockInv, WriterHoldsLock, ChildInv, EndedInv, StopInv,
        QuietInv, Alive, Locked, Ended
  <1>10. ASSUME NEW j \in Jobs, Reconcile(j)
         PROVE  LockInv'
    <2>1. PICK run \in Stale(now, FALSE) \cup {NoRun} : StopRecorded(j, run)
      BY <1>10, ReconcileShape
    <2>2. lock = j /\ lock' = Free
      BY <1>10, ReconcileShape
    <2> QED
      BY <2>1, <2>2, SchedulerAssumption, OwnersAssumption
      DEF StopRecorded, Moves, procVars, envVars, TypeOK, ProcTypeOK, JobTypeOK, MainTypeOK, LockInv, WriterHoldsLock
  <1>11. ASSUME NEW j \in Jobs, ReconcileSkipped(j)
         PROVE  LockInv'
    BY <1>11, SchedulerAssumption, OwnersAssumption
    DEF ReconcileSkipped, StopRecorded, Moves, storeVars, procVars, jobVars,
        mainVars, envVars, TypeOK, ProcTypeOK, JobTypeOK, MainTypeOK, LockInv,
        WriterHoldsLock, ChildInv, EndedInv, StopInv, QuietInv, Alive, Locked,
        Ended
  <1>12. ASSUME NEW j \in Jobs, RecordOverlap(j)
         PROVE  LockInv'
    BY <1>12, SchedulerAssumption, OwnersAssumption
    DEF RecordOverlap, StoreRun, CanStore, RunningRow, NoRow, storeVars,
        procVars, jobVars, mainVars, envVars, TypeOK, ProcTypeOK, JobTypeOK,
        MainTypeOK, LockInv, WriterHoldsLock, ChildInv, EndedInv, StopInv,
        QuietInv, Alive, Locked, Ended
  <1>13. ASSUME \/ Boot \/ Drain \/ Shutdown \/ Tick
                \/ UNCHANGED vars
         PROVE  LockInv'
    BY <1>13, SchedulerAssumption, OwnersAssumption
    DEF Boot, CanLock, Drain, Shutdown, Tick, vars, storeVars, procVars,
        jobVars, mainVars, envVars, TypeOK, ProcTypeOK, JobTypeOK, MainTypeOK,
        LockInv, WriterHoldsLock, ChildInv, EndedInv, StopInv, QuietInv, Alive,
        Locked, Ended
  <1>14. ASSUME Recover
         PROVE  LockInv'
    BY <1>14, OwnersAssumption
    DEF Recover, procVars, jobVars, TypeOK, ProcTypeOK, JobTypeOK, MainTypeOK, LockInv, WriterHoldsLock
  <1>15. ASSUME Down
         PROVE  LockInv'
    BY <1>15, SchedulerAssumption, OwnersAssumption
    DEF Down, WorkersDone, Nothing, storeVars, procVars, jobVars, mainVars,
        envVars, TypeOK, ProcTypeOK, JobTypeOK, MainTypeOK, LockInv,
        WriterHoldsLock, ChildInv, EndedInv, StopInv, QuietInv, Alive, Locked,
        Ended
  <1>16. ASSUME FinishOverlap
         PROVE  LockInv'
    BY <1>16, SchedulerAssumption, OwnersAssumption
    DEF FinishOverlap, Later, FinishRun, CanFinish, Finished, storeVars,
        procVars, jobVars, mainVars, envVars, TypeOK, ProcTypeOK, JobTypeOK,
        MainTypeOK, LockInv, WriterHoldsLock, ChildInv, EndedInv, StopInv,
        QuietInv, Alive, Locked, Ended
  <1>17. ASSUME DaemonCrash
         PROVE  LockInv'
    BY <1>17, SchedulerAssumption, OwnersAssumption
    DEF DaemonCrash, Nothing, Verdict, storeVars, procVars, jobVars, mainVars,
        envVars, TypeOK, ProcTypeOK, JobTypeOK, MainTypeOK, LockInv,
        WriterHoldsLock, ChildInv, EndedInv, StopInv, QuietInv, Alive, Locked,
        Ended
  <1> QED
    BY <1>1, <1>2, <1>3, <1>4, <1>5, <1>6, <1>7, <1>8, <1>9, <1>10, <1>11,
       <1>12, <1>13, <1>14, <1>15, <1>16, <1>17
    DEF Next, ProcStep, RunStep, JobStep, StopStep, MainStep

-----------------------------------------------------------------------------
(* Attempts and runs.                                                       *)

\* A number is taken only where one is left.
LEMMA BudgetStep ==
  ASSUME TypeOK, QuietInv, StopInv, BudgetInv, [Next]_vars
  PROVE  BudgetInv'
  <1>1. ASSUME NEW p \in Procs, ProcStep(p)
        PROVE  BudgetInv'
    <2>1. seq' = seq /\ Submitted' = Submitted
      BY <1>1
      DEF ProcStep, RunStep, EnterFails, Leave, Receipt, ReleasedBy, Enter,
          Acquire, CanLock, SkipOverlap, RunAborts, OpenRun, StoreRun,
          CanStore, RunningRow, NoRow, CommitSucceeds, CommitRun, CanCommit,
          AnalysisFails, MarkFailed, FinishRun, CanFinish, Finished,
          MarkFailedRaises, Notified, Exit, storeVars, procVars, jobVars,
          mainVars, envVars, TypeOK, ProcTypeOK, JobTypeOK, MainTypeOK,
          StopInv, Submitted, Threads, Busy
    <2> QED
      BY <2>1 DEF BudgetInv
  <1>2. ASSUME NEW p \in Procs, \/ StartManual(p) \/ Reap(p) \/ Kill(p)
        PROVE  BudgetInv'
    <2>1. seq' = seq /\ Submitted' = Submitted
      BY <1>2
      DEF StartManual, Spawn, Reap, Vacate, Watched, Kill, Dies, ReleasedBy,
          storeVars, procVars, jobVars, mainVars, envVars, TypeOK, ProcTypeOK,
          JobTypeOK, MainTypeOK, StopInv, Submitted, Threads, Busy
    <2> QED
      BY <2>1 DEF BudgetInv
  <1>3. ASSUME NEW j \in Jobs, \/ PopenRaises(j) \/ Register(j) \/ ChildEnds(j)
                               \/ Expire(j) \/ AlreadyStopped(j)
                               \/ ReadInterruption(j)
        PROVE  BudgetInv'
    <2>1. seq' = seq /\ Submitted' = Submitted
      BY <1>3
      DEF PopenRaises, Moves, Verdict, Register, ChildEnds, Expire,
          AlreadyStopped, ReadInterruption, Outcome, storeVars, procVars,
          jobVars, mainVars, envVars, TypeOK, ProcTypeOK, JobTypeOK,
          MainTypeOK, StopInv, Submitted, Threads, Busy
    <2> QED
      BY <2>1 DEF BudgetInv
  <1>4. ASSUME NEW j \in Jobs, Fire(j)
        PROVE  BudgetInv'
    <2>1. seq' = seq /\ Submitted' = Submitted \cup {j} /\ j \notin Submitted
      BY <1>4 DEF Fire, Moves, mainVars, TypeOK, JobTypeOK, Submitted
    <2>2. IsFiniteSet(Submitted)
      BY FS_Subset, SchedulerAssumption DEF Submitted
    <2>3. Cardinality(Submitted') = Cardinality(Submitted) + 1
      BY <2>1, <2>2, FS_AddElement
    <2>4. Cardinality(Submitted) \in Nat
      BY <2>2, FS_CardinalityType
    <2> QED
      BY <1>4, <2>1, <2>3, <2>4, BoundsAssumption DEF Fire, Budgeted, BudgetInv, TypeOK, MainTypeOK
  <1>5. ASSUME NEW j \in Jobs, StartAttemptRaises(j)
        PROVE  BudgetInv'
    <2>1. seq' = seq + 1 /\ Submitted' = Submitted \ {j} /\ thread[j] = "submitted"
      BY <1>5 DEF StartAttemptRaises, Moves, TypeOK, JobTypeOK, Submitted
    <2>2. /\ Cardinality(Submitted') = Cardinality(Submitted) - 1
          /\ Cardinality(Submitted) \in Nat
      BY <2>1, SubmittedHasNumber
    <2> QED
      BY <2>1, <2>2, BoundsAssumption DEF BudgetInv, TypeOK, MainTypeOK
  <1>6. ASSUME NEW j \in Jobs, StartAttempt(j)
        PROVE  BudgetInv'
    <2>1. seq' = seq + 1 /\ Submitted' = Submitted \ {j} /\ thread[j] = "submitted"
      BY <1>6 DEF StartAttempt, Moves, TypeOK, JobTypeOK, Submitted
    <2>2. /\ Cardinality(Submitted') = Cardinality(Submitted) - 1
          /\ Cardinality(Submitted) \in Nat
      BY <2>1, SubmittedHasNumber
    <2> QED
      BY <2>1, <2>2, BoundsAssumption DEF BudgetInv, TypeOK, MainTypeOK
  <1>7. ASSUME NEW j \in Jobs, Popen(j)
        PROVE  BudgetInv'
    <2>1. seq' = seq /\ Submitted' = Submitted
      BY <1>7
      DEF Popen, Moves, Spawn, storeVars, procVars, jobVars, mainVars, envVars,
          TypeOK, ProcTypeOK, JobTypeOK, MainTypeOK, StopInv, Submitted,
          Threads, Busy
    <2> QED
      BY <2>1 DEF BudgetInv
  <1>8. ASSUME NEW j \in Jobs, StopOnTimeout(j)
        PROVE  BudgetInv'
    <2>1. seq' = seq /\ Submitted' = Submitted
      BY <1>8
      DEF StopOnTimeout, Moves, StopChild, Dies, ReleasedBy, storeVars,
          procVars, jobVars, mainVars, envVars, TypeOK, ProcTypeOK, JobTypeOK,
          MainTypeOK, StopInv, Submitted, Threads, Busy
    <2> QED
      BY <2>1 DEF BudgetInv
  <1>9. ASSUME NEW j \in Jobs, StopOnShutdown(j)
        PROVE  BudgetInv'
    <2>1. seq' = seq /\ Submitted' = Submitted
      BY <1>9
      DEF StopOnShutdown, StopChild, Dies, ReleasedBy, Moves, Verdict,
          storeVars, procVars, jobVars, mainVars, envVars, TypeOK, ProcTypeOK,
          JobTypeOK, MainTypeOK, StopInv, Submitted, Threads, Busy
    <2> QED
      BY <2>1 DEF BudgetInv
  <1>10. ASSUME NEW j \in Jobs, FinishAttempt(j)
         PROVE  BudgetInv'
    <2>1. seq' = seq /\ Submitted' = Submitted
      BY <1>10
      DEF FinishAttempt, EndsJob, Moves, Vacate, Verdict, storeVars, procVars,
          jobVars, mainVars, envVars, TypeOK, ProcTypeOK, JobTypeOK,
          MainTypeOK, StopInv, Submitted, Threads, Busy
    <2> QED
      BY <2>1 DEF BudgetInv
  <1>11. ASSUME NEW j \in Jobs, \/ ReconcileBegins(j) \/ VisitOperation(j)
                                \/ StopNotNeeded(j)
         PROVE  BudgetInv'
    <2>1. seq' = seq /\ Submitted' = Submitted
      BY <1>11
      DEF ReconcileBegins, CanLock, VisitOperation, StopNotNeeded, storeVars,
          procVars, jobVars, mainVars, envVars, TypeOK, ProcTypeOK, JobTypeOK,
          MainTypeOK, StopInv, Submitted, Threads, Busy
    <2> QED
      BY <2>1 DEF BudgetInv
  <1>12. ASSUME NEW j \in Jobs, Reconcile(j)
         PROVE  BudgetInv'
    <2>1. PICK run \in Stale(now, FALSE) \cup {NoRun} : StopRecorded(j, run)
      BY <1>12, ReconcileShape
    <2>2. seq' = seq /\ Submitted' = Submitted
      BY <2>1 DEF StopRecorded, Moves, TypeOK, JobTypeOK, StopInv, Submitted, Threads
    <2> QED
      BY <2>2 DEF BudgetInv
  <1>13. ASSUME NEW j \in Jobs, ReconcileSkipped(j)
         PROVE  BudgetInv'
    <2>1. seq' = seq /\ Submitted' = Submitted
      BY <1>13
      DEF ReconcileSkipped, StopRecorded, Moves, storeVars, procVars, jobVars,
          mainVars, envVars, TypeOK, ProcTypeOK, JobTypeOK, MainTypeOK,
          StopInv, Submitted, Threads, Busy
    <2> QED
      BY <2>1 DEF BudgetInv
  <1>14. ASSUME NEW j \in Jobs, RecordOverlap(j)
         PROVE  BudgetInv'
    <2>1. seq' = seq + 1 /\ Submitted' = Submitted /\ Budgeted
      BY <1>14 DEF RecordOverlap, jobVars, Submitted
    <2>2. Cardinality(Submitted) \in Nat
      BY FS_Subset, FS_CardinalityType, SchedulerAssumption DEF Submitted
    <2> QED
      BY <2>1, <2>2, BoundsAssumption DEF Budgeted, BudgetInv, TypeOK, MainTypeOK
  <1>15. ASSUME \/ Boot \/ Drain \/ Shutdown \/ Tick
                \/ UNCHANGED vars
         PROVE  BudgetInv'
    <2>1. seq' = seq /\ Submitted' = Submitted
      BY <1>15
      DEF Boot, CanLock, Drain, Shutdown, Tick, vars, storeVars, procVars,
          jobVars, mainVars, envVars, TypeOK, ProcTypeOK, JobTypeOK,
          MainTypeOK, StopInv, Submitted, Threads, Busy
    <2> QED
      BY <2>1 DEF BudgetInv
  <1>16. ASSUME Recover
         PROVE  BudgetInv'
    <2>1. seq' = 0 /\ Submitted' = {}
      BY <1>16 DEF Recover, jobVars, Submitted, QuietInv
    <2> QED
      BY <2>1, FS_EmptySet, BoundsAssumption DEF BudgetInv
  <1>17. ASSUME Down
         PROVE  BudgetInv'
    <2>1. seq' = seq /\ Submitted' = Submitted
      BY <1>17
      DEF Down, WorkersDone, Nothing, storeVars, procVars, jobVars, mainVars,
          envVars, TypeOK, ProcTypeOK, JobTypeOK, MainTypeOK, StopInv,
          Submitted, Threads, Busy
    <2> QED
      BY <2>1 DEF BudgetInv
  <1>18. ASSUME FinishOverlap
         PROVE  BudgetInv'
    <2>1. seq' = seq /\ Submitted' = Submitted
      BY <1>18
      DEF FinishOverlap, Later, FinishRun, CanFinish, Finished, storeVars,
          procVars, jobVars, mainVars, envVars, TypeOK, ProcTypeOK, JobTypeOK,
          MainTypeOK, StopInv, Submitted, Threads, Busy
    <2> QED
      BY <2>1 DEF BudgetInv
  <1>19. ASSUME DaemonCrash
         PROVE  BudgetInv'
    <2>1. seq' = seq /\ Submitted' = {}
      BY <1>19 DEF DaemonCrash, Nothing, Submitted
    <2> QED
      BY <2>1, FS_EmptySet, BoundsAssumption DEF BudgetInv, TypeOK, MainTypeOK
  <1> QED
    BY <1>1, <1>2, <1>3, <1>4, <1>5, <1>6, <1>7, <1>8, <1>9, <1>10, <1>11,
       <1>12, <1>13, <1>14, <1>15, <1>16, <1>17, <1>18, <1>19
    DEF Next, ProcStep, RunStep, JobStep, StopStep, MainStep

\* Attempts in flight have numbers of their own.
LEMMA AttemptStep ==
  ASSUME TypeOK, LockInv, StopInv, QuietInv, BudgetInv, AttemptInv, [Next]_vars
  PROVE  AttemptInv'
  <1>1. ASSUME NEW p \in Procs, ProcStep(p)
        PROVE  AttemptInv'
    BY <1>1, SchedulerAssumption, BoundsAssumption
    DEF ProcStep, RunStep, EnterFails, Leave, Receipt, ReleasedBy, Enter,
        Acquire, CanLock, SkipOverlap, RunAborts, OpenRun, StoreRun, CanStore,
        RunningRow, NoRow, CommitSucceeds, CommitRun, CanCommit, AnalysisFails,
        MarkFailed, FinishRun, CanFinish, Finished, MarkFailedRaises, Notified,
        Exit, storeVars, procVars, jobVars, mainVars, envVars, TypeOK,
        ProcTypeOK, JobTypeOK, MainTypeOK, StopInv, AttemptInv, QuietInv,
        AttemptIds, Sequences, Threads, Busy
  <1>2. ASSUME NEW p \in Procs, \/ StartManual(p) \/ Reap(p) \/ Kill(p)
        PROVE  AttemptInv'
    BY <1>2, SchedulerAssumption, BoundsAssumption
    DEF StartManual, Spawn, Reap, Vacate, Watched, Kill, Dies, ReleasedBy,
        storeVars, procVars, jobVars, mainVars, envVars, TypeOK, ProcTypeOK,
        JobTypeOK, MainTypeOK, StopInv, AttemptInv, QuietInv, AttemptIds,
        Sequences, Threads, Busy
  <1>3. ASSUME NEW j \in Jobs, \/ Fire(j) \/ StartAttemptRaises(j)
                               \/ PopenRaises(j) \/ Register(j) \/ ChildEnds(j)
                               \/ Expire(j) \/ AlreadyStopped(j)
                               \/ ReadInterruption(j)
        PROVE  AttemptInv'
    BY <1>3, SchedulerAssumption, BoundsAssumption
    DEF Fire, Moves, StartAttemptRaises, PopenRaises, Verdict, Register,
        ChildEnds, Expire, AlreadyStopped, ReadInterruption, Outcome,
        storeVars, procVars, jobVars, mainVars, envVars, TypeOK, ProcTypeOK,
        JobTypeOK, MainTypeOK, StopInv, AttemptInv, QuietInv, AttemptIds,
        Sequences, Threads, Busy
  <1>4. ASSUME NEW j \in Jobs, StartAttempt(j)
        PROVE  AttemptInv'
    <2>0. <<j, now, seq>> \in AttemptIds
      BY <1>4, SubmittedHasNumber DEF StartAttempt
    <2>1. /\ seq' = seq + 1 /\ seq \in Nat
          /\ attempt' = [attempt EXCEPT ![j] = <<j, now, seq>>] /\ overlap' = overlap
          /\ thread' = [thread EXCEPT ![j] = "attempted"]
      BY <1>4, BoundsAssumption DEF StartAttempt, Moves, TypeOK, MainTypeOK
    <2>2. <<j, now, seq>> # overlap
      BY <2>0, <2>1, SchedulerAssumption DEF AttemptInv
    <2>3. \A k \in Jobs : thread[k] \in Busy => attempt[k][3] \in Nat
      BY BoundsAssumption DEF AttemptInv, AttemptIds, Sequences
    <2>4. overlap # NoAttempt => overlap[3] \in Nat
      BY BoundsAssumption DEF TypeOK, MainTypeOK, AttemptIds, Sequences
    <2> QED
      BY <2>0, <2>1, <2>2, <2>3, <2>4 DEF AttemptInv, TypeOK, JobTypeOK, Busy
  <1>5. ASSUME NEW j \in Jobs, Popen(j)
        PROVE  AttemptInv'
    BY <1>5, SchedulerAssumption, BoundsAssumption
    DEF Popen, Moves, Spawn, storeVars, procVars, jobVars, mainVars, envVars,
        TypeOK, ProcTypeOK, JobTypeOK, MainTypeOK, StopInv, AttemptInv,
        QuietInv, AttemptIds, Sequences, Threads, Busy
  <1>6. ASSUME NEW j \in Jobs, StopOnTimeout(j)
        PROVE  AttemptInv'
    BY <1>6, SchedulerAssumption, BoundsAssumption
    DEF StopOnTimeout, Moves, StopChild, Dies, ReleasedBy, storeVars, procVars,
        jobVars, mainVars, envVars, TypeOK, ProcTypeOK, JobTypeOK, MainTypeOK,
        StopInv, AttemptInv, QuietInv, AttemptIds, Sequences, Threads, Busy
  <1>7. ASSUME NEW j \in Jobs, StopOnShutdown(j)
        PROVE  AttemptInv'
    BY <1>7, SchedulerAssumption, BoundsAssumption
    DEF StopOnShutdown, StopChild, Dies, ReleasedBy, Moves, Verdict, storeVars,
        procVars, jobVars, mainVars, envVars, TypeOK, ProcTypeOK, JobTypeOK,
        MainTypeOK, StopInv, AttemptInv, QuietInv, AttemptIds, Sequences,
        Threads, Busy
  <1>8. ASSUME NEW j \in Jobs, FinishAttempt(j)
        PROVE  AttemptInv'
    BY <1>8, SchedulerAssumption, BoundsAssumption
    DEF FinishAttempt, EndsJob, Moves, Vacate, Verdict, storeVars, procVars,
        jobVars, mainVars, envVars, TypeOK, ProcTypeOK, JobTypeOK, MainTypeOK,
        StopInv, AttemptInv, QuietInv, AttemptIds, Sequences, Threads, Busy
  <1>9. ASSUME NEW j \in Jobs, \/ ReconcileBegins(j) \/ VisitOperation(j)
                               \/ StopNotNeeded(j)
        PROVE  AttemptInv'
    BY <1>9, SchedulerAssumption, BoundsAssumption
    DEF ReconcileBegins, CanLock, VisitOperation, StopNotNeeded, storeVars,
        procVars, jobVars, mainVars, envVars, TypeOK, ProcTypeOK, JobTypeOK,
        MainTypeOK, StopInv, AttemptInv, QuietInv, AttemptIds, Sequences,
        Threads, Busy
  <1>10. ASSUME NEW j \in Jobs, Reconcile(j)
         PROVE  AttemptInv'
    <2>1. PICK run \in Stale(now, FALSE) \cup {NoRun} : StopRecorded(j, run)
      BY <1>10, ReconcileShape
    <2>2. lock = j /\ lock' = Free
      BY <1>10, ReconcileShape
    <2> QED
      BY <2>1, <2>2, SchedulerAssumption, OwnersAssumption
      DEF StopRecorded, Moves, procVars, envVars, TypeOK, ProcTypeOK, JobTypeOK, MainTypeOK, LockInv, StopInv, AttemptInv, Busy
  <1>11. ASSUME NEW j \in Jobs, ReconcileSkipped(j)
         PROVE  AttemptInv'
    BY <1>11, SchedulerAssumption, BoundsAssumption
    DEF ReconcileSkipped, StopRecorded, Moves, storeVars, procVars, jobVars,
        mainVars, envVars, TypeOK, ProcTypeOK, JobTypeOK, MainTypeOK, StopInv,
        AttemptInv, QuietInv, AttemptIds, Sequences, Threads, Busy
  <1>12. ASSUME NEW j \in Jobs, RecordOverlap(j)
         PROVE  AttemptInv'
    BY <1>12, SchedulerAssumption, BoundsAssumption
    DEF RecordOverlap, StoreRun, CanStore, RunningRow, NoRow, storeVars,
        procVars, jobVars, mainVars, envVars, TypeOK, ProcTypeOK, JobTypeOK,
        MainTypeOK, StopInv, AttemptInv, QuietInv, AttemptIds, Sequences,
        Threads, Busy
  <1>13. ASSUME \/ Boot \/ Drain \/ Shutdown \/ Tick
                \/ UNCHANGED vars
         PROVE  AttemptInv'
    BY <1>13, SchedulerAssumption, BoundsAssumption
    DEF Boot, CanLock, Drain, Shutdown, Tick, vars, storeVars, procVars,
        jobVars, mainVars, envVars, TypeOK, ProcTypeOK, JobTypeOK, MainTypeOK,
        StopInv, AttemptInv, QuietInv, AttemptIds, Sequences, Threads, Busy
  <1>14. ASSUME Recover
         PROVE  AttemptInv'
    BY <1>14, SchedulerAssumption, BoundsAssumption
    DEF Recover, RecoverRuns, Stale, storeVars, procVars, jobVars, mainVars,
        envVars, TypeOK, ProcTypeOK, JobTypeOK, MainTypeOK, StopInv,
        AttemptInv, QuietInv, AttemptIds, Sequences, Threads, Busy
  <1>15. ASSUME Down
         PROVE  AttemptInv'
    BY <1>15, SchedulerAssumption, BoundsAssumption
    DEF Down, WorkersDone, Nothing, storeVars, procVars, jobVars, mainVars,
        envVars, TypeOK, ProcTypeOK, JobTypeOK, MainTypeOK, StopInv,
        AttemptInv, QuietInv, AttemptIds, Sequences, Threads, Busy
  <1>16. ASSUME FinishOverlap
         PROVE  AttemptInv'
    BY <1>16, SchedulerAssumption, BoundsAssumption
    DEF FinishOverlap, Later, FinishRun, CanFinish, Finished, storeVars,
        procVars, jobVars, mainVars, envVars, TypeOK, ProcTypeOK, JobTypeOK,
        MainTypeOK, StopInv, AttemptInv, QuietInv, AttemptIds, Sequences,
        Threads, Busy
  <1>17. ASSUME DaemonCrash
         PROVE  AttemptInv'
    BY <1>17, SchedulerAssumption, BoundsAssumption
    DEF DaemonCrash, Nothing, Verdict, storeVars, procVars, jobVars, mainVars,
        envVars, TypeOK, ProcTypeOK, JobTypeOK, MainTypeOK, StopInv,
        AttemptInv, QuietInv, AttemptIds, Sequences, Threads, Busy
  <1> QED
    BY <1>1, <1>2, <1>3, <1>4, <1>5, <1>6, <1>7, <1>8, <1>9, <1>10, <1>11,
       <1>12, <1>13, <1>14, <1>15, <1>16, <1>17
    DEF Next, ProcStep, RunStep, JobStep, StopStep, MainStep

\* Opening a run touches no row that is already running or ended.
LEMMA StoreRunKeeps ==
  ASSUME runs \in [Ids -> Rows], NEW id, NEW t, StoreRun(id, t)
  PROVE  \A r \in Ids :
           /\ runs[r].status = "RUNNING" => runs'[r].status = "RUNNING"
           /\ runs[r].status \in Terminal => runs'[r] = runs[r]
  <1> SUFFICES ASSUME NEW r \in Ids
               PROVE  /\ runs[r].status = "RUNNING" => runs'[r].status = "RUNNING"
                      /\ runs[r].status \in Terminal => runs'[r] = runs[r]
    OBVIOUS
  <1>1. CASE r = id
    <2>1. runs'[r] = RunningRow(t)
      BY <1>1 DEF StoreRun
    <2>2. runs'[r].status = "RUNNING"
      BY <2>1 DEF RunningRow
    <2>3. runs[r].status \notin Terminal
      BY <1>1 DEF StoreRun, CanStore, NoRow, RunningRow, Terminal
    <2> QED
      BY <2>2, <2>3
  <1>2. CASE r # id
    BY <1>2 DEF StoreRun
  <1> QED
    BY <1>1, <1>2

\* Only the process that executes a run ends it: recovery needs the lock.
LEMMA ExecutedStep ==
  ASSUME TypeOK, LockInv, ChildInv, EndedInv, AttemptInv, AttemptSurvives,
  ExecutedRunStaysRunning, [Next]_vars
  PROVE  ExecutedRunStaysRunning'
  <1>1. ASSUME NEW p \in Procs, ProcStep(p)
        PROVE  ExecutedRunStaysRunning'
    BY <1>1, SchedulerAssumption, OwnersAssumption, IdentityAssumption
    DEF ProcStep, RunStep, EnterFails, Leave, Receipt, ReleasedBy, Enter,
        Acquire, CanLock, SkipOverlap, RunAborts, OpenRun, StoreRun, CanStore,
        RunningRow, NoRow, CommitSucceeds, CommitRun, CanCommit, AnalysisFails,
        MarkFailed, FinishRun, CanFinish, Finished, MarkFailedRaises, Notified,
        Exit, storeVars, procVars, jobVars, mainVars, envVars, TypeOK,
        ProcTypeOK, JobTypeOK, MainTypeOK, LockInv, WriterHoldsLock,
        AttemptInv, AttemptSurvives, ExecutedRunStaysRunning, Ids, Locked,
        Ended, ChildInv, EndedInv, Busy, Terminal
  <1>2. ASSUME NEW p \in Procs, \/ StartManual(p) \/ Reap(p) \/ Kill(p)
        PROVE  ExecutedRunStaysRunning'
    BY <1>2, SchedulerAssumption, OwnersAssumption, IdentityAssumption
    DEF StartManual, Spawn, Reap, Vacate, Watched, Kill, Dies, ReleasedBy,
        storeVars, procVars, jobVars, mainVars, envVars, TypeOK, ProcTypeOK,
        JobTypeOK, MainTypeOK, LockInv, WriterHoldsLock, AttemptInv,
        AttemptSurvives, ExecutedRunStaysRunning, Ids, Locked, Ended, ChildInv,
        EndedInv, Busy
  <1>3. ASSUME NEW j \in Jobs, \/ Fire(j) \/ StartAttemptRaises(j)
                               \/ PopenRaises(j) \/ Register(j) \/ ChildEnds(j)
                               \/ Expire(j) \/ AlreadyStopped(j)
                               \/ ReadInterruption(j)
        PROVE  ExecutedRunStaysRunning'
    BY <1>3, SchedulerAssumption, OwnersAssumption, IdentityAssumption
    DEF Fire, Moves, StartAttemptRaises, PopenRaises, Verdict, Register,
        ChildEnds, Expire, AlreadyStopped, ReadInterruption, Outcome,
        storeVars, procVars, jobVars, mainVars, envVars, TypeOK, ProcTypeOK,
        JobTypeOK, MainTypeOK, LockInv, WriterHoldsLock, AttemptInv,
        AttemptSurvives, ExecutedRunStaysRunning, Ids, Locked, Ended, ChildInv,
        EndedInv, Busy
  <1>4. ASSUME NEW j \in Jobs, StartAttempt(j)
        PROVE  ExecutedRunStaysRunning'
    BY <1>4, SchedulerAssumption, OwnersAssumption, IdentityAssumption
    DEF StartAttempt, Moves, StoreRun, CanStore, RunningRow, NoRow, storeVars,
        procVars, jobVars, mainVars, envVars, TypeOK, ProcTypeOK, JobTypeOK,
        MainTypeOK, LockInv, WriterHoldsLock, AttemptInv, AttemptSurvives,
        ExecutedRunStaysRunning, Ids, Locked, Ended, ChildInv, EndedInv, Busy
  <1>5. ASSUME NEW j \in Jobs, Popen(j)
        PROVE  ExecutedRunStaysRunning'
    BY <1>5, SchedulerAssumption, OwnersAssumption, IdentityAssumption
    DEF Popen, Moves, Spawn, storeVars, procVars, jobVars, mainVars, envVars,
        TypeOK, ProcTypeOK, JobTypeOK, MainTypeOK, LockInv, WriterHoldsLock,
        AttemptInv, AttemptSurvives, ExecutedRunStaysRunning, Ids, Locked,
        Ended, ChildInv, EndedInv, Busy
  <1>6. ASSUME NEW j \in Jobs, StopOnTimeout(j)
        PROVE  ExecutedRunStaysRunning'
    BY <1>6, SchedulerAssumption, OwnersAssumption, IdentityAssumption
    DEF StopOnTimeout, Moves, StopChild, Dies, ReleasedBy, storeVars, procVars,
        jobVars, mainVars, envVars, TypeOK, ProcTypeOK, JobTypeOK, MainTypeOK,
        LockInv, WriterHoldsLock, AttemptInv, AttemptSurvives,
        ExecutedRunStaysRunning, Ids, Locked, Ended, ChildInv, EndedInv, Busy
  <1>7. ASSUME NEW j \in Jobs, StopOnShutdown(j)
        PROVE  ExecutedRunStaysRunning'
    BY <1>7, SchedulerAssumption, OwnersAssumption, IdentityAssumption
    DEF StopOnShutdown, StopChild, Dies, ReleasedBy, Moves, Verdict, storeVars,
        procVars, jobVars, mainVars, envVars, TypeOK, ProcTypeOK, JobTypeOK,
        MainTypeOK, LockInv, WriterHoldsLock, AttemptInv, AttemptSurvives,
        ExecutedRunStaysRunning, Ids, Locked, Ended, ChildInv, EndedInv, Busy
  <1>8. ASSUME NEW j \in Jobs, FinishAttempt(j)
        PROVE  ExecutedRunStaysRunning'
    BY <1>8, SchedulerAssumption, OwnersAssumption, IdentityAssumption
    DEF FinishAttempt, EndsJob, Moves, Vacate, Verdict, storeVars, procVars,
        jobVars, mainVars, envVars, TypeOK, ProcTypeOK, JobTypeOK, MainTypeOK,
        LockInv, WriterHoldsLock, AttemptInv, AttemptSurvives,
        ExecutedRunStaysRunning, Ids, Locked, Ended, ChildInv, EndedInv, Busy,
        FinishRun, CanFinish, Finished, AttemptEnd, AttemptStatus,
        AttemptError, Terminal
  <1>9. ASSUME NEW j \in Jobs, \/ ReconcileBegins(j) \/ VisitOperation(j)
                               \/ StopNotNeeded(j)
        PROVE  ExecutedRunStaysRunning'
    BY <1>9, SchedulerAssumption, OwnersAssumption, IdentityAssumption
    DEF ReconcileBegins, CanLock, VisitOperation, StopNotNeeded, storeVars,
        procVars, jobVars, mainVars, envVars, TypeOK, ProcTypeOK, JobTypeOK,
        MainTypeOK, LockInv, WriterHoldsLock, AttemptInv, AttemptSurvives,
        ExecutedRunStaysRunning, Ids, Locked, Ended, ChildInv, EndedInv, Busy
  <1>10. ASSUME NEW j \in Jobs, Reconcile(j)
         PROVE  ExecutedRunStaysRunning'
    <2>1. \A p \in Procs : pc[p] \notin Locked
      BY <1>10, ReconcileShape, OwnersAssumption DEF LockInv, WriterHoldsLock
    <2>2. PICK run \in Stale(now, FALSE) \cup {NoRun} : StopRecorded(j, run)
      BY <1>10, ReconcileShape
    <2> QED
      BY <2>1, <2>2 DEF StopRecorded, procVars, ExecutedRunStaysRunning, Locked
  <1>11. ASSUME NEW j \in Jobs, ReconcileSkipped(j)
         PROVE  ExecutedRunStaysRunning'
    BY <1>11, SchedulerAssumption, OwnersAssumption, IdentityAssumption
    DEF ReconcileSkipped, StopRecorded, Moves, storeVars, procVars, jobVars,
        mainVars, envVars, TypeOK, ProcTypeOK, JobTypeOK, MainTypeOK, LockInv,
        WriterHoldsLock, AttemptInv, AttemptSurvives, ExecutedRunStaysRunning,
        Ids, Locked, Ended, ChildInv, EndedInv, Busy
  <1>12. ASSUME NEW j \in Jobs, RecordOverlap(j)
         PROVE  ExecutedRunStaysRunning'
    <2>1. \/ \E id, t : StoreRun(id, t)
          \/ UNCHANGED runs
      BY <1>12 DEF RecordOverlap
    <2>2. UNCHANGED procVars
      BY <1>12 DEF RecordOverlap
    <2>3. \A r \in Ids : runs[r].status = "RUNNING" => runs'[r].status = "RUNNING"
      BY <2>1, StoreRunKeeps DEF TypeOK, ProcTypeOK
    <2> QED
      BY <2>2, <2>3 DEF procVars, ExecutedRunStaysRunning, Ids
  <1>13. ASSUME \/ Boot \/ Drain \/ Shutdown \/ Tick
                \/ UNCHANGED vars
         PROVE  ExecutedRunStaysRunning'
    BY <1>13, SchedulerAssumption, OwnersAssumption, IdentityAssumption
    DEF Boot, CanLock, Drain, Shutdown, Tick, vars, storeVars, procVars,
        jobVars, mainVars, envVars, TypeOK, ProcTypeOK, JobTypeOK, MainTypeOK,
        LockInv, WriterHoldsLock, AttemptInv, AttemptSurvives,
        ExecutedRunStaysRunning, Ids, Locked, Ended, ChildInv, EndedInv, Busy
  <1>14. ASSUME Recover
         PROVE  ExecutedRunStaysRunning'
    <2>1. \A p \in Procs : pc[p] \notin Locked
      BY <1>14, OwnersAssumption DEF Recover, LockInv, WriterHoldsLock
    <2> QED
      BY <1>14, <2>1 DEF Recover, procVars, ExecutedRunStaysRunning, Locked
  <1>15. ASSUME Down
         PROVE  ExecutedRunStaysRunning'
    BY <1>15, SchedulerAssumption, OwnersAssumption, IdentityAssumption
    DEF Down, WorkersDone, Nothing, storeVars, procVars, jobVars, mainVars,
        envVars, TypeOK, ProcTypeOK, JobTypeOK, MainTypeOK, LockInv,
        WriterHoldsLock, AttemptInv, AttemptSurvives, ExecutedRunStaysRunning,
        Ids, Locked, Ended, ChildInv, EndedInv, Busy
  <1>16. ASSUME FinishOverlap
         PROVE  ExecutedRunStaysRunning'
    BY <1>16, SchedulerAssumption, OwnersAssumption, IdentityAssumption
    DEF FinishOverlap, Later, FinishRun, CanFinish, Finished, storeVars,
        procVars, jobVars, mainVars, envVars, TypeOK, ProcTypeOK, JobTypeOK,
        MainTypeOK, LockInv, WriterHoldsLock, AttemptInv, AttemptSurvives,
        ExecutedRunStaysRunning, Ids, Locked, Ended, ChildInv, EndedInv, Busy,
        Terminal
  <1>17. ASSUME DaemonCrash
         PROVE  ExecutedRunStaysRunning'
    BY <1>17, SchedulerAssumption, OwnersAssumption, IdentityAssumption
    DEF DaemonCrash, Nothing, Verdict, storeVars, procVars, jobVars, mainVars,
        envVars, TypeOK, ProcTypeOK, JobTypeOK, MainTypeOK, LockInv,
        WriterHoldsLock, AttemptInv, AttemptSurvives, ExecutedRunStaysRunning,
        Ids, Locked, Ended, ChildInv, EndedInv, Busy
  <1> QED
    BY <1>1, <1>2, <1>3, <1>4, <1>5, <1>6, <1>7, <1>8, <1>9, <1>10, <1>11,
       <1>12, <1>13, <1>14, <1>15, <1>16, <1>17
    DEF Next, ProcStep, RunStep, JobStep, StopStep, MainStep

\* Attempts in flight are failed neither by reconciliation nor by a restart.
LEMMA SurvivalStep ==
  ASSUME TypeOK, LockInv, StopInv, QuietInv, BudgetInv, AttemptInv,
  AttemptSurvives, ExecutedRunStaysRunning, [Next]_vars
  PROVE  AttemptSurvives'
  <1>1. ASSUME NEW p \in Procs, \/ EnterFails(p) \/ Enter(p) \/ Acquire(p)
                                \/ SkipOverlap(p) \/ RunAborts(p)
                                \/ AnalysisFails(p) \/ MarkFailedRaises(p)
                                \/ Notified(p) \/ Exit(p), UNCHANGED <<jobVars, mainVars, envVars>>
        PROVE  AttemptSurvives'
    BY <1>1, SchedulerAssumption, IdentityAssumption, BoundsAssumption
    DEF EnterFails, Leave, Receipt, ReleasedBy, Enter, Acquire, CanLock,
        SkipOverlap, RunAborts, AnalysisFails, MarkFailedRaises, Notified,
        Exit, storeVars, procVars, jobVars, mainVars, envVars, TypeOK,
        ProcTypeOK, JobTypeOK, MainTypeOK, AttemptInv, StopInv, QuietInv,
        AttemptSurvives, ExecutedRunStaysRunning, Ids, Busy, AttemptIds,
        Sequences, Threads
  <1>2. ASSUME NEW p \in Procs, OpenRun(p), UNCHANGED <<jobVars, mainVars, envVars>>
        PROVE  AttemptSurvives'
    BY <1>2, SchedulerAssumption, IdentityAssumption, BoundsAssumption
    DEF OpenRun, StoreRun, CanStore, RunningRow, NoRow, storeVars, procVars,
        jobVars, mainVars, envVars, TypeOK, ProcTypeOK, JobTypeOK, MainTypeOK,
        AttemptInv, StopInv, QuietInv, AttemptSurvives,
        ExecutedRunStaysRunning, Ids, Busy, AttemptIds, Sequences, Threads
  <1>3. ASSUME NEW p \in Procs, CommitSucceeds(p), UNCHANGED <<jobVars, mainVars, envVars>>
        PROVE  AttemptSurvives'
    BY <1>3, SchedulerAssumption, IdentityAssumption, BoundsAssumption
    DEF CommitSucceeds, CommitRun, CanCommit, Receipt, storeVars, procVars,
        jobVars, mainVars, envVars, TypeOK, ProcTypeOK, JobTypeOK, MainTypeOK,
        AttemptInv, StopInv, QuietInv, AttemptSurvives,
        ExecutedRunStaysRunning, Ids, Busy, AttemptIds, Sequences, Threads
  <1>4. ASSUME NEW p \in Procs, MarkFailed(p), UNCHANGED <<jobVars, mainVars, envVars>>
        PROVE  AttemptSurvives'
    BY <1>4, SchedulerAssumption, IdentityAssumption, BoundsAssumption
    DEF MarkFailed, FinishRun, CanFinish, Finished, Receipt, storeVars,
        procVars, jobVars, mainVars, envVars, TypeOK, ProcTypeOK, JobTypeOK,
        MainTypeOK, AttemptInv, StopInv, QuietInv, AttemptSurvives,
        ExecutedRunStaysRunning, Ids, Busy, AttemptIds, Sequences, Threads,
        Terminal
  <1>5. ASSUME NEW p \in Procs, \/ StartManual(p) \/ Reap(p) \/ Kill(p)
        PROVE  AttemptSurvives'
    BY <1>5, SchedulerAssumption, IdentityAssumption, BoundsAssumption
    DEF StartManual, Spawn, Reap, Vacate, Watched, Kill, Dies, ReleasedBy,
        storeVars, procVars, jobVars, mainVars, envVars, TypeOK, ProcTypeOK,
        JobTypeOK, MainTypeOK, AttemptInv, StopInv, QuietInv, AttemptSurvives,
        ExecutedRunStaysRunning, Ids, Busy, AttemptIds, Sequences, Threads
  <1>6. ASSUME NEW j \in Jobs, \/ Fire(j) \/ StartAttemptRaises(j)
                               \/ PopenRaises(j) \/ Register(j) \/ ChildEnds(j)
                               \/ Expire(j) \/ AlreadyStopped(j)
                               \/ ReadInterruption(j)
        PROVE  AttemptSurvives'
    BY <1>6, SchedulerAssumption, IdentityAssumption, BoundsAssumption
    DEF Fire, Moves, StartAttemptRaises, PopenRaises, Verdict, Register,
        ChildEnds, Expire, AlreadyStopped, ReadInterruption, Outcome,
        storeVars, procVars, jobVars, mainVars, envVars, TypeOK, ProcTypeOK,
        JobTypeOK, MainTypeOK, AttemptInv, StopInv, QuietInv, AttemptSurvives,
        ExecutedRunStaysRunning, Ids, Busy, AttemptIds, Sequences, Threads
  <1>7. ASSUME NEW j \in Jobs, StartAttempt(j)
        PROVE  AttemptSurvives'
    <2>1. <<j, now, seq>> \in AttemptIds /\ now \in Time
      BY <1>7, SubmittedHasNumber DEF StartAttempt, TypeOK, ProcTypeOK, JobTypeOK, MainTypeOK
    <2>2. StoreRun(<<j, now, seq>>, now)
      BY <1>7 DEF StartAttempt
    <2>3. /\ runs'[<<j, now, seq>>].status = "RUNNING"
          /\ \A id \in Ids : id # <<j, now, seq>> => runs'[id] = runs[id]
      BY <2>1, <2>2, StoreRunType DEF StoreRun, TypeOK, ProcTypeOK, JobTypeOK, MainTypeOK, RunsType, Ids
    <2> QED
      BY <1>7, <2>1, <2>3
      DEF StartAttempt, Moves, TypeOK, JobTypeOK, MainTypeOK, AttemptInv,
          AttemptSurvives, Ids, Busy
  <1>8. ASSUME NEW j \in Jobs, Popen(j)
        PROVE  AttemptSurvives'
    BY <1>8, SchedulerAssumption, IdentityAssumption, BoundsAssumption
    DEF Popen, Moves, Spawn, storeVars, procVars, jobVars, mainVars, envVars,
        TypeOK, ProcTypeOK, JobTypeOK, MainTypeOK, AttemptInv, StopInv,
        QuietInv, AttemptSurvives, ExecutedRunStaysRunning, Ids, Busy,
        AttemptIds, Sequences, Threads
  <1>9. ASSUME NEW j \in Jobs, StopOnTimeout(j)
        PROVE  AttemptSurvives'
    BY <1>9, SchedulerAssumption, IdentityAssumption, BoundsAssumption
    DEF StopOnTimeout, Moves, StopChild, Dies, ReleasedBy, storeVars, procVars,
        jobVars, mainVars, envVars, TypeOK, ProcTypeOK, JobTypeOK, MainTypeOK,
        AttemptInv, StopInv, QuietInv, AttemptSurvives,
        ExecutedRunStaysRunning, Ids, Busy, AttemptIds, Sequences, Threads
  <1>10. ASSUME NEW j \in Jobs, StopOnShutdown(j)
         PROVE  AttemptSurvives'
    BY <1>10, SchedulerAssumption, IdentityAssumption, BoundsAssumption
    DEF StopOnShutdown, StopChild, Dies, ReleasedBy, Moves, Verdict, storeVars,
        procVars, jobVars, mainVars, envVars, TypeOK, ProcTypeOK, JobTypeOK,
        MainTypeOK, AttemptInv, StopInv, QuietInv, AttemptSurvives,
        ExecutedRunStaysRunning, Ids, Busy, AttemptIds, Sequences, Threads
  <1>11. ASSUME NEW j \in Jobs, FinishAttempt(j)
         PROVE  AttemptSurvives'
    BY <1>11, SchedulerAssumption, IdentityAssumption, BoundsAssumption
    DEF FinishAttempt, EndsJob, Moves, Vacate, Verdict, storeVars, procVars,
        jobVars, mainVars, envVars, TypeOK, ProcTypeOK, JobTypeOK, MainTypeOK,
        AttemptInv, StopInv, QuietInv, AttemptSurvives,
        ExecutedRunStaysRunning, Ids, Busy, AttemptIds, Sequences, Threads,
        FinishRun, CanFinish, Finished, AttemptEnd, AttemptStatus,
        AttemptError, Terminal
  <1>12. ASSUME NEW j \in Jobs, \/ ReconcileBegins(j) \/ VisitOperation(j)
                                \/ StopNotNeeded(j)
         PROVE  AttemptSurvives'
    BY <1>12, SchedulerAssumption, IdentityAssumption, BoundsAssumption
    DEF ReconcileBegins, CanLock, VisitOperation, StopNotNeeded, storeVars,
        procVars, jobVars, mainVars, envVars, TypeOK, ProcTypeOK, JobTypeOK,
        MainTypeOK, AttemptInv, StopInv, QuietInv, AttemptSurvives,
        ExecutedRunStaysRunning, Ids, Busy, AttemptIds, Sequences, Threads
  <1>13. ASSUME NEW j \in Jobs, Reconcile(j)
         PROVE  AttemptSurvives'
    <2>1. PICK run \in Stale(now, FALSE) \cup {NoRun} : StopRecorded(j, run)
      BY <1>13, ReconcileShape
    <2>2. \A id \in AttemptIds : runs'[id] = runs[id]
      BY <1>13, ReconcileShape, RecoverRunsEffect DEF TypeOK, ProcTypeOK, JobTypeOK, MainTypeOK, RunsType, Ids
    <2>3. stopBy[j] # "nobody"
      BY <1>13, ReconcileShape DEF LockInv
    <2> QED
      BY <2>1, <2>2, <2>3
      DEF StopRecorded, Moves, TypeOK, JobTypeOK, MainTypeOK, AttemptInv, StopInv,
          AttemptSurvives, Busy
  <1>14. ASSUME NEW j \in Jobs, ReconcileSkipped(j)
         PROVE  AttemptSurvives'
    BY <1>14, SchedulerAssumption, IdentityAssumption, BoundsAssumption
    DEF ReconcileSkipped, StopRecorded, Moves, storeVars, procVars, jobVars,
        mainVars, envVars, TypeOK, ProcTypeOK, JobTypeOK, MainTypeOK,
        AttemptInv, StopInv, QuietInv, AttemptSurvives,
        ExecutedRunStaysRunning, Ids, Busy, AttemptIds, Sequences, Threads
  <1>15. ASSUME NEW j \in Jobs, RecordOverlap(j)
         PROVE  AttemptSurvives'
    <2> DEFINE Id(t) == <<j, t, seq>>
    <2>1. \A t \in 0 .. now : t \in Time /\ Id(t) \in AttemptIds
      BY <1>15, OverlapHasNumber, BoundsAssumption DEF RecordOverlap
    <2>2. CASE \E t \in 0 .. now : StoreRun(Id(t), t) /\ overlap' = Id(t)
      <3>1. PICK t \in 0 .. now : StoreRun(Id(t), t) /\ overlap' = Id(t)
        BY <2>2
      <3>2. /\ runs'[Id(t)].status = "RUNNING"
            /\ \A id \in Ids : id # Id(t) => runs'[id] = runs[id]
        BY <2>1, <3>1, StoreRunType DEF StoreRun, TypeOK, ProcTypeOK, JobTypeOK, MainTypeOK, RunsType, Ids
      <3> QED
        BY <1>15, <2>1, <3>1, <3>2 DEF RecordOverlap, jobVars, AttemptInv, AttemptSurvives, Ids
    <2>3. CASE UNCHANGED <<runs, overlap>>
      BY <1>15, <2>3 DEF RecordOverlap, jobVars, AttemptSurvives
    <2> QED
      BY <1>15, <2>2, <2>3 DEF RecordOverlap
  <1>16. ASSUME \/ Boot \/ Drain \/ Shutdown \/ Tick
                \/ UNCHANGED vars
         PROVE  AttemptSurvives'
    BY <1>16, SchedulerAssumption, IdentityAssumption, BoundsAssumption
    DEF Boot, CanLock, Drain, Shutdown, Tick, vars, storeVars, procVars,
        jobVars, mainVars, envVars, TypeOK, ProcTypeOK, JobTypeOK, MainTypeOK,
        AttemptInv, StopInv, QuietInv, AttemptSurvives,
        ExecutedRunStaysRunning, Ids, Busy, AttemptIds, Sequences, Threads
  <1>17. ASSUME Recover
         PROVE  AttemptSurvives'
    BY <1>17, SchedulerAssumption, IdentityAssumption, BoundsAssumption
    DEF Recover, RecoverRuns, Stale, storeVars, procVars, jobVars, mainVars,
        envVars, TypeOK, ProcTypeOK, JobTypeOK, MainTypeOK, AttemptInv,
        StopInv, QuietInv, AttemptSurvives, ExecutedRunStaysRunning, Ids, Busy,
        AttemptIds, Sequences, Threads
  <1>18. ASSUME Down
         PROVE  AttemptSurvives'
    BY <1>18, SchedulerAssumption, IdentityAssumption, BoundsAssumption
    DEF Down, WorkersDone, Nothing, storeVars, procVars, jobVars, mainVars,
        envVars, TypeOK, ProcTypeOK, JobTypeOK, MainTypeOK, AttemptInv,
        StopInv, QuietInv, AttemptSurvives, ExecutedRunStaysRunning, Ids, Busy,
        AttemptIds, Sequences, Threads
  <1>19. ASSUME FinishOverlap
         PROVE  AttemptSurvives'
    BY <1>19, SchedulerAssumption, IdentityAssumption, BoundsAssumption
    DEF FinishOverlap, Later, FinishRun, CanFinish, Finished, storeVars,
        procVars, jobVars, mainVars, envVars, TypeOK, ProcTypeOK, JobTypeOK,
        MainTypeOK, AttemptInv, StopInv, QuietInv, AttemptSurvives,
        ExecutedRunStaysRunning, Ids, Busy, AttemptIds, Sequences, Threads,
        Terminal
  <1>20. ASSUME DaemonCrash
         PROVE  AttemptSurvives'
    BY <1>20, SchedulerAssumption, IdentityAssumption, BoundsAssumption
    DEF DaemonCrash, Nothing, Verdict, storeVars, procVars, jobVars, mainVars,
        envVars, TypeOK, ProcTypeOK, JobTypeOK, MainTypeOK, AttemptInv,
        StopInv, QuietInv, AttemptSurvives, ExecutedRunStaysRunning, Ids, Busy,
        AttemptIds, Sequences, Threads
  <1> QED
    BY <1>1, <1>2, <1>3, <1>4, <1>5, <1>6, <1>7, <1>8, <1>9, <1>10, <1>11,
       <1>12, <1>13, <1>14, <1>15, <1>16, <1>17, <1>18, <1>19, <1>20
    DEF Next, ProcStep, RunStep, JobStep, StopStep, MainStep

-----------------------------------------------------------------------------
(* What is final, and what is said about it.                                *)

\* A row with a terminal status is never written again.
LEMMA FinalStep ==
  ASSUME TypeOK, BudgetInv, AttemptInv, AttemptSurvives,
  ExecutedRunStaysRunning, [Next]_vars
  PROVE  FinalRows
  <1>1. ASSUME NEW p \in Procs, \/ EnterFails(p) \/ Enter(p) \/ Acquire(p)
                                \/ SkipOverlap(p) \/ RunAborts(p)
                                \/ AnalysisFails(p) \/ MarkFailedRaises(p)
                                \/ Notified(p) \/ Exit(p), UNCHANGED <<jobVars, mainVars, envVars>>
        PROVE  FinalRows
    BY <1>1, SchedulerAssumption, IdentityAssumption
    DEF EnterFails, Leave, Receipt, ReleasedBy, Enter, Acquire, CanLock,
        SkipOverlap, RunAborts, AnalysisFails, MarkFailedRaises, Notified,
        Exit, storeVars, procVars, jobVars, mainVars, envVars, TypeOK,
        ProcTypeOK, JobTypeOK, MainTypeOK, FinalRows, Terminal, AttemptInv,
        AttemptSurvives, ExecutedRunStaysRunning, Busy
  <1>2. ASSUME NEW p \in Procs, OpenRun(p), UNCHANGED <<jobVars, mainVars, envVars>>
        PROVE  FinalRows
    BY <1>2, SchedulerAssumption, IdentityAssumption
    DEF OpenRun, StoreRun, CanStore, RunningRow, NoRow, storeVars, procVars,
        jobVars, mainVars, envVars, TypeOK, ProcTypeOK, JobTypeOK, MainTypeOK,
        FinalRows, Terminal, AttemptInv, AttemptSurvives,
        ExecutedRunStaysRunning, Busy
  <1>3. ASSUME NEW p \in Procs, CommitSucceeds(p), UNCHANGED <<jobVars, mainVars, envVars>>
        PROVE  FinalRows
    BY <1>3, SchedulerAssumption, IdentityAssumption
    DEF CommitSucceeds, CommitRun, CanCommit, Receipt, storeVars, procVars,
        jobVars, mainVars, envVars, TypeOK, ProcTypeOK, JobTypeOK, MainTypeOK,
        FinalRows, Terminal, AttemptInv, AttemptSurvives,
        ExecutedRunStaysRunning, Busy
  <1>4. ASSUME NEW p \in Procs, MarkFailed(p), UNCHANGED <<jobVars, mainVars, envVars>>
        PROVE  FinalRows
    BY <1>4, SchedulerAssumption, IdentityAssumption
    DEF MarkFailed, FinishRun, CanFinish, Finished, Receipt, storeVars,
        procVars, jobVars, mainVars, envVars, TypeOK, ProcTypeOK, JobTypeOK,
        MainTypeOK, FinalRows, Terminal, AttemptInv, AttemptSurvives,
        ExecutedRunStaysRunning, Busy
  <1>5. ASSUME NEW p \in Procs, \/ StartManual(p) \/ Reap(p) \/ Kill(p)
        PROVE  FinalRows
    BY <1>5, SchedulerAssumption, IdentityAssumption
    DEF StartManual, Spawn, Reap, Vacate, Watched, Kill, Dies, ReleasedBy,
        storeVars, procVars, jobVars, mainVars, envVars, TypeOK, ProcTypeOK,
        JobTypeOK, MainTypeOK, FinalRows, Terminal, AttemptInv,
        AttemptSurvives, ExecutedRunStaysRunning, Busy
  <1>6. ASSUME NEW j \in Jobs, \/ Fire(j) \/ StartAttemptRaises(j)
                               \/ PopenRaises(j) \/ Register(j) \/ ChildEnds(j)
                               \/ Expire(j) \/ AlreadyStopped(j)
                               \/ ReadInterruption(j)
        PROVE  FinalRows
    BY <1>6, SchedulerAssumption, IdentityAssumption
    DEF Fire, Moves, StartAttemptRaises, PopenRaises, Verdict, Register,
        ChildEnds, Expire, AlreadyStopped, ReadInterruption, Outcome,
        storeVars, procVars, jobVars, mainVars, envVars, TypeOK, ProcTypeOK,
        JobTypeOK, MainTypeOK, FinalRows, Terminal, AttemptInv,
        AttemptSurvives, ExecutedRunStaysRunning, Busy
  <1>7. ASSUME NEW j \in Jobs, StartAttempt(j)
        PROVE  FinalRows
    <2>1. \E id, t : StoreRun(id, t)
      BY <1>7 DEF StartAttempt
    <2> QED
      BY <2>1, StoreRunKeeps DEF TypeOK, ProcTypeOK, FinalRows
  <1>8. ASSUME NEW j \in Jobs, Popen(j)
        PROVE  FinalRows
    BY <1>8, SchedulerAssumption, IdentityAssumption
    DEF Popen, Moves, Spawn, storeVars, procVars, jobVars, mainVars, envVars,
        TypeOK, ProcTypeOK, JobTypeOK, MainTypeOK, FinalRows, Terminal,
        AttemptInv, AttemptSurvives, ExecutedRunStaysRunning, Busy
  <1>9. ASSUME NEW j \in Jobs, StopOnTimeout(j)
        PROVE  FinalRows
    BY <1>9, SchedulerAssumption, IdentityAssumption
    DEF StopOnTimeout, Moves, StopChild, Dies, ReleasedBy, storeVars, procVars,
        jobVars, mainVars, envVars, TypeOK, ProcTypeOK, JobTypeOK, MainTypeOK,
        FinalRows, Terminal, AttemptInv, AttemptSurvives,
        ExecutedRunStaysRunning, Busy
  <1>10. ASSUME NEW j \in Jobs, StopOnShutdown(j)
         PROVE  FinalRows
    BY <1>10, SchedulerAssumption, IdentityAssumption
    DEF StopOnShutdown, StopChild, Dies, ReleasedBy, Moves, Verdict, storeVars,
        procVars, jobVars, mainVars, envVars, TypeOK, ProcTypeOK, JobTypeOK,
        MainTypeOK, FinalRows, Terminal, AttemptInv, AttemptSurvives,
        ExecutedRunStaysRunning, Busy
  <1>11. ASSUME NEW j \in Jobs, FinishAttempt(j)
         PROVE  FinalRows
    BY <1>11, SchedulerAssumption, IdentityAssumption
    DEF FinishAttempt, EndsJob, Moves, Vacate, Verdict, storeVars, procVars,
        jobVars, mainVars, envVars, TypeOK, ProcTypeOK, JobTypeOK, MainTypeOK,
        FinalRows, Terminal, AttemptInv, AttemptSurvives,
        ExecutedRunStaysRunning, Busy, FinishRun, CanFinish, Finished,
        AttemptEnd, AttemptStatus, AttemptError
  <1>12. ASSUME NEW j \in Jobs, \/ ReconcileBegins(j) \/ VisitOperation(j)
                                \/ StopNotNeeded(j)
         PROVE  FinalRows
    BY <1>12, SchedulerAssumption, IdentityAssumption
    DEF ReconcileBegins, CanLock, VisitOperation, StopNotNeeded, storeVars,
        procVars, jobVars, mainVars, envVars, TypeOK, ProcTypeOK, JobTypeOK,
        MainTypeOK, FinalRows, Terminal, AttemptInv, AttemptSurvives,
        ExecutedRunStaysRunning, Busy
  <1>13. ASSUME NEW j \in Jobs, Reconcile(j)
         PROVE  FinalRows
    BY <1>13, ReconcileShape, RecoverRunsEffect DEF TypeOK, ProcTypeOK, JobTypeOK, MainTypeOK, RunsType, FinalRows, Terminal
  <1>14. ASSUME NEW j \in Jobs, ReconcileSkipped(j)
         PROVE  FinalRows
    BY <1>14, SchedulerAssumption, IdentityAssumption
    DEF ReconcileSkipped, StopRecorded, Moves, storeVars, procVars, jobVars,
        mainVars, envVars, TypeOK, ProcTypeOK, JobTypeOK, MainTypeOK,
        FinalRows, Terminal, AttemptInv, AttemptSurvives,
        ExecutedRunStaysRunning, Busy
  <1>15. ASSUME NEW j \in Jobs, RecordOverlap(j)
         PROVE  FinalRows
    BY <1>15, SchedulerAssumption, IdentityAssumption
    DEF RecordOverlap, StoreRun, CanStore, RunningRow, NoRow, storeVars,
        procVars, jobVars, mainVars, envVars, TypeOK, ProcTypeOK, JobTypeOK,
        MainTypeOK, FinalRows, Terminal, AttemptInv, AttemptSurvives,
        ExecutedRunStaysRunning, Busy
  <1>16. ASSUME \/ Boot \/ Drain \/ Shutdown \/ Tick
                \/ UNCHANGED vars
         PROVE  FinalRows
    BY <1>16, SchedulerAssumption, IdentityAssumption
    DEF Boot, CanLock, Drain, Shutdown, Tick, vars, storeVars, procVars,
        jobVars, mainVars, envVars, TypeOK, ProcTypeOK, JobTypeOK, MainTypeOK,
        FinalRows, Terminal, AttemptInv, AttemptSurvives,
        ExecutedRunStaysRunning, Busy
  <1>17. ASSUME Recover
         PROVE  FinalRows
    BY <1>17, RecoverRunsEffect DEF Recover, TypeOK, ProcTypeOK, JobTypeOK, MainTypeOK, RunsType, FinalRows, Terminal
  <1>18. ASSUME Down
         PROVE  FinalRows
    BY <1>18, SchedulerAssumption, IdentityAssumption
    DEF Down, WorkersDone, Nothing, storeVars, procVars, jobVars, mainVars,
        envVars, TypeOK, ProcTypeOK, JobTypeOK, MainTypeOK, FinalRows,
        Terminal, AttemptInv, AttemptSurvives, ExecutedRunStaysRunning, Busy
  <1>19. ASSUME FinishOverlap
         PROVE  FinalRows
    BY <1>19, SchedulerAssumption, IdentityAssumption
    DEF FinishOverlap, Later, FinishRun, CanFinish, Finished, storeVars,
        procVars, jobVars, mainVars, envVars, TypeOK, ProcTypeOK, JobTypeOK,
        MainTypeOK, FinalRows, Terminal, AttemptInv, AttemptSurvives,
        ExecutedRunStaysRunning, Busy
  <1>20. ASSUME DaemonCrash
         PROVE  FinalRows
    BY <1>20, SchedulerAssumption, IdentityAssumption
    DEF DaemonCrash, Nothing, Verdict, storeVars, procVars, jobVars, mainVars,
        envVars, TypeOK, ProcTypeOK, JobTypeOK, MainTypeOK, FinalRows,
        Terminal, AttemptInv, AttemptSurvives, ExecutedRunStaysRunning, Busy
  <1> QED
    BY <1>1, <1>2, <1>3, <1>4, <1>5, <1>6, <1>7, <1>8, <1>9, <1>10, <1>11,
       <1>12, <1>13, <1>14, <1>15, <1>16, <1>17, <1>18, <1>19, <1>20
    DEF Next, ProcStep, RunStep, JobStep, StopStep, MainStep

\* Evidence comes with success.
LEMMA EvidenceStep ==
  ASSUME TypeOK, BudgetInv, AttemptInv, AttemptSurvives,
  ExecutedRunStaysRunning, EvidenceIsAtomic, [Next]_vars
  PROVE  EvidenceIsAtomic'
  <1>1. ASSUME NEW p \in Procs, \/ EnterFails(p) \/ Enter(p) \/ Acquire(p)
                                \/ SkipOverlap(p) \/ RunAborts(p)
                                \/ AnalysisFails(p) \/ MarkFailedRaises(p)
                                \/ Notified(p) \/ Exit(p), UNCHANGED <<jobVars, mainVars, envVars>>
        PROVE  EvidenceIsAtomic'
    BY <1>1, SchedulerAssumption, IdentityAssumption
    DEF EnterFails, Leave, Receipt, ReleasedBy, Enter, Acquire, CanLock,
        SkipOverlap, RunAborts, AnalysisFails, MarkFailedRaises, Notified,
        Exit, storeVars, procVars, jobVars, mainVars, envVars, TypeOK,
        ProcTypeOK, JobTypeOK, MainTypeOK, AttemptInv, AttemptSurvives,
        ExecutedRunStaysRunning, EvidenceIsAtomic, Ids, Busy, Rows
  <1>2. ASSUME NEW p \in Procs, OpenRun(p), UNCHANGED <<jobVars, mainVars, envVars>>
        PROVE  EvidenceIsAtomic'
    BY <1>2, SchedulerAssumption, IdentityAssumption
    DEF OpenRun, StoreRun, CanStore, RunningRow, NoRow, storeVars, procVars,
        jobVars, mainVars, envVars, TypeOK, ProcTypeOK, JobTypeOK, MainTypeOK,
        AttemptInv, AttemptSurvives, ExecutedRunStaysRunning, EvidenceIsAtomic,
        Ids, Busy, Rows
  <1>3. ASSUME NEW p \in Procs, CommitSucceeds(p), UNCHANGED <<jobVars, mainVars, envVars>>
        PROVE  EvidenceIsAtomic'
    BY <1>3, SchedulerAssumption, IdentityAssumption
    DEF CommitSucceeds, CommitRun, CanCommit, Receipt, storeVars, procVars,
        jobVars, mainVars, envVars, TypeOK, ProcTypeOK, JobTypeOK, MainTypeOK,
        AttemptInv, AttemptSurvives, ExecutedRunStaysRunning, EvidenceIsAtomic,
        Ids, Busy, Rows
  <1>4. ASSUME NEW p \in Procs, MarkFailed(p), UNCHANGED <<jobVars, mainVars, envVars>>
        PROVE  EvidenceIsAtomic'
    BY <1>4, SchedulerAssumption, IdentityAssumption
    DEF MarkFailed, FinishRun, CanFinish, Finished, Receipt, storeVars,
        procVars, jobVars, mainVars, envVars, TypeOK, ProcTypeOK, JobTypeOK,
        MainTypeOK, AttemptInv, AttemptSurvives, ExecutedRunStaysRunning,
        EvidenceIsAtomic, Ids, Busy, Rows, Terminal
  <1>5. ASSUME NEW p \in Procs, \/ StartManual(p) \/ Reap(p) \/ Kill(p)
        PROVE  EvidenceIsAtomic'
    BY <1>5, SchedulerAssumption, IdentityAssumption
    DEF StartManual, Spawn, Reap, Vacate, Watched, Kill, Dies, ReleasedBy,
        storeVars, procVars, jobVars, mainVars, envVars, TypeOK, ProcTypeOK,
        JobTypeOK, MainTypeOK, AttemptInv, AttemptSurvives,
        ExecutedRunStaysRunning, EvidenceIsAtomic, Ids, Busy, Rows
  <1>6. ASSUME NEW j \in Jobs, \/ Fire(j) \/ StartAttemptRaises(j)
                               \/ PopenRaises(j) \/ Register(j) \/ ChildEnds(j)
                               \/ Expire(j) \/ AlreadyStopped(j)
                               \/ ReadInterruption(j)
        PROVE  EvidenceIsAtomic'
    BY <1>6, SchedulerAssumption, IdentityAssumption
    DEF Fire, Moves, StartAttemptRaises, PopenRaises, Verdict, Register,
        ChildEnds, Expire, AlreadyStopped, ReadInterruption, Outcome,
        storeVars, procVars, jobVars, mainVars, envVars, TypeOK, ProcTypeOK,
        JobTypeOK, MainTypeOK, AttemptInv, AttemptSurvives,
        ExecutedRunStaysRunning, EvidenceIsAtomic, Ids, Busy, Rows
  <1>7. ASSUME NEW j \in Jobs, StartAttempt(j)
        PROVE  EvidenceIsAtomic'
    BY <1>7, SchedulerAssumption, IdentityAssumption
    DEF StartAttempt, Moves, StoreRun, CanStore, RunningRow, NoRow, storeVars,
        procVars, jobVars, mainVars, envVars, TypeOK, ProcTypeOK, JobTypeOK,
        MainTypeOK, AttemptInv, AttemptSurvives, ExecutedRunStaysRunning,
        EvidenceIsAtomic, Ids, Busy, Rows
  <1>8. ASSUME NEW j \in Jobs, Popen(j)
        PROVE  EvidenceIsAtomic'
    BY <1>8, SchedulerAssumption, IdentityAssumption
    DEF Popen, Moves, Spawn, storeVars, procVars, jobVars, mainVars, envVars,
        TypeOK, ProcTypeOK, JobTypeOK, MainTypeOK, AttemptInv, AttemptSurvives,
        ExecutedRunStaysRunning, EvidenceIsAtomic, Ids, Busy, Rows
  <1>9. ASSUME NEW j \in Jobs, StopOnTimeout(j)
        PROVE  EvidenceIsAtomic'
    BY <1>9, SchedulerAssumption, IdentityAssumption
    DEF StopOnTimeout, Moves, StopChild, Dies, ReleasedBy, storeVars, procVars,
        jobVars, mainVars, envVars, TypeOK, ProcTypeOK, JobTypeOK, MainTypeOK,
        AttemptInv, AttemptSurvives, ExecutedRunStaysRunning, EvidenceIsAtomic,
        Ids, Busy, Rows
  <1>10. ASSUME NEW j \in Jobs, StopOnShutdown(j)
         PROVE  EvidenceIsAtomic'
    BY <1>10, SchedulerAssumption, IdentityAssumption
    DEF StopOnShutdown, StopChild, Dies, ReleasedBy, Moves, Verdict, storeVars,
        procVars, jobVars, mainVars, envVars, TypeOK, ProcTypeOK, JobTypeOK,
        MainTypeOK, AttemptInv, AttemptSurvives, ExecutedRunStaysRunning,
        EvidenceIsAtomic, Ids, Busy, Rows
  <1>11. ASSUME NEW j \in Jobs, FinishAttempt(j)
         PROVE  EvidenceIsAtomic'
    BY <1>11, SchedulerAssumption, IdentityAssumption
    DEF FinishAttempt, EndsJob, Moves, Vacate, Verdict, storeVars, procVars,
        jobVars, mainVars, envVars, TypeOK, ProcTypeOK, JobTypeOK, MainTypeOK,
        AttemptInv, AttemptSurvives, ExecutedRunStaysRunning, EvidenceIsAtomic,
        Ids, Busy, Rows, FinishRun, CanFinish, Finished, AttemptEnd,
        AttemptStatus, AttemptError, Terminal
  <1>12. ASSUME NEW j \in Jobs, \/ ReconcileBegins(j) \/ VisitOperation(j)
                                \/ StopNotNeeded(j)
         PROVE  EvidenceIsAtomic'
    BY <1>12, SchedulerAssumption, IdentityAssumption
    DEF ReconcileBegins, CanLock, VisitOperation, StopNotNeeded, storeVars,
        procVars, jobVars, mainVars, envVars, TypeOK, ProcTypeOK, JobTypeOK,
        MainTypeOK, AttemptInv, AttemptSurvives, ExecutedRunStaysRunning,
        EvidenceIsAtomic, Ids, Busy, Rows
  <1>13. ASSUME NEW j \in Jobs, Reconcile(j)
         PROVE  EvidenceIsAtomic'
    <2>1. \A id \in Ids : \/ runs'[id] = runs[id]
                        \/ /\ runs[id].status = "RUNNING" /\ runs'[id].status = "FAILED"
                           /\ runs'[id].evidence = runs[id].evidence
      BY <1>13, ReconcileShape, RecoverRunsEffect DEF Reconcile, TypeOK, ProcTypeOK, JobTypeOK, MainTypeOK, RunsType
    <2> QED
      BY <2>1 DEF EvidenceIsAtomic, Ids
  <1>14. ASSUME NEW j \in Jobs, ReconcileSkipped(j)
         PROVE  EvidenceIsAtomic'
    BY <1>14, SchedulerAssumption, IdentityAssumption
    DEF ReconcileSkipped, StopRecorded, Moves, storeVars, procVars, jobVars,
        mainVars, envVars, TypeOK, ProcTypeOK, JobTypeOK, MainTypeOK,
        AttemptInv, AttemptSurvives, ExecutedRunStaysRunning, EvidenceIsAtomic,
        Ids, Busy, Rows
  <1>15. ASSUME NEW j \in Jobs, RecordOverlap(j)
         PROVE  EvidenceIsAtomic'
    <2>1. PICK t \in 0 .. now : \/ StoreRun(<<j, t, seq>>, t)
                                \/ UNCHANGED runs
      BY <1>15 DEF RecordOverlap
    <2>2. t \in Time /\ <<j, t, seq>> \in AttemptIds
      BY <1>15, OverlapHasNumber DEF RecordOverlap
    <2>3. CASE StoreRun(<<j, t, seq>>, t)
      <3>1. ~runs'[<<j, t, seq>>].evidence
        BY <2>2, <2>3, StoreRunType DEF TypeOK, ProcTypeOK, JobTypeOK, MainTypeOK, RunsType, Ids
      <3>2. \A id \in Ids : id # <<j, t, seq>> => runs'[id] = runs[id]
        BY <2>3 DEF StoreRun, TypeOK, ProcTypeOK, JobTypeOK, MainTypeOK
      <3> QED
        BY <2>2, <3>1, <3>2, IdentityAssumption DEF EvidenceIsAtomic, Ids
    <2> QED
      BY <2>1, <2>3 DEF EvidenceIsAtomic
  <1>16. ASSUME \/ Boot \/ Drain \/ Shutdown \/ Tick
                \/ UNCHANGED vars
         PROVE  EvidenceIsAtomic'
    BY <1>16, SchedulerAssumption, IdentityAssumption
    DEF Boot, CanLock, Drain, Shutdown, Tick, vars, storeVars, procVars,
        jobVars, mainVars, envVars, TypeOK, ProcTypeOK, JobTypeOK, MainTypeOK,
        AttemptInv, AttemptSurvives, ExecutedRunStaysRunning, EvidenceIsAtomic,
        Ids, Busy, Rows
  <1>17. ASSUME Recover
         PROVE  EvidenceIsAtomic'
    <2>1. \A id \in Ids : \/ runs'[id] = runs[id]
                        \/ /\ runs[id].status = "RUNNING" /\ runs'[id].status = "FAILED"
                           /\ runs'[id].evidence = runs[id].evidence
      BY <1>17, RecoverRunsEffect DEF Recover, TypeOK, ProcTypeOK, JobTypeOK, MainTypeOK, RunsType
    <2> QED
      BY <2>1 DEF EvidenceIsAtomic, Ids
  <1>18. ASSUME Down
         PROVE  EvidenceIsAtomic'
    BY <1>18, SchedulerAssumption, IdentityAssumption
    DEF Down, WorkersDone, Nothing, storeVars, procVars, jobVars, mainVars,
        envVars, TypeOK, ProcTypeOK, JobTypeOK, MainTypeOK, AttemptInv,
        AttemptSurvives, ExecutedRunStaysRunning, EvidenceIsAtomic, Ids, Busy,
        Rows
  <1>19. ASSUME FinishOverlap
         PROVE  EvidenceIsAtomic'
    BY <1>19, SchedulerAssumption, IdentityAssumption
    DEF FinishOverlap, Later, FinishRun, CanFinish, Finished, storeVars,
        procVars, jobVars, mainVars, envVars, TypeOK, ProcTypeOK, JobTypeOK,
        MainTypeOK, AttemptInv, AttemptSurvives, ExecutedRunStaysRunning,
        EvidenceIsAtomic, Ids, Busy, Rows, Terminal
  <1>20. ASSUME DaemonCrash
         PROVE  EvidenceIsAtomic'
    BY <1>20, SchedulerAssumption, IdentityAssumption
    DEF DaemonCrash, Nothing, Verdict, storeVars, procVars, jobVars, mainVars,
        envVars, TypeOK, ProcTypeOK, JobTypeOK, MainTypeOK, AttemptInv,
        AttemptSurvives, ExecutedRunStaysRunning, EvidenceIsAtomic, Ids, Busy,
        Rows
  <1> QED
    BY <1>1, <1>2, <1>3, <1>4, <1>5, <1>6, <1>7, <1>8, <1>9, <1>10, <1>11,
       <1>12, <1>13, <1>14, <1>15, <1>16, <1>17, <1>18, <1>19, <1>20
    DEF Next, ProcStep, RunStep, JobStep, StopStep, MainStep

\* A receipt is true when it is made, and rows that are final stay so.
LEMMA ReceiptStep ==
  ASSUME TypeOK, LockInv, ChildInv, EndedInv, ExecutedRunStaysRunning,
  BudgetInv, AttemptInv, AttemptSurvives, ReceiptInv, [Next]_vars
  PROVE  ReceiptInv'
  <1>0. FinalRows
    BY FinalStep
  <1>1. ASSUME NEW p \in Procs, \/ EnterFails(p) \/ Enter(p) \/ Acquire(p)
                                \/ SkipOverlap(p) \/ RunAborts(p) \/ OpenRun(p)
                                \/ AnalysisFails(p) \/ MarkFailedRaises(p)
                                \/ Notified(p), UNCHANGED <<jobVars, mainVars, envVars>>
        PROVE  ReceiptInv'
    BY <1>1, <1>0, ReceiptRecords, SchedulerAssumption, IdentityAssumption
    DEF EnterFails, Leave, ReleasedBy, Enter, Acquire, CanLock, SkipOverlap,
        RunAborts, OpenRun, AnalysisFails, MarkFailedRaises, Notified,
        storeVars, procVars, jobVars, mainVars, envVars, TypeOK, ProcTypeOK,
        FinalRows, Terminal, ReceiptInv, ReceiptTellsRow, Ids, ReceiptStatuses,
        SuccessOutcomes, Ended, Alive, Locked, NoReceipt
  <1>2. ASSUME NEW p \in Procs, CommitSucceeds(p), UNCHANGED <<jobVars, mainVars, envVars>>
        PROVE  ReceiptInv'
    BY <1>2, <1>0, ReceiptRecords, SchedulerAssumption, IdentityAssumption
    DEF CommitSucceeds, CommitRun, storeVars, procVars, jobVars, mainVars,
        envVars, TypeOK, ProcTypeOK, FinalRows, Terminal, ReceiptInv,
        ReceiptTellsRow, Ids, ReceiptStatuses, SuccessOutcomes, Ended, Alive,
        Locked, NoReceipt, ExecutedRunStaysRunning
  <1>3. ASSUME NEW p \in Procs, MarkFailed(p), UNCHANGED <<jobVars, mainVars, envVars>>
        PROVE  ReceiptInv'
    BY <1>3, <1>0, ReceiptRecords, SchedulerAssumption, IdentityAssumption
    DEF MarkFailed, Finished, storeVars, procVars, jobVars, mainVars, envVars,
        TypeOK, ProcTypeOK, FinalRows, Terminal, ReceiptInv, ReceiptTellsRow,
        Ids, ReceiptStatuses, SuccessOutcomes, Ended, Alive, Locked, NoReceipt,
        FinishRun, ExecutedRunStaysRunning
  <1>4. ASSUME NEW p \in Procs, Exit(p), UNCHANGED <<jobVars, mainVars, envVars>>
        PROVE  ReceiptInv'
    BY <1>4, <1>0, ReceiptRecords, SchedulerAssumption, IdentityAssumption
    DEF Exit, storeVars, procVars, jobVars, mainVars, envVars, TypeOK,
        ProcTypeOK, FinalRows, Terminal, ReceiptInv, ReceiptTellsRow, Ids,
        ReceiptStatuses, SuccessOutcomes, Ended, Alive, Locked, NoReceipt
  <1>5. ASSUME NEW p \in Procs, \/ StartManual(p) \/ Reap(p) \/ Kill(p)
        PROVE  ReceiptInv'
    BY <1>5, <1>0, ReceiptRecords, SchedulerAssumption, IdentityAssumption
    DEF StartManual, Spawn, Reap, Vacate, Watched, Kill, Dies, ReleasedBy,
        storeVars, procVars, jobVars, mainVars, envVars, TypeOK, ProcTypeOK,
        FinalRows, Terminal, ReceiptInv, ReceiptTellsRow, Ids, ReceiptStatuses,
        SuccessOutcomes, Ended, Alive, Locked, NoReceipt
  <1>6. ASSUME NEW j \in Jobs, \/ Fire(j) \/ StartAttemptRaises(j)
                               \/ PopenRaises(j) \/ Register(j) \/ ChildEnds(j)
                               \/ Expire(j) \/ AlreadyStopped(j)
                               \/ ReadInterruption(j)
        PROVE  ReceiptInv'
    BY <1>6, <1>0, ReceiptRecords, SchedulerAssumption, IdentityAssumption
    DEF Fire, Moves, StartAttemptRaises, PopenRaises, Register, ChildEnds,
        Expire, AlreadyStopped, ReadInterruption, storeVars, procVars, jobVars,
        mainVars, envVars, TypeOK, ProcTypeOK, FinalRows, Terminal, ReceiptInv,
        ReceiptTellsRow, Ids, ReceiptStatuses, SuccessOutcomes, Ended, Alive,
        Locked, NoReceipt
  <1>7. ASSUME NEW j \in Jobs, StartAttempt(j)
        PROVE  ReceiptInv'
    BY <1>7, <1>0, ReceiptRecords, SchedulerAssumption, IdentityAssumption
    DEF StartAttempt, Moves, storeVars, procVars, jobVars, mainVars, envVars,
        TypeOK, ProcTypeOK, FinalRows, Terminal, ReceiptInv, ReceiptTellsRow,
        Ids, ReceiptStatuses, SuccessOutcomes, Ended, Alive, Locked, NoReceipt
  <1>8. ASSUME NEW j \in Jobs, Popen(j)
        PROVE  ReceiptInv'
    BY <1>8, <1>0, ReceiptRecords, SchedulerAssumption, IdentityAssumption
    DEF Popen, Moves, Spawn, storeVars, procVars, jobVars, mainVars, envVars,
        TypeOK, ProcTypeOK, FinalRows, Terminal, ReceiptInv, ReceiptTellsRow,
        Ids, ReceiptStatuses, SuccessOutcomes, Ended, Alive, Locked, NoReceipt
  <1>9. ASSUME NEW j \in Jobs, StopOnTimeout(j)
        PROVE  ReceiptInv'
    BY <1>9, <1>0, ReceiptRecords, SchedulerAssumption, IdentityAssumption
    DEF StopOnTimeout, Moves, StopChild, Dies, ReleasedBy, storeVars, procVars,
        jobVars, mainVars, envVars, TypeOK, ProcTypeOK, FinalRows, Terminal,
        ReceiptInv, ReceiptTellsRow, Ids, ReceiptStatuses, SuccessOutcomes,
        Ended, Alive, Locked, NoReceipt
  <1>10. ASSUME NEW j \in Jobs, StopOnShutdown(j)
         PROVE  ReceiptInv'
    BY <1>10, <1>0, ReceiptRecords, SchedulerAssumption, IdentityAssumption
    DEF StopOnShutdown, StopChild, Dies, ReleasedBy, Moves, storeVars,
        procVars, jobVars, mainVars, envVars, TypeOK, ProcTypeOK, FinalRows,
        Terminal, ReceiptInv, ReceiptTellsRow, Ids, ReceiptStatuses,
        SuccessOutcomes, Ended, Alive, Locked, NoReceipt
  <1>11. ASSUME NEW j \in Jobs, FinishAttempt(j)
         PROVE  ReceiptInv'
    BY <1>11, <1>0, ReceiptRecords, SchedulerAssumption, IdentityAssumption
    DEF FinishAttempt, EndsJob, Moves, Vacate, storeVars, procVars, jobVars,
        mainVars, envVars, TypeOK, ProcTypeOK, FinalRows, Terminal, ReceiptInv,
        ReceiptTellsRow, Ids, ReceiptStatuses, SuccessOutcomes, Ended, Alive,
        Locked, NoReceipt, JobTypeOK
  <1>12. ASSUME NEW j \in Jobs, \/ ReconcileBegins(j) \/ VisitOperation(j)
                                \/ StopNotNeeded(j)
         PROVE  ReceiptInv'
    BY <1>12, <1>0, ReceiptRecords, SchedulerAssumption, IdentityAssumption
    DEF ReconcileBegins, CanLock, VisitOperation, StopNotNeeded, storeVars,
        procVars, jobVars, mainVars, envVars, TypeOK, ProcTypeOK, FinalRows,
        Terminal, ReceiptInv, ReceiptTellsRow, Ids, ReceiptStatuses,
        SuccessOutcomes, Ended, Alive, Locked, NoReceipt
  <1>13. ASSUME NEW j \in Jobs, Reconcile(j)
         PROVE  ReceiptInv'
    <2>1. PICK run \in Stale(now, FALSE) \cup {NoRun} : StopRecorded(j, run)
      BY <1>13, ReconcileShape
    <2> QED
      BY <1>0, <2>1, ReceiptRecords, IdentityAssumption
      DEF StopRecorded, procVars, TypeOK, ProcTypeOK, FinalRows, Terminal, ReceiptInv,
          ReceiptTellsRow, Ids, ReceiptStatuses, SuccessOutcomes
  <1>14. ASSUME NEW j \in Jobs, ReconcileSkipped(j)
         PROVE  ReceiptInv'
    BY <1>14, <1>0, ReceiptRecords, SchedulerAssumption, IdentityAssumption
    DEF ReconcileSkipped, StopRecorded, Moves, storeVars, procVars, jobVars,
        mainVars, envVars, TypeOK, ProcTypeOK, FinalRows, Terminal, ReceiptInv,
        ReceiptTellsRow, Ids, ReceiptStatuses, SuccessOutcomes, Ended, Alive,
        Locked, NoReceipt
  <1>15. ASSUME NEW j \in Jobs, RecordOverlap(j)
         PROVE  ReceiptInv'
    BY <1>15, <1>0, ReceiptRecords, SchedulerAssumption, IdentityAssumption
    DEF RecordOverlap, storeVars, procVars, jobVars, mainVars, envVars, TypeOK,
        ProcTypeOK, FinalRows, Terminal, ReceiptInv, ReceiptTellsRow, Ids,
        ReceiptStatuses, SuccessOutcomes, Ended, Alive, Locked, NoReceipt
  <1>16. ASSUME \/ Boot \/ Drain \/ Shutdown \/ Tick
                \/ UNCHANGED vars
         PROVE  ReceiptInv'
    BY <1>16, <1>0, ReceiptRecords, SchedulerAssumption, IdentityAssumption
    DEF Boot, CanLock, Drain, Shutdown, Tick, vars, storeVars, procVars,
        jobVars, mainVars, envVars, TypeOK, ProcTypeOK, FinalRows, Terminal,
        ReceiptInv, ReceiptTellsRow, Ids, ReceiptStatuses, SuccessOutcomes,
        Ended, Alive, Locked, NoReceipt
  <1>17. ASSUME Recover
         PROVE  ReceiptInv'
    BY <1>17, <1>0, ReceiptRecords, SchedulerAssumption, IdentityAssumption
    DEF Recover, storeVars, procVars, jobVars, mainVars, envVars, TypeOK,
        ProcTypeOK, FinalRows, Terminal, ReceiptInv, ReceiptTellsRow, Ids,
        ReceiptStatuses, SuccessOutcomes, Ended, Alive, Locked, NoReceipt
  <1>18. ASSUME Down
         PROVE  ReceiptInv'
    BY <1>18, <1>0, ReceiptRecords, SchedulerAssumption, IdentityAssumption
    DEF Down, WorkersDone, Nothing, storeVars, procVars, jobVars, mainVars,
        envVars, TypeOK, ProcTypeOK, FinalRows, Terminal, ReceiptInv,
        ReceiptTellsRow, Ids, ReceiptStatuses, SuccessOutcomes, Ended, Alive,
        Locked, NoReceipt
  <1>19. ASSUME FinishOverlap
         PROVE  ReceiptInv'
    BY <1>19, <1>0, ReceiptRecords, SchedulerAssumption, IdentityAssumption
    DEF FinishOverlap, Finished, storeVars, procVars, jobVars, mainVars,
        envVars, TypeOK, ProcTypeOK, FinalRows, Terminal, ReceiptInv,
        ReceiptTellsRow, Ids, ReceiptStatuses, SuccessOutcomes, Ended, Alive,
        Locked, NoReceipt
  <1>20. ASSUME DaemonCrash
         PROVE  ReceiptInv'
    BY <1>20, <1>0, ReceiptRecords, SchedulerAssumption, IdentityAssumption
    DEF DaemonCrash, Nothing, storeVars, procVars, jobVars, mainVars, envVars,
        TypeOK, ProcTypeOK, FinalRows, Terminal, ReceiptInv, ReceiptTellsRow,
        Ids, ReceiptStatuses, SuccessOutcomes, Ended, Alive, Locked, NoReceipt
  <1> QED
    BY <1>1, <1>2, <1>3, <1>4, <1>5, <1>6, <1>7, <1>8, <1>9, <1>10, <1>11,
       <1>12, <1>13, <1>14, <1>15, <1>16, <1>17, <1>18, <1>19, <1>20
    DEF Next, ProcStep, RunStep, JobStep, StopStep, MainStep

\* The verdict on a child repeats its receipt or the interruption.
LEMMA VerdictStep ==
  ASSUME TypeOK, LockInv, ChildInv, EndedInv, ExecutedRunStaysRunning,
  BudgetInv, AttemptInv, AttemptSurvives, ReceiptInv, VerdictInv, [Next]_vars
  PROVE  VerdictInv'
  <1>0. FinalRows
    BY FinalStep
  <1>1. ASSUME NEW p \in Procs, ProcStep(p)
        PROVE  VerdictInv'
    BY <1>1, <1>0, VerdictRecords, InterruptionRecords, IdentityAssumption
    DEF ProcStep, RunStep, EnterFails, ReleasedBy, Enter, Acquire, CanLock,
        SkipOverlap, RunAborts, OpenRun, CommitSucceeds, CommitRun,
        AnalysisFails, MarkFailed, MarkFailedRaises, Notified, Exit, storeVars,
        procVars, jobVars, mainVars, envVars, TypeOK, ProcTypeOK, JobTypeOK,
        FinalRows, Terminal, VerdictInv, Ids, SuccessOutcomes, Outcomes,
        FailureOutcomes
  <1>2. ASSUME NEW p \in Procs, \/ StartManual(p) \/ Reap(p) \/ Kill(p)
        PROVE  VerdictInv'
    BY <1>2, <1>0, VerdictRecords, InterruptionRecords, IdentityAssumption
    DEF StartManual, Spawn, Reap, Vacate, Watched, Kill, Dies, ReleasedBy,
        storeVars, procVars, jobVars, mainVars, envVars, TypeOK, ProcTypeOK,
        JobTypeOK, FinalRows, Terminal, VerdictInv, Ids, SuccessOutcomes,
        Outcomes, FailureOutcomes
  <1>3. ASSUME NEW j \in Jobs, \/ Fire(j) \/ StartAttemptRaises(j)
                               \/ PopenRaises(j) \/ Register(j) \/ ChildEnds(j)
                               \/ Expire(j) \/ AlreadyStopped(j)
        PROVE  VerdictInv'
    BY <1>3, <1>0, VerdictRecords, InterruptionRecords, IdentityAssumption
    DEF Fire, Moves, StartAttemptRaises, PopenRaises, Register, ChildEnds,
        Expire, AlreadyStopped, storeVars, procVars, jobVars, mainVars,
        envVars, TypeOK, ProcTypeOK, JobTypeOK, FinalRows, Terminal,
        VerdictInv, Ids, SuccessOutcomes, Outcomes, FailureOutcomes
  <1>4. ASSUME NEW j \in Jobs, ReadInterruption(j)
        PROVE  VerdictInv'
    <2>1. child[j] \in Procs
      BY <1>4 DEF ReadInterruption, ChildInv, TypeOK, JobTypeOK
    <2>2. /\ Outcome(j) \in Verdicts
          /\ Outcome(j).outcome # "none"
          /\ Outcome(j).outcome \in SuccessOutcomes =>
               /\ Outcome(j).run \in RunIds
               /\ runs[Outcome(j).run].status = "SUCCEEDED"
      BY <2>1, OutcomeType
    <2> QED
      BY <1>4, <2>2
      DEF ReadInterruption, Moves, storeVars, VerdictInv, TypeOK, JobTypeOK
  <1>5. ASSUME NEW j \in Jobs, StartAttempt(j)
        PROVE  VerdictInv'
    BY <1>5, <1>0, VerdictRecords, InterruptionRecords, IdentityAssumption
    DEF StartAttempt, Moves, storeVars, procVars, jobVars, mainVars, envVars,
        TypeOK, ProcTypeOK, JobTypeOK, FinalRows, Terminal, VerdictInv, Ids,
        SuccessOutcomes, Outcomes, FailureOutcomes
  <1>6. ASSUME NEW j \in Jobs, Popen(j)
        PROVE  VerdictInv'
    BY <1>6, <1>0, VerdictRecords, InterruptionRecords, IdentityAssumption
    DEF Popen, Moves, Spawn, storeVars, procVars, jobVars, mainVars, envVars,
        TypeOK, ProcTypeOK, JobTypeOK, FinalRows, Terminal, VerdictInv, Ids,
        SuccessOutcomes, Outcomes, FailureOutcomes
  <1>7. ASSUME NEW j \in Jobs, StopOnTimeout(j)
        PROVE  VerdictInv'
    BY <1>7, <1>0, VerdictRecords, InterruptionRecords, IdentityAssumption
    DEF StopOnTimeout, Moves, StopChild, Dies, ReleasedBy, storeVars, procVars,
        jobVars, mainVars, envVars, TypeOK, ProcTypeOK, JobTypeOK, FinalRows,
        Terminal, VerdictInv, Ids, SuccessOutcomes, Outcomes, FailureOutcomes
  <1>8. ASSUME NEW j \in Jobs, StopOnShutdown(j)
        PROVE  VerdictInv'
    BY <1>8, <1>0, VerdictRecords, InterruptionRecords, IdentityAssumption
    DEF StopOnShutdown, StopChild, Dies, ReleasedBy, Moves, storeVars,
        procVars, jobVars, mainVars, envVars, TypeOK, ProcTypeOK, JobTypeOK,
        FinalRows, Terminal, VerdictInv, Ids, SuccessOutcomes, Outcomes,
        FailureOutcomes
  <1>9. ASSUME NEW j \in Jobs, FinishAttempt(j)
        PROVE  VerdictInv'
    BY <1>9, <1>0, VerdictRecords, InterruptionRecords, IdentityAssumption
    DEF FinishAttempt, EndsJob, Moves, Vacate, storeVars, procVars, jobVars,
        mainVars, envVars, TypeOK, ProcTypeOK, JobTypeOK, FinalRows, Terminal,
        VerdictInv, Ids, SuccessOutcomes, Outcomes, FailureOutcomes
  <1>10. ASSUME NEW j \in Jobs, \/ ReconcileBegins(j) \/ VisitOperation(j)
                                \/ StopNotNeeded(j)
         PROVE  VerdictInv'
    BY <1>10, <1>0, VerdictRecords, InterruptionRecords, IdentityAssumption
    DEF ReconcileBegins, CanLock, VisitOperation, StopNotNeeded, storeVars,
        procVars, jobVars, mainVars, envVars, TypeOK, ProcTypeOK, JobTypeOK,
        FinalRows, Terminal, VerdictInv, Ids, SuccessOutcomes, Outcomes,
        FailureOutcomes
  <1>11. ASSUME NEW j \in Jobs, Reconcile(j)
         PROVE  VerdictInv'
    <2>1. PICK run \in Stale(now, FALSE) \cup {NoRun} : StopRecorded(j, run)
      BY <1>11, ReconcileShape
    <2>2. Reason(j) \in {"MAXIMUM_RUNTIME", "SCHEDULER_SHUTDOWN"} /\ run \in RunIds \cup {NoRun}
      BY <1>11, ReconcileShape DEF Reason
    <2> QED
      BY <1>0, <2>1, <2>2, InterruptionRecords
      DEF StopRecorded, Moves, TypeOK, JobTypeOK, FinalRows, Terminal, VerdictInv, Ids
  <1>12. ASSUME NEW j \in Jobs, ReconcileSkipped(j)
         PROVE  VerdictInv'
    BY <1>12, <1>0, VerdictRecords, InterruptionRecords, IdentityAssumption
    DEF ReconcileSkipped, StopRecorded, Moves, storeVars, procVars, jobVars,
        mainVars, envVars, TypeOK, ProcTypeOK, JobTypeOK, FinalRows, Terminal,
        VerdictInv, Ids, SuccessOutcomes, Outcomes, FailureOutcomes, Reason
  <1>13. ASSUME NEW j \in Jobs, RecordOverlap(j)
         PROVE  VerdictInv'
    BY <1>13, <1>0, VerdictRecords, InterruptionRecords, IdentityAssumption
    DEF RecordOverlap, storeVars, procVars, jobVars, mainVars, envVars, TypeOK,
        ProcTypeOK, JobTypeOK, FinalRows, Terminal, VerdictInv, Ids,
        SuccessOutcomes, Outcomes, FailureOutcomes
  <1>14. ASSUME \/ Boot \/ Drain \/ Shutdown \/ Tick
                \/ UNCHANGED vars
         PROVE  VerdictInv'
    BY <1>14, <1>0, VerdictRecords, InterruptionRecords, IdentityAssumption
    DEF Boot, CanLock, Drain, Shutdown, Tick, vars, storeVars, procVars,
        jobVars, mainVars, envVars, TypeOK, ProcTypeOK, JobTypeOK, FinalRows,
        Terminal, VerdictInv, Ids, SuccessOutcomes, Outcomes, FailureOutcomes
  <1>15. ASSUME Recover
         PROVE  VerdictInv'
    BY <1>15, <1>0, VerdictRecords, InterruptionRecords, IdentityAssumption
    DEF Recover, storeVars, procVars, jobVars, mainVars, envVars, TypeOK,
        ProcTypeOK, JobTypeOK, FinalRows, Terminal, VerdictInv, Ids,
        SuccessOutcomes, Outcomes, FailureOutcomes
  <1>16. ASSUME Down
         PROVE  VerdictInv'
    BY <1>16, <1>0, VerdictRecords, InterruptionRecords, IdentityAssumption
    DEF Down, WorkersDone, Nothing, storeVars, procVars, jobVars, mainVars,
        envVars, TypeOK, ProcTypeOK, JobTypeOK, FinalRows, Terminal,
        VerdictInv, Ids, SuccessOutcomes, Outcomes, FailureOutcomes
  <1>17. ASSUME FinishOverlap
         PROVE  VerdictInv'
    BY <1>17, <1>0, VerdictRecords, InterruptionRecords, IdentityAssumption
    DEF FinishOverlap, storeVars, procVars, jobVars, mainVars, envVars, TypeOK,
        ProcTypeOK, JobTypeOK, FinalRows, Terminal, VerdictInv, Ids,
        SuccessOutcomes, Outcomes, FailureOutcomes
  <1>18. ASSUME DaemonCrash
         PROVE  VerdictInv'
    BY <1>18, <1>0, VerdictRecords, InterruptionRecords, IdentityAssumption
    DEF DaemonCrash, Nothing, storeVars, procVars, jobVars, mainVars, envVars,
        TypeOK, ProcTypeOK, JobTypeOK, FinalRows, Terminal, VerdictInv, Ids,
        SuccessOutcomes, Outcomes, FailureOutcomes
  <1> QED
    BY <1>1, <1>2, <1>3, <1>4, <1>5, <1>6, <1>7, <1>8, <1>9, <1>10, <1>11,
       <1>12, <1>13, <1>14, <1>15, <1>16, <1>17, <1>18
    DEF Next, ProcStep, RunStep, JobStep, StopStep, MainStep

\* An attempt becomes successful only on the word of a successful verdict.
LEMMA NewSuccessStep ==
  ASSUME TypeOK, BudgetInv, AttemptInv, AttemptSurvives,
  ExecutedRunStaysRunning, [Next]_vars
  PROVE  NewSuccess
  <1>1. ASSUME NEW p \in Procs, \/ EnterFails(p) \/ Enter(p) \/ Acquire(p)
                                \/ SkipOverlap(p) \/ RunAborts(p)
                                \/ AnalysisFails(p) \/ MarkFailedRaises(p)
                                \/ Notified(p) \/ Exit(p), UNCHANGED <<jobVars, mainVars, envVars>>
        PROVE  NewSuccess
    BY <1>1, SchedulerAssumption, IdentityAssumption
    DEF EnterFails, Leave, Receipt, ReleasedBy, Enter, Acquire, CanLock,
        SkipOverlap, RunAborts, AnalysisFails, MarkFailedRaises, Notified,
        Exit, storeVars, procVars, jobVars, mainVars, envVars, TypeOK,
        ProcTypeOK, JobTypeOK, MainTypeOK, NewSuccess, Terminal, AttemptInv,
        AttemptSurvives, ExecutedRunStaysRunning, Ids, Busy
  <1>2. ASSUME NEW p \in Procs, OpenRun(p), UNCHANGED <<jobVars, mainVars, envVars>>
        PROVE  NewSuccess
    BY <1>2, SchedulerAssumption, IdentityAssumption
    DEF OpenRun, StoreRun, CanStore, RunningRow, NoRow, storeVars, procVars,
        jobVars, mainVars, envVars, TypeOK, ProcTypeOK, JobTypeOK, MainTypeOK,
        NewSuccess, Terminal, AttemptInv, AttemptSurvives,
        ExecutedRunStaysRunning, Ids, Busy
  <1>3. ASSUME NEW p \in Procs, CommitSucceeds(p), UNCHANGED <<jobVars, mainVars, envVars>>
        PROVE  NewSuccess
    BY <1>3, SchedulerAssumption, IdentityAssumption
    DEF CommitSucceeds, CommitRun, CanCommit, Receipt, storeVars, procVars,
        jobVars, mainVars, envVars, TypeOK, ProcTypeOK, JobTypeOK, MainTypeOK,
        NewSuccess, Terminal, AttemptInv, AttemptSurvives,
        ExecutedRunStaysRunning, Ids, Busy
  <1>4. ASSUME NEW p \in Procs, MarkFailed(p), UNCHANGED <<jobVars, mainVars, envVars>>
        PROVE  NewSuccess
    BY <1>4, SchedulerAssumption, IdentityAssumption
    DEF MarkFailed, FinishRun, CanFinish, Finished, Receipt, storeVars,
        procVars, jobVars, mainVars, envVars, TypeOK, ProcTypeOK, JobTypeOK,
        MainTypeOK, NewSuccess, Terminal, AttemptInv, AttemptSurvives,
        ExecutedRunStaysRunning, Ids, Busy
  <1>5. ASSUME NEW p \in Procs, \/ StartManual(p) \/ Reap(p) \/ Kill(p)
        PROVE  NewSuccess
    BY <1>5, SchedulerAssumption, IdentityAssumption
    DEF StartManual, Spawn, Reap, Vacate, Watched, Kill, Dies, ReleasedBy,
        storeVars, procVars, jobVars, mainVars, envVars, TypeOK, ProcTypeOK,
        JobTypeOK, MainTypeOK, NewSuccess, Terminal, AttemptInv,
        AttemptSurvives, ExecutedRunStaysRunning, Ids, Busy
  <1>6. ASSUME NEW j \in Jobs, \/ Fire(j) \/ StartAttemptRaises(j)
                               \/ PopenRaises(j) \/ Register(j) \/ ChildEnds(j)
                               \/ Expire(j) \/ AlreadyStopped(j)
                               \/ ReadInterruption(j)
        PROVE  NewSuccess
    BY <1>6, SchedulerAssumption, IdentityAssumption
    DEF Fire, Moves, StartAttemptRaises, PopenRaises, Verdict, Register,
        ChildEnds, Expire, AlreadyStopped, ReadInterruption, Outcome,
        storeVars, procVars, jobVars, mainVars, envVars, TypeOK, ProcTypeOK,
        JobTypeOK, MainTypeOK, NewSuccess, Terminal, AttemptInv,
        AttemptSurvives, ExecutedRunStaysRunning, Ids, Busy
  <1>7. ASSUME NEW j \in Jobs, StartAttempt(j)
        PROVE  NewSuccess
    <2>1. <<j, now, seq>> \in AttemptIds /\ now \in Time /\ StoreRun(<<j, now, seq>>, now)
      BY <1>7, SubmittedHasNumber DEF StartAttempt, TypeOK, ProcTypeOK, JobTypeOK, MainTypeOK
    <2> QED
      BY <2>1, StoreRunType DEF StoreRun, TypeOK, ProcTypeOK, JobTypeOK, MainTypeOK, RunsType, Ids, NewSuccess
  <1>8. ASSUME NEW j \in Jobs, Popen(j)
        PROVE  NewSuccess
    BY <1>8, SchedulerAssumption, IdentityAssumption
    DEF Popen, Moves, Spawn, storeVars, procVars, jobVars, mainVars, envVars,
        TypeOK, ProcTypeOK, JobTypeOK, MainTypeOK, NewSuccess, Terminal,
        AttemptInv, AttemptSurvives, ExecutedRunStaysRunning, Ids, Busy
  <1>9. ASSUME NEW j \in Jobs, StopOnTimeout(j)
        PROVE  NewSuccess
    BY <1>9, SchedulerAssumption, IdentityAssumption
    DEF StopOnTimeout, Moves, StopChild, Dies, ReleasedBy, storeVars, procVars,
        jobVars, mainVars, envVars, TypeOK, ProcTypeOK, JobTypeOK, MainTypeOK,
        NewSuccess, Terminal, AttemptInv, AttemptSurvives,
        ExecutedRunStaysRunning, Ids, Busy
  <1>10. ASSUME NEW j \in Jobs, StopOnShutdown(j)
         PROVE  NewSuccess
    BY <1>10, SchedulerAssumption, IdentityAssumption
    DEF StopOnShutdown, StopChild, Dies, ReleasedBy, Moves, Verdict, storeVars,
        procVars, jobVars, mainVars, envVars, TypeOK, ProcTypeOK, JobTypeOK,
        MainTypeOK, NewSuccess, Terminal, AttemptInv, AttemptSurvives,
        ExecutedRunStaysRunning, Ids, Busy
  <1>11. ASSUME NEW j \in Jobs, FinishAttempt(j)
         PROVE  NewSuccess
    BY <1>11, SchedulerAssumption, IdentityAssumption
    DEF FinishAttempt, EndsJob, Moves, Vacate, Verdict, storeVars, procVars,
        jobVars, mainVars, envVars, TypeOK, ProcTypeOK, JobTypeOK, MainTypeOK,
        NewSuccess, Terminal, AttemptInv, AttemptSurvives,
        ExecutedRunStaysRunning, Ids, Busy, FinishRun, CanFinish, Finished,
        AttemptEnd, AttemptStatus, AttemptError
  <1>12. ASSUME NEW j \in Jobs, \/ ReconcileBegins(j) \/ VisitOperation(j)
                                \/ StopNotNeeded(j)
         PROVE  NewSuccess
    BY <1>12, SchedulerAssumption, IdentityAssumption
    DEF ReconcileBegins, CanLock, VisitOperation, StopNotNeeded, storeVars,
        procVars, jobVars, mainVars, envVars, TypeOK, ProcTypeOK, JobTypeOK,
        MainTypeOK, NewSuccess, Terminal, AttemptInv, AttemptSurvives,
        ExecutedRunStaysRunning, Ids, Busy
  <1>13. ASSUME NEW j \in Jobs, Reconcile(j)
         PROVE  NewSuccess
    BY <1>13, ReconcileShape, RecoverRunsEffect DEF TypeOK, ProcTypeOK, JobTypeOK, MainTypeOK, RunsType, NewSuccess, Ids
  <1>14. ASSUME NEW j \in Jobs, ReconcileSkipped(j)
         PROVE  NewSuccess
    BY <1>14, SchedulerAssumption, IdentityAssumption
    DEF ReconcileSkipped, StopRecorded, Moves, storeVars, procVars, jobVars,
        mainVars, envVars, TypeOK, ProcTypeOK, JobTypeOK, MainTypeOK,
        NewSuccess, Terminal, AttemptInv, AttemptSurvives,
        ExecutedRunStaysRunning, Ids, Busy
  <1>15. ASSUME NEW j \in Jobs, RecordOverlap(j)
         PROVE  NewSuccess
    <2>1. PICK t \in 0 .. now : \/ StoreRun(<<j, t, seq>>, t)
                                \/ UNCHANGED runs
      BY <1>15 DEF RecordOverlap
    <2>2. t \in Time /\ <<j, t, seq>> \in AttemptIds
      BY <1>15, OverlapHasNumber DEF RecordOverlap
    <2> QED
      BY <2>1, <2>2, StoreRunType DEF StoreRun, TypeOK, ProcTypeOK, JobTypeOK, MainTypeOK, RunsType, Ids, NewSuccess
  <1>16. ASSUME \/ Boot \/ Drain \/ Shutdown \/ Tick
                \/ UNCHANGED vars
         PROVE  NewSuccess
    BY <1>16, SchedulerAssumption, IdentityAssumption
    DEF Boot, CanLock, Drain, Shutdown, Tick, vars, storeVars, procVars,
        jobVars, mainVars, envVars, TypeOK, ProcTypeOK, JobTypeOK, MainTypeOK,
        NewSuccess, Terminal, AttemptInv, AttemptSurvives,
        ExecutedRunStaysRunning, Ids, Busy
  <1>17. ASSUME Recover
         PROVE  NewSuccess
    BY <1>17, RecoverRunsEffect DEF Recover, TypeOK, ProcTypeOK, JobTypeOK, MainTypeOK, RunsType, NewSuccess, Ids
  <1>18. ASSUME Down
         PROVE  NewSuccess
    BY <1>18, SchedulerAssumption, IdentityAssumption
    DEF Down, WorkersDone, Nothing, storeVars, procVars, jobVars, mainVars,
        envVars, TypeOK, ProcTypeOK, JobTypeOK, MainTypeOK, NewSuccess,
        Terminal, AttemptInv, AttemptSurvives, ExecutedRunStaysRunning, Ids,
        Busy
  <1>19. ASSUME FinishOverlap
         PROVE  NewSuccess
    BY <1>19, SchedulerAssumption, IdentityAssumption
    DEF FinishOverlap, Later, FinishRun, CanFinish, Finished, storeVars,
        procVars, jobVars, mainVars, envVars, TypeOK, ProcTypeOK, JobTypeOK,
        MainTypeOK, NewSuccess, Terminal, AttemptInv, AttemptSurvives,
        ExecutedRunStaysRunning, Ids, Busy
  <1>20. ASSUME DaemonCrash
         PROVE  NewSuccess
    BY <1>20, SchedulerAssumption, IdentityAssumption
    DEF DaemonCrash, Nothing, Verdict, storeVars, procVars, jobVars, mainVars,
        envVars, TypeOK, ProcTypeOK, JobTypeOK, MainTypeOK, NewSuccess,
        Terminal, AttemptInv, AttemptSurvives, ExecutedRunStaysRunning, Ids,
        Busy
  <1> QED
    BY <1>1, <1>2, <1>3, <1>4, <1>5, <1>6, <1>7, <1>8, <1>9, <1>10, <1>11,
       <1>12, <1>13, <1>14, <1>15, <1>16, <1>17, <1>18, <1>19, <1>20
    DEF Next, ProcStep, RunStep, JobStep, StopStep, MainStep

\* A success in the table goes back to a run with evidence.
LEMMA BackedStep ==
  ASSUME IInv, [Next]_vars
  PROVE  SuccessIsBacked'
  <1> USE DEF IInv
  <1>1. FinalRows /\ NewSuccess
    BY FinalStep, NewSuccessStep
  <1>2. EvidenceIsAtomic' /\ VerdictInv'
    BY EvidenceStep, VerdictStep
  <1>3. \A r \in RunIds : runs[r].evidence => runs'[r].evidence
    BY <1>1 DEF FinalRows, EvidenceIsAtomic, Terminal, Ids
  <1>4. \A j \in Jobs : verdict[j].outcome \in SuccessOutcomes =>
          \E r \in RunIds : runs[r].evidence
    BY DEF SuccessIsBacked
  <1>5. ASSUME NEW a \in AttemptIds, runs'[a].status = "SUCCEEDED"
        PROVE  \E r \in RunIds : runs'[r].evidence
    <2>1. \E r \in RunIds : runs[r].evidence
      BY <1>1, <1>4, <1>5 DEF NewSuccess, SuccessIsBacked
    <2> QED
      BY <1>3, <2>1
  <1>6. ASSUME NEW j \in Jobs, verdict'[j].outcome \in SuccessOutcomes
        PROVE  verdict'[j].run \in RunIds /\ runs'[verdict'[j].run].evidence
    BY <1>2, <1>6 DEF VerdictInv, EvidenceIsAtomic
  <1> QED
    BY <1>5, <1>6 DEF SuccessIsBacked

-----------------------------------------------------------------------------
(* Why children are stopped, when rows were opened and who works on them.   *)

\* An interruption names the reason of whoever is inside.
LEMMA RecordedReason ==
  ASSUME NEW j \in Jobs, NEW run \in RunIds \cup {NoRun},
         stopBy[j] \in {"timeout", "shutdown"}
  PROVE  /\ Interruption(run, Reason(j)) \in Interruptions
         /\ Interruption(run, Reason(j)) # NoInterruption
         /\ stopBy[j] = "timeout" =>
              Interruption(run, Reason(j)).reason = "MAXIMUM_RUNTIME"
  BY InterruptionRecords DEF Reason

\* A child is stopped for its runtime or because of a shutdown, and this is
\* reported.
LEMMA CauseStep ==
  ASSUME TypeOK, LockInv, ChildInv, StopInv, QuietInv, VerdictInv, CauseInv,
      [Next]_vars
  PROVE  CauseInv'
  <1>1. ASSUME NEW p \in Procs, ProcStep(p)
        PROVE  CauseInv'
    BY <1>1, SchedulerAssumption, OwnersAssumption
    DEF ProcStep, RunStep, EnterFails, Leave, Receipt, ReleasedBy, Enter,
        Acquire, CanLock, SkipOverlap, RunAborts, OpenRun, CommitSucceeds,
        AnalysisFails, MarkFailed, MarkFailedRaises, Notified, Exit, Alive,
        Locked, Ended, Threads, Busy, NoInterruption, Interruption, storeVars,
        procVars, jobVars, mainVars, envVars, TypeOK, ProcTypeOK, JobTypeOK,
        MainTypeOK, ChildInv, StopInv, QuietInv, CauseInv
  <1>2. ASSUME NEW p \in Procs, StartManual(p) \/ Reap(p) \/ Kill(p)
        PROVE  CauseInv'
    BY <1>2, SchedulerAssumption, OwnersAssumption
    DEF StartManual, Spawn, Reap, Vacate, Watched, Kill, Dies, ReleasedBy,
        Alive, Locked, Ended, Threads, Busy, NoInterruption, Interruption,
        storeVars, procVars, jobVars, mainVars, envVars, TypeOK, ProcTypeOK,
        JobTypeOK, MainTypeOK, ChildInv, StopInv, QuietInv, CauseInv
  <1>3. ASSUME NEW j \in Jobs, \/ Fire(j) \/ StartAttemptRaises(j)
                                  \/ PopenRaises(j) \/ Register(j) \/ ChildEnds(j)
                                  \/ Expire(j) \/ AlreadyStopped(j)
        PROVE  CauseInv'
    BY <1>3, SchedulerAssumption, OwnersAssumption
    DEF Fire, Moves, StartAttemptRaises, PopenRaises, Register, ChildEnds,
        Expire, AlreadyStopped, Alive, Locked, Ended, Threads, Busy,
        NoInterruption, Interruption, storeVars, procVars, jobVars, mainVars,
        envVars, TypeOK, ProcTypeOK, JobTypeOK, MainTypeOK, ChildInv, StopInv,
        QuietInv, CauseInv
  <1>4. ASSUME NEW j \in Jobs, ReadInterruption(j)
        PROVE  CauseInv'
    <2>1. child[j] \in Procs
      BY <1>4 DEF ReadInterruption, TypeOK, JobTypeOK, ChildInv
    <2>2. interruption[j] # NoInterruption /\ daemon = "running" =>
            Outcome(j).outcome = "MAXIMUM_RUNTIME"
      <3> SUFFICES ASSUME interruption[j] # NoInterruption, daemon = "running"
                   PROVE  Outcome(j).outcome = "MAXIMUM_RUNTIME"
        OBVIOUS
      <3>1. /\ interruption[j].reason = "MAXIMUM_RUNTIME"
            /\ interruption[j].run \in RunIds \cup {NoRun}
        BY InterruptionRecords DEF TypeOK, JobTypeOK, VerdictInv, CauseInv
      <3> QED
        BY <3>1, VerdictRecords DEF Outcome, Outcomes, FailureOutcomes
    <2> HIDE DEF Outcome
    <2> QED
      BY <1>4, <2>1, <2>2
      DEF ReadInterruption, Moves, storeVars, procVars, mainVars, envVars, TypeOK,
          JobTypeOK, ChildInv, CauseInv
  <1>5. ASSUME NEW j \in Jobs, StartAttempt(j)
        PROVE  CauseInv'
    BY <1>5, SchedulerAssumption, OwnersAssumption
    DEF StartAttempt, Moves, Alive, Locked, Ended, Threads, Busy,
        NoInterruption, Interruption, storeVars, procVars, jobVars, mainVars,
        envVars, TypeOK, ProcTypeOK, JobTypeOK, MainTypeOK, ChildInv, StopInv,
        QuietInv, CauseInv
  <1>6. ASSUME NEW j \in Jobs, Popen(j)
        PROVE  CauseInv'
    BY <1>6, SchedulerAssumption, OwnersAssumption
    DEF Popen, Moves, Spawn, Alive, Locked, Ended, Threads, Busy,
        NoInterruption, Interruption, storeVars, procVars, jobVars, mainVars,
        envVars, TypeOK, ProcTypeOK, JobTypeOK, MainTypeOK, ChildInv, StopInv,
        QuietInv, CauseInv
  <1>7. ASSUME NEW j \in Jobs, StopOnTimeout(j)
        PROVE  CauseInv'
    BY <1>7, SchedulerAssumption, OwnersAssumption
    DEF StopOnTimeout, Moves, StopChild, Dies, Alive, Locked, Ended, Threads,
        Busy, NoInterruption, Interruption, storeVars, procVars, jobVars,
        mainVars, envVars, TypeOK, ProcTypeOK, JobTypeOK, MainTypeOK, ChildInv,
        StopInv, QuietInv, CauseInv
  <1>8. ASSUME NEW j \in Jobs, StopOnShutdown(j)
        PROVE  CauseInv'
    BY <1>8, SchedulerAssumption, OwnersAssumption
    DEF StopOnShutdown, StopChild, Dies, Moves, Alive, Locked, Ended, Threads,
        Busy, NoInterruption, Interruption, storeVars, procVars, jobVars,
        mainVars, envVars, TypeOK, ProcTypeOK, JobTypeOK, MainTypeOK, ChildInv,
        StopInv, QuietInv, CauseInv
  <1>9. ASSUME NEW j \in Jobs, FinishAttempt(j)
        PROVE  CauseInv'
    BY <1>9, SchedulerAssumption, OwnersAssumption
    DEF FinishAttempt, EndsJob, Moves, Vacate, Alive, Locked, Ended, Threads,
        Busy, NoInterruption, Interruption, storeVars, procVars, jobVars,
        mainVars, envVars, TypeOK, ProcTypeOK, JobTypeOK, MainTypeOK, ChildInv,
        StopInv, QuietInv, CauseInv
  <1>10. ASSUME NEW j \in Jobs, ReconcileBegins(j) \/ VisitOperation(j) \/ StopNotNeeded(j)
         PROVE  CauseInv'
    BY <1>10, SchedulerAssumption, OwnersAssumption
    DEF ReconcileBegins, CanLock, VisitOperation, StopNotNeeded, Alive, Locked,
        Ended, Threads, Busy, NoInterruption, Interruption, storeVars, procVars,
        jobVars, mainVars, envVars, TypeOK, ProcTypeOK, JobTypeOK, MainTypeOK,
        ChildInv, StopInv, QuietInv, CauseInv
  <1>11. ASSUME NEW j \in Jobs, Reconcile(j)
         PROVE  CauseInv'
    <2>1. PICK run \in Stale(now, FALSE) \cup {NoRun} : StopRecorded(j, run)
      BY <1>11, ReconcileShape
    <2>2. lock = j /\ run \in RunIds \cup {NoRun}
      BY <1>11, <2>1, ReconcileShape
    <2>3. stopBy[j] \in {"timeout", "shutdown"}
      BY <2>2, SchedulerAssumption, OwnersAssumption DEF LockInv, TypeOK, JobTypeOK
    <2> QED
      BY <2>1, <2>2, <2>3, RecordedReason
      DEF StopRecorded, Moves, procVars, TypeOK, ProcTypeOK, JobTypeOK,
          MainTypeOK, StopInv, QuietInv, CauseInv
  <1>12. ASSUME NEW j \in Jobs, ReconcileSkipped(j)
         PROVE  CauseInv'
    <2>1. StopRecorded(j, NoRun) /\ stopBy[j] \in {"timeout", "shutdown"}
      BY <1>12 DEF ReconcileSkipped, TypeOK, JobTypeOK
    <2> QED
      BY <2>1, RecordedReason
      DEF StopRecorded, Moves, procVars, TypeOK, ProcTypeOK, JobTypeOK,
          MainTypeOK, StopInv, QuietInv, CauseInv
  <1>13. ASSUME NEW j \in Jobs, RecordOverlap(j)
         PROVE  CauseInv'
    BY <1>13, SchedulerAssumption, OwnersAssumption
    DEF RecordOverlap, Alive, Locked, Ended, Threads, Busy, NoInterruption,
        Interruption, storeVars, procVars, jobVars, mainVars, envVars, TypeOK,
        ProcTypeOK, JobTypeOK, MainTypeOK, ChildInv, StopInv, QuietInv, CauseInv
  <1>14. ASSUME Boot \/ Drain \/ Shutdown \/ Tick \/ UNCHANGED vars
         PROVE  CauseInv'
    BY <1>14, SchedulerAssumption, OwnersAssumption
    DEF Boot, CanLock, Drain, Shutdown, Tick, vars, Alive, Locked, Ended,
        Threads, Busy, NoInterruption, Interruption, storeVars, procVars,
        jobVars, mainVars, envVars, TypeOK, ProcTypeOK, JobTypeOK, MainTypeOK,
        ChildInv, StopInv, QuietInv, CauseInv
  <1>15. ASSUME Recover
         PROVE  CauseInv'
    BY <1>15, SchedulerAssumption, OwnersAssumption
    DEF Recover, Alive, Locked, Ended, Threads, Busy, NoInterruption,
        Interruption, storeVars, procVars, jobVars, mainVars, envVars, TypeOK,
        ProcTypeOK, JobTypeOK, MainTypeOK, ChildInv, StopInv, QuietInv, CauseInv
  <1>16. ASSUME Down
         PROVE  CauseInv'
    BY <1>16, SchedulerAssumption, OwnersAssumption
    DEF Down, WorkersDone, Nothing, Alive, Locked, Ended, Threads, Busy,
        NoInterruption, Interruption, storeVars, procVars, jobVars, mainVars,
        envVars, TypeOK, ProcTypeOK, JobTypeOK, MainTypeOK, ChildInv, StopInv,
        QuietInv, CauseInv
  <1>17. ASSUME FinishOverlap
         PROVE  CauseInv'
    BY <1>17, SchedulerAssumption, OwnersAssumption
    DEF FinishOverlap, Alive, Locked, Ended, Threads, Busy, NoInterruption,
        Interruption, storeVars, procVars, jobVars, mainVars, envVars, TypeOK,
        ProcTypeOK, JobTypeOK, MainTypeOK, ChildInv, StopInv, QuietInv, CauseInv
  <1>18. ASSUME DaemonCrash
         PROVE  CauseInv'
    BY <1>18, SchedulerAssumption, OwnersAssumption
    DEF DaemonCrash, Nothing, Verdict, Alive, Locked, Ended, Threads, Busy,
        NoInterruption, Interruption, storeVars, procVars, jobVars, mainVars,
        envVars, TypeOK, ProcTypeOK, JobTypeOK, MainTypeOK, ChildInv, StopInv,
        QuietInv, CauseInv
  <1> QED
    BY <1>1, <1>2, <1>3, <1>4, <1>5, <1>6, <1>7, <1>8, <1>9, <1>10, <1>11,
        <1>12, <1>13, <1>14, <1>15, <1>16, <1>17, <1>18
    DEF Next, ProcStep, RunStep, JobStep, StopStep, MainStep

\* What the operation answers of a stop is what was recorded.
LEMMA ReportsReason ==
  ASSUME TypeOK, ReceiptInv, VerdictInv, NEW j \in Jobs, child[j] \in Procs
  PROVE  /\ Outcome(j).outcome \in Interrupted => Outcome(j).outcome = interruption[j].reason
         /\ pc[child[j]] = "terminated" => Outcome(j).outcome \in Interrupted \cup {"FAILED"}
  <1>1. CASE interruption[j] # NoInterruption
    <2>1. /\ interruption[j].reason \in Interrupted
          /\ interruption[j].run \in RunIds \cup {NoRun}
      BY <1>1, InterruptionRecords DEF TypeOK, JobTypeOK, VerdictInv, Interrupted
    <2>2. Outcome(j) = Verdict(interruption[j].reason, interruption[j].run)
      BY <1>1 DEF Outcome
    <2>3. interruption[j].reason \in Outcomes
      BY <2>1 DEF Interrupted, Outcomes, FailureOutcomes
    <2> QED
      BY <2>1, <2>2, <2>3, VerdictRecords
  <1>2. CASE interruption[j] = NoInterruption /\ pc[child[j]] = "exited"
    <2>1. /\ receipt[child[j]].status \in ReceiptStatuses \ {"none"}
          /\ receipt[child[j]].run \in RunIds \cup {NoRun}
      BY <1>2, ReceiptRecords DEF TypeOK, ProcTypeOK, ReceiptInv
    <2>2. Outcome(j) = Verdict(receipt[child[j]].status, receipt[child[j]].run)
      BY <1>2 DEF Outcome, ChildReceipt
    <2>3. receipt[child[j]].status \in Outcomes \ Interrupted
      BY <2>1 DEF ReceiptStatuses, Outcomes, FailureOutcomes, SuccessOutcomes, Interrupted
    <2> QED
      BY <1>2, <2>1, <2>2, <2>3, VerdictRecords
  <1>3. CASE interruption[j] = NoInterruption /\ pc[child[j]] # "exited"
    <2>1. Outcome(j) = Verdict("FAILED", NoRun)
      BY <1>3 DEF Outcome, ChildReceipt
    <2>2. Outcome(j).outcome = "FAILED"
      BY <2>1, VerdictRecords DEF Outcomes, FailureOutcomes
    <2> QED
      BY <2>2 DEF Interrupted
  <1> QED
    BY <1>1, <1>2, <1>3

\* A stop is recorded before its thread has reported anything of it.
LEMMA RecordedKeeps ==
  ASSUME TypeOK, ReasonInv, NEW j \in Jobs, NEW run \in RunIds \cup {NoRun},
         stopBy[j] \in {"timeout", "shutdown"}, StopRecorded(j, run)
  PROVE  ReasonInv'
  <1>1. PICK news : news = Interruption(run, Reason(j))
    OBVIOUS
  <1>2. stopBy[j] = "shutdown" => news.reason = "SCHEDULER_SHUTDOWN"
    BY <1>1, InterruptionRecords DEF Reason
  <1>3. /\ interruption' = [interruption EXCEPT ![j] = news]
        /\ stopBy' = [stopBy EXCEPT ![j] = "nobody"]
        /\ thread' = [thread EXCEPT ![j] = IF stopBy[j] = "timeout" THEN "returned" ELSE @]
        /\ UNCHANGED <<pc, child, verdict>>
    BY <1>1 DEF StopRecorded, Moves, procVars, TypeOK, JobTypeOK
  <1>4. interruption[j].reason = "none"
    BY DEF ReasonInv, ReasonOf, NoInterruption, Interruption
  <1>5. ASSUME NEW k \in Jobs PROVE ReasonOf(k)'
    <2>1. CASE k # j
      BY <1>3, <2>1 DEF ReasonInv, ReasonOf, TypeOK, JobTypeOK
    <2>2. CASE k = j
      BY <1>2, <1>3, <1>4, <2>2 DEF ReasonInv, ReasonOf, Interrupted, TypeOK, JobTypeOK
    <2> QED
      BY <2>1, <2>2
  <1> QED
    BY <1>5 DEF ReasonInv

\* What a thread reports of a stop is what was recorded for its own child.
LEMMA ReasonStep ==
  ASSUME TypeOK, LockInv, ChildInv, StopInv, QuietInv, ReceiptInv, VerdictInv, ReasonInv,
      [Next]_vars
  PROVE  ReasonInv'
  <1> DEFINE failed == Verdict("FAILED", NoRun)
  <1>0. failed.outcome = "FAILED" /\ NoInterruption.reason = "none"
    BY VerdictRecords DEF Outcomes, FailureOutcomes, NoInterruption, Interruption
  <1> HIDE DEF failed
  <1>1. ASSUME NEW p \in Procs, ProcStep(p)
        PROVE  ReasonInv'
    BY <1>1, SchedulerAssumption, OwnersAssumption
    DEF ProcStep, RunStep, EnterFails, Leave, Receipt, ReleasedBy, Enter,
        Acquire, CanLock, SkipOverlap, RunAborts, OpenRun, CommitSucceeds,
        AnalysisFails, MarkFailed, MarkFailedRaises, Notified, Exit, Alive,
        Locked, Ended, Threads, Busy, NoInterruption, Interruption, storeVars,
        procVars, jobVars, mainVars, envVars, TypeOK, ProcTypeOK, JobTypeOK,
        MainTypeOK, ChildInv, StopInv, QuietInv, ReasonInv, ReasonOf
  <1>2. ASSUME NEW p \in Procs, StartManual(p) \/ Reap(p) \/ Kill(p)
        PROVE  ReasonInv'
    BY <1>2, SchedulerAssumption, OwnersAssumption
    DEF StartManual, Spawn, Reap, Vacate, Watched, Kill, Dies, ReleasedBy,
        Alive, Locked, Ended, Threads, Busy, NoInterruption, Interruption,
        storeVars, procVars, jobVars, mainVars, envVars, TypeOK, ProcTypeOK,
        JobTypeOK, MainTypeOK, ChildInv, StopInv, QuietInv, ReasonInv, ReasonOf
  <1>3. ASSUME NEW j \in Jobs, \/ Fire(j) \/ StartAttemptRaises(j)
                                  \/ Register(j) \/ ChildEnds(j)
                                  \/ Expire(j) \/ AlreadyStopped(j)
        PROVE  ReasonInv'
    BY <1>3, SchedulerAssumption, OwnersAssumption
    DEF Fire, Moves, StartAttemptRaises, Register, ChildEnds,
        Expire, AlreadyStopped, Alive, Locked, Ended, Threads, Busy,
        NoInterruption, Interruption, storeVars, procVars, jobVars, mainVars,
        envVars, TypeOK, ProcTypeOK, JobTypeOK, MainTypeOK, ChildInv, StopInv,
        QuietInv, ReasonInv, ReasonOf
  <1>3a. ASSUME NEW j \in Jobs, PopenRaises(j)
        PROVE  ReasonInv'
    <2>1. /\ verdict' = [verdict EXCEPT ![j] = failed] /\ child[j] = NoProc
          /\ thread' = [thread EXCEPT ![j] = "finishing"]
          /\ UNCHANGED <<pc, child, interruption, stopBy>>
      BY <1>3a DEF PopenRaises, Moves, failed, procVars, ChildInv
    <2> QED
      BY <1>0, <2>1 DEF TypeOK, JobTypeOK, ReasonInv, ReasonOf, Interrupted
  <1>4. ASSUME NEW j \in Jobs, ReadInterruption(j)
        PROVE  ReasonInv'
    <2>1. child[j] \in Procs
      BY <1>4 DEF ReadInterruption, TypeOK, JobTypeOK, ChildInv
    <2>2. Outcome(j).outcome \in Interrupted => Outcome(j).outcome = interruption[j].reason
      BY <1>4, <2>1, ReportsReason DEF ReadInterruption
    <2>3. pc[child[j]] = "terminated" => Outcome(j).outcome \in Interrupted \cup {"FAILED"}
      BY <1>4, <2>1, ReportsReason DEF ReadInterruption
    <2> HIDE DEF Outcome
    <2> QED
      BY <1>4, <2>1, <2>2, <2>3
      DEF ReadInterruption, Moves, storeVars, procVars, mainVars, envVars, TypeOK,
          JobTypeOK, ChildInv, ReasonInv, ReasonOf
  <1>5. ASSUME NEW j \in Jobs, StartAttempt(j)
        PROVE  ReasonInv'
    BY <1>5, SchedulerAssumption, OwnersAssumption
    DEF StartAttempt, Moves, Alive, Locked, Ended, Threads, Busy,
        NoInterruption, Interruption, storeVars, procVars, jobVars, mainVars,
        envVars, TypeOK, ProcTypeOK, JobTypeOK, MainTypeOK, ChildInv, StopInv,
        QuietInv, ReasonInv, ReasonOf
  <1>6. ASSUME NEW j \in Jobs, Popen(j)
        PROVE  ReasonInv'
    BY <1>6, SchedulerAssumption, OwnersAssumption
    DEF Popen, Moves, Spawn, Alive, Locked, Ended, Threads, Busy,
        NoInterruption, Interruption, storeVars, procVars, jobVars, mainVars,
        envVars, TypeOK, ProcTypeOK, JobTypeOK, MainTypeOK, ChildInv, StopInv,
        QuietInv, ReasonInv, ReasonOf
  <1>7. ASSUME NEW j \in Jobs, StopOnTimeout(j)
        PROVE  ReasonInv'
    BY <1>7, SchedulerAssumption, OwnersAssumption
    DEF StopOnTimeout, Moves, StopChild, Dies, Alive, Locked, Ended, Threads,
        Busy, NoInterruption, Interruption, storeVars, procVars, jobVars,
        mainVars, envVars, TypeOK, ProcTypeOK, JobTypeOK, MainTypeOK, ChildInv,
        StopInv, QuietInv, ReasonInv, ReasonOf
  <1>8. ASSUME NEW j \in Jobs, StopOnShutdown(j)
        PROVE  ReasonInv'
    <2>1. /\ interruption[j] = NoInterruption /\ interruption' = interruption
          /\ child' = child
          /\ \A k \in Jobs : stopBy'[k] = stopBy[k] \/ k = j
      BY <1>8 DEF StopOnShutdown, TypeOK, JobTypeOK
    <2>2. \A k \in Jobs : k # j => thread'[k] = thread[k] /\ verdict'[k] = verdict[k]
      BY <1>8 DEF StopOnShutdown, Moves, TypeOK, JobTypeOK
    <2>3. \/ thread'[j] = thread[j] /\ verdict'[j] = verdict[j]
          \/ thread'[j] = "finishing" /\ verdict'[j] = failed
      BY <1>8 DEF StopOnShutdown, Moves, failed, TypeOK, JobTypeOK
    <2>4. \A k \in Jobs : thread[k] = "finishing" /\ child[k] # NoProc => pc'[child[k]] = pc[child[k]]
      <3>1. owned[j] # NoProc => owned[j] = child[j] /\ thread[j] # "finishing"
        BY DEF ChildInv
      <3>2. \A k \in Jobs : thread[k] = "finishing" /\ child[k] # NoProc => child[k] # owned[j]
        BY <3>1 DEF ChildInv
      <3> QED
        BY <1>8, <3>2 DEF StopOnShutdown, StopChild, Dies, TypeOK, ProcTypeOK, JobTypeOK
    <2>5. ASSUME NEW k \in Jobs PROVE ReasonOf(k)'
      <3>1. CASE k # j
        BY <1>0, <2>1, <2>2, <2>4, <3>1 DEF ReasonInv, ReasonOf
      <3>2. CASE k = j
        BY <1>0, <2>1, <2>3, <2>4, <3>2 DEF ReasonInv, ReasonOf, Interrupted
      <3> QED
        BY <3>1, <3>2
    <2> QED
      BY <2>5 DEF ReasonInv
  <1>9. ASSUME NEW j \in Jobs, FinishAttempt(j)
        PROVE  ReasonInv'
    BY <1>9, SchedulerAssumption, OwnersAssumption
    DEF FinishAttempt, EndsJob, Moves, Vacate, Alive, Locked, Ended, Threads,
        Busy, NoInterruption, Interruption, storeVars, procVars, jobVars,
        mainVars, envVars, TypeOK, ProcTypeOK, JobTypeOK, MainTypeOK, ChildInv,
        StopInv, QuietInv, ReasonInv, ReasonOf
  <1>10. ASSUME NEW j \in Jobs, ReconcileBegins(j) \/ VisitOperation(j) \/ StopNotNeeded(j)
         PROVE  ReasonInv'
    BY <1>10, SchedulerAssumption, OwnersAssumption
    DEF ReconcileBegins, CanLock, VisitOperation, StopNotNeeded, Alive, Locked,
        Ended, Threads, Busy, NoInterruption, Interruption, storeVars, procVars,
        jobVars, mainVars, envVars, TypeOK, ProcTypeOK, JobTypeOK, MainTypeOK,
        ChildInv, StopInv, QuietInv, ReasonInv, ReasonOf
  <1>11. ASSUME NEW j \in Jobs, Reconcile(j)
         PROVE  ReasonInv'
    <2>1. PICK run \in Stale(now, FALSE) \cup {NoRun} : StopRecorded(j, run)
      BY <1>11, ReconcileShape
    <2>2. lock = j /\ run \in RunIds \cup {NoRun}
      BY <1>11, <2>1, ReconcileShape
    <2>3. stopBy[j] \in {"timeout", "shutdown"}
      BY <2>2, SchedulerAssumption, OwnersAssumption DEF LockInv, TypeOK, JobTypeOK
    <2> QED
      BY <2>1, <2>2, <2>3, RecordedKeeps
  <1>12. ASSUME NEW j \in Jobs, ReconcileSkipped(j)
         PROVE  ReasonInv'
    <2>1. StopRecorded(j, NoRun) /\ stopBy[j] \in {"timeout", "shutdown"}
      BY <1>12 DEF ReconcileSkipped, TypeOK, JobTypeOK
    <2> QED
      BY <2>1, RecordedKeeps
  <1>13. ASSUME NEW j \in Jobs, RecordOverlap(j)
         PROVE  ReasonInv'
    BY <1>13, SchedulerAssumption, OwnersAssumption
    DEF RecordOverlap, Alive, Locked, Ended, Threads, Busy, NoInterruption,
        Interruption, storeVars, procVars, jobVars, mainVars, envVars, TypeOK,
        ProcTypeOK, JobTypeOK, MainTypeOK, ChildInv, StopInv, QuietInv, ReasonInv, ReasonOf
  <1>14. ASSUME Boot \/ Drain \/ Shutdown \/ Tick \/ UNCHANGED vars
         PROVE  ReasonInv'
    BY <1>14, SchedulerAssumption, OwnersAssumption
    DEF Boot, CanLock, Drain, Shutdown, Tick, vars, Alive, Locked, Ended,
        Threads, Busy, NoInterruption, Interruption, storeVars, procVars,
        jobVars, mainVars, envVars, TypeOK, ProcTypeOK, JobTypeOK, MainTypeOK,
        ChildInv, StopInv, QuietInv, ReasonInv, ReasonOf
  <1>15. ASSUME Recover
         PROVE  ReasonInv'
    BY <1>15, SchedulerAssumption, OwnersAssumption
    DEF Recover, Alive, Locked, Ended, Threads, Busy, NoInterruption,
        Interruption, storeVars, procVars, jobVars, mainVars, envVars, TypeOK,
        ProcTypeOK, JobTypeOK, MainTypeOK, ChildInv, StopInv, QuietInv, ReasonInv, ReasonOf
  <1>16. ASSUME Down
         PROVE  ReasonInv'
    BY <1>16, SchedulerAssumption, OwnersAssumption
    DEF Down, WorkersDone, Nothing, Alive, Locked, Ended, Threads, Busy,
        NoInterruption, Interruption, storeVars, procVars, jobVars, mainVars,
        envVars, TypeOK, ProcTypeOK, JobTypeOK, MainTypeOK, ChildInv, StopInv,
        QuietInv, ReasonInv, ReasonOf
  <1>17. ASSUME FinishOverlap
         PROVE  ReasonInv'
    BY <1>17, SchedulerAssumption, OwnersAssumption
    DEF FinishOverlap, Alive, Locked, Ended, Threads, Busy, NoInterruption,
        Interruption, storeVars, procVars, jobVars, mainVars, envVars, TypeOK,
        ProcTypeOK, JobTypeOK, MainTypeOK, ChildInv, StopInv, QuietInv, ReasonInv, ReasonOf
  <1>18. ASSUME DaemonCrash
         PROVE  ReasonInv'
    BY <1>18, SchedulerAssumption, OwnersAssumption
    DEF DaemonCrash, Nothing, Verdict, Alive, Locked, Ended, Threads, Busy,
        NoInterruption, Interruption, storeVars, procVars, jobVars, mainVars,
        envVars, TypeOK, ProcTypeOK, JobTypeOK, MainTypeOK, ChildInv, StopInv,
        QuietInv, ReasonInv, ReasonOf
  <1> QED
    BY <1>1, <1>2, <1>3, <1>3a, <1>4, <1>5, <1>6, <1>7, <1>8, <1>9, <1>10, <1>11,
        <1>12, <1>13, <1>14, <1>15, <1>16, <1>17, <1>18
    DEF Next, ProcStep, RunStep, JobStep, StopStep, MainStep

\* Storing a row says when it was opened; no other writer does.
LEMMA StoreSetsStart ==
  ASSUME RunsType, NEW row, NEW t, StoreRun(row, t), NEW id \in Ids
  PROVE  runs'[id].started \in {runs[id].started, t}
  BY DEF RunsType, StoreRun, RunningRow

LEMMA RecoveryKeepsStart ==
  ASSUME RunsType, NEW t, NEW reason, NEW attempts, RecoverRuns(t, reason, attempts),
         NEW id \in Ids
  PROVE  runs'[id].started = runs[id].started
  BY DEF RunsType, RecoverRuns, Rows

\* A clock that runs forward never shows less than what it has shown.
LEMMA ClockStep ==
  ASSUME TypeOK, ClockInv, [Next]_vars
  PROVE  ClockInv'
  <1>1. ASSUME NEW p \in Procs, ProcStep(p)
        PROVE  ClockInv'
    <2>1. CASE OpenRun(p)
      <3>1. PICK r \in RunIds : StoreRun(r, startedAt[p])
        BY <2>1 DEF OpenRun
      <3>2. \A id \in Ids : runs'[id].started \in {runs[id].started, startedAt[p]}
        BY <3>1, StoreSetsStart DEF TypeOK, ProcTypeOK, RunsType, Ids
      <3> QED
        BY <2>1, <3>2 DEF OpenRun, ClockInv
    <2>2. CASE CommitSucceeds(p)
      <3>1. \A id \in Ids : runs'[id].started = runs[id].started
        BY <2>2 DEF CommitSucceeds, CommitRun, TypeOK, ProcTypeOK, Rows
      <3> QED
        BY <2>2, <3>1 DEF CommitSucceeds, ClockInv
    <2>3. CASE MarkFailed(p)
      <3>1. \A id \in Ids : runs'[id].started = runs[id].started
        BY <2>3 DEF MarkFailed, FinishRun, Finished, TypeOK, ProcTypeOK, Rows
      <3> QED
        BY <2>3, <3>1 DEF MarkFailed, ClockInv
    <2>4. CASE Enter(p)
      <3>1. now <= now
        BY BoundsAssumption DEF TypeOK, ProcTypeOK, Time
      <3> QED
        BY <2>4, <3>1 DEF Enter, ClockInv, TypeOK, ProcTypeOK
    <2>5. CASE UNCHANGED <<runs, now, startedAt>>
      BY <2>5 DEF ClockInv
    <2> QED
      BY <1>1, <2>1, <2>2, <2>3, <2>4, <2>5
      DEF ProcStep, RunStep, EnterFails, Acquire, SkipOverlap, RunAborts,
          AnalysisFails, MarkFailedRaises, Notified, Exit
  <1>2. ASSUME NEW p \in Procs, StartManual(p) \/ Reap(p) \/ Kill(p)
        PROVE  ClockInv'
    <2>1. 0 <= now /\ UNCHANGED <<runs, now>>
      BY <1>2, BoundsAssumption
      DEF FinishAttempt, EndsJob, StartManual, Reap, Kill, storeVars, TypeOK, ProcTypeOK, Time
    <2>2. \A q \in Procs : startedAt'[q] \in {startedAt[q], 0}
      BY <1>2
      DEF StartManual, Reap, Vacate, Kill, TypeOK, ProcTypeOK
    <2> QED
      BY <2>1, <2>2 DEF ClockInv
  <1>3. ASSUME NEW j \in Jobs, \/ Fire(j) \/ StartAttemptRaises(j)
                                  \/ PopenRaises(j) \/ Register(j) \/ ChildEnds(j)
                                  \/ Expire(j) \/ AlreadyStopped(j)
        PROVE  ClockInv'
    BY <1>3
    DEF Fire, Moves, StartAttemptRaises, PopenRaises, Register, ChildEnds,
        Expire, AlreadyStopped, ClockInv, storeVars, procVars, jobVars,
        mainVars, envVars, TypeOK, ProcTypeOK, JobTypeOK, MainTypeOK, ClockInv
  <1>4. ASSUME NEW j \in Jobs, ReadInterruption(j)
        PROVE  ClockInv'
    BY <1>4
    DEF ReadInterruption, storeVars, procVars, ClockInv
  <1>5. ASSUME NEW j \in Jobs, StartAttempt(j)
        PROVE  ClockInv'
    <2>1. \A id \in Ids : runs'[id].started \in {runs[id].started, now}
      BY <1>5, StoreSetsStart DEF StartAttempt, TypeOK, ProcTypeOK, RunsType, Ids
    <2>2. now <= now
      BY BoundsAssumption DEF TypeOK, ProcTypeOK, Time
    <2> QED
      BY <1>5, <2>1, <2>2 DEF StartAttempt, procVars, ClockInv
  <1>6. ASSUME NEW j \in Jobs, Popen(j)
        PROVE  ClockInv'
    BY <1>6
    DEF Popen, storeVars, procVars, ClockInv
  <1>7. ASSUME NEW j \in Jobs, StopOnTimeout(j)
        PROVE  ClockInv'
    BY <1>7
    DEF StopOnTimeout, storeVars, procVars, ClockInv
  <1>8. ASSUME NEW j \in Jobs, StopOnShutdown(j)
        PROVE  ClockInv'
    BY <1>8
    DEF StopOnShutdown, storeVars, procVars, ClockInv
  <1>9. ASSUME NEW j \in Jobs, FinishAttempt(j)
        PROVE  ClockInv'
    <2>1. \A id \in Ids : runs'[id].started = runs[id].started
      BY <1>9 DEF FinishAttempt, FinishRun, Finished, TypeOK, ProcTypeOK, Rows
    <2>2. \A q \in Procs : startedAt'[q] \in {startedAt[q], 0}
      BY <1>9 DEF FinishAttempt, EndsJob, Vacate, procVars, TypeOK, ProcTypeOK
    <2>3. 0 <= now /\ now' = now
      BY <1>9, BoundsAssumption DEF FinishAttempt, EndsJob, TypeOK, ProcTypeOK, Time
    <2> QED
      BY <2>1, <2>2, <2>3 DEF ClockInv
  <1>10. ASSUME NEW j \in Jobs, ReconcileBegins(j) \/ VisitOperation(j) \/ StopNotNeeded(j)
         PROVE  ClockInv'
    BY <1>10
    DEF ReconcileBegins, VisitOperation, StopNotNeeded, storeVars, procVars, ClockInv
  <1>11. ASSUME NEW j \in Jobs, Reconcile(j)
         PROVE  ClockInv'
    <2>1. PICK run \in Stale(now, FALSE) \cup {NoRun} : StopRecorded(j, run)
      BY <1>11, ReconcileShape
    <2>2. \A id \in Ids : runs'[id].started = runs[id].started
      BY <1>11, ReconcileShape, RecoveryKeepsStart DEF TypeOK, ProcTypeOK, RunsType
    <2> QED
      BY <2>1, <2>2 DEF StopRecorded, procVars, ClockInv
  <1>12. ASSUME NEW j \in Jobs, ReconcileSkipped(j)
         PROVE  ClockInv'
    BY <1>12
    DEF ReconcileSkipped, StopRecorded, storeVars, procVars, ClockInv
  <1>13. ASSUME NEW j \in Jobs, RecordOverlap(j)
         PROVE  ClockInv'
    <2>1. \A t \in 0 .. now : StoreRun(<<j, t, seq>>, t) =>
            \A id \in Ids : runs'[id].started \in {runs[id].started, t}
      BY StoreSetsStart DEF TypeOK, ProcTypeOK, RunsType
    <2>2. \A t \in 0 .. now : t <= now
      BY BoundsAssumption DEF TypeOK, ProcTypeOK, Time
    <2>3. ~ClockMayStepBack => \A id \in Ids : runs'[id].started <= now
      BY <1>13, <2>1, <2>2 DEF RecordOverlap, ClockInv
    <2> QED
      BY <1>13, <2>3 DEF RecordOverlap, procVars, ClockInv
  <1>14. ASSUME Boot \/ Drain \/ Shutdown \/ Tick \/ UNCHANGED vars
         PROVE  ClockInv'
    <2>1. CASE Tick
      <3>1. PICK t \in Time : (t > now \/ ClockMayStepBack) /\ now' = t
        BY <2>1 DEF Tick
      <3>2. \A x \in Time : x <= now /\ t > now => x <= t
        BY BoundsAssumption DEF TypeOK, ProcTypeOK, Time
      <3>3. /\ \A id \in Ids : runs[id].started \in Time
            /\ \A p \in Procs : startedAt[p] \in Time
        BY DEF TypeOK, ProcTypeOK, Rows
      <3> QED
        BY <2>1, <3>1, <3>2, <3>3 DEF Tick, procVars, ClockInv
    <2>2. CASE Boot \/ Drain \/ Shutdown \/ UNCHANGED vars
      BY <2>2 DEF Boot, Drain, Shutdown, vars, storeVars, procVars, ClockInv
    <2> QED
      BY <1>14, <2>1, <2>2
  <1>15. ASSUME Recover
         PROVE  ClockInv'
    <2>1. \A id \in Ids : runs'[id].started = runs[id].started
      BY <1>15, RecoveryKeepsStart DEF Recover, TypeOK, ProcTypeOK, RunsType
    <2> QED
      BY <1>15, <2>1 DEF Recover, procVars, ClockInv
  <1>16. ASSUME Down
         PROVE  ClockInv'
    BY <1>16
    DEF Down, storeVars, procVars, ClockInv
  <1>17. ASSUME FinishOverlap
         PROVE  ClockInv'
    <2>1. \A id \in Ids : runs'[id].started = runs[id].started
      BY <1>17 DEF FinishOverlap, FinishRun, Finished, TypeOK, ProcTypeOK, Rows
    <2> QED
      BY <1>17, <2>1 DEF FinishOverlap, procVars, ClockInv
  <1>18. ASSUME DaemonCrash
         PROVE  ClockInv'
    BY <1>18
    DEF DaemonCrash, storeVars, procVars, ClockInv
  <1> QED
    BY <1>1, <1>2, <1>3, <1>4, <1>5, <1>6, <1>7, <1>8, <1>9, <1>10, <1>11,
        <1>12, <1>13, <1>14, <1>15, <1>16, <1>17, <1>18
    DEF Next, ProcStep, RunStep, JobStep, StopStep, MainStep

\* Whoever opens an attempt works on it until it is closed.
LEMMA OpenStep ==
  ASSUME TypeOK, BudgetInv, AttemptInv, AttemptSurvives,
      ExecutedRunStaysRunning, ClockInv, OpenInv, [Next]_vars
  PROVE  OpenInv'
  <1>1. ASSUME NEW p \in Procs, ProcStep(p)
        PROVE  OpenInv'
    <2>1. \A a \in AttemptIds : runs'[a] = runs[a]
      BY <1>1, IdentityAssumption
      DEF ProcStep, RunStep, EnterFails, Enter, Acquire, SkipOverlap, RunAborts,
          OpenRun, StoreRun, CommitSucceeds, CommitRun, AnalysisFails, MarkFailed,
          FinishRun, MarkFailedRaises, Notified, Exit, TypeOK, ProcTypeOK,
          ExecutedRunStaysRunning, Ids
    <2> QED
      BY <1>1, <2>1 DEF ProcStep, jobVars, mainVars, OpenInv
  <1>2. ASSUME NEW p \in Procs, StartManual(p) \/ Reap(p) \/ Kill(p)
        PROVE  OpenInv'
    BY <1>2 DEF StartManual, Reap, Kill, storeVars, jobVars, mainVars, OpenInv
  <1>3. ASSUME NEW j \in Jobs, \/ Fire(j) \/ StartAttemptRaises(j)
                                  \/ PopenRaises(j) \/ Register(j) \/ ChildEnds(j)
                                  \/ Expire(j) \/ AlreadyStopped(j)
        PROVE  OpenInv'
    <2>1. UNCHANGED <<runs, overlap, daemon, attempt>>
      BY <1>3 DEF Fire, StartAttemptRaises, PopenRaises, Register, ChildEnds,
          Expire, AlreadyStopped, storeVars, mainVars
    <2>2. \A k \in Jobs : thread[k] \in Busy => thread'[k] \in Busy
      BY <1>3 DEF Fire, StartAttemptRaises, PopenRaises, Register, ChildEnds,
          Expire, AlreadyStopped, Moves, jobVars, TypeOK, JobTypeOK, Busy
    <2> QED
      BY <2>1, <2>2 DEF OpenInv
  <1>4. ASSUME NEW j \in Jobs, ReadInterruption(j)
        PROVE  OpenInv'
    <2>1. UNCHANGED <<runs, overlap, daemon, attempt>>
      BY <1>4 DEF ReadInterruption, storeVars, mainVars
    <2>2. \A k \in Jobs : thread[k] \in Busy => thread'[k] \in Busy
      BY <1>4 DEF ReadInterruption, Moves, jobVars, TypeOK, JobTypeOK, Busy
    <2> QED
      BY <2>1, <2>2 DEF OpenInv
  <1>5. ASSUME NEW j \in Jobs, StartAttempt(j)
        PROVE  OpenInv'
    <2>1. <<j, now, seq>> \in AttemptIds
      BY <1>5, SubmittedHasNumber DEF StartAttempt
    <2>2. \A a \in AttemptIds : a # <<j, now, seq>> => runs'[a] = runs[a]
      BY <1>5 DEF StartAttempt, StoreRun, TypeOK, ProcTypeOK, Ids
    <2>3. /\ thread'[j] = "attempted" /\ attempt'[j] = <<j, now, seq>>
          /\ \A k \in Jobs : k # j => thread'[k] = thread[k] /\ attempt'[k] = attempt[k]
      BY <1>5 DEF StartAttempt, Moves, TypeOK, JobTypeOK
    <2>4. thread[j] \notin Busy /\ UNCHANGED <<daemon, overlap>>
      BY <1>5 DEF StartAttempt, Busy
    <2> QED
      BY <2>1, <2>2, <2>3, <2>4 DEF OpenInv, Busy
  <1>6. ASSUME NEW j \in Jobs, Popen(j)
        PROVE  OpenInv'
    <2>1. UNCHANGED <<runs, overlap, daemon, attempt>>
      BY <1>6 DEF Popen, storeVars, mainVars
    <2>2. \A k \in Jobs : thread[k] \in Busy => thread'[k] \in Busy
      BY <1>6 DEF Popen, Moves, jobVars, TypeOK, JobTypeOK, Busy
    <2> QED
      BY <2>1, <2>2 DEF OpenInv
  <1>7. ASSUME NEW j \in Jobs, StopOnTimeout(j)
        PROVE  OpenInv'
    <2>1. UNCHANGED <<runs, overlap, daemon, attempt>>
      BY <1>7 DEF StopOnTimeout, storeVars, mainVars
    <2>2. \A k \in Jobs : thread[k] \in Busy => thread'[k] \in Busy
      BY <1>7 DEF StopOnTimeout, Moves, jobVars, TypeOK, JobTypeOK, Busy
    <2> QED
      BY <2>1, <2>2 DEF OpenInv
  <1>8. ASSUME NEW j \in Jobs, StopOnShutdown(j)
        PROVE  OpenInv'
    <2>1. UNCHANGED <<runs, overlap, attempt>> /\ daemon = "stopping"
      BY <1>8 DEF StopOnShutdown
    <2>2. \A k \in Jobs : thread[k] \in Busy => thread'[k] \in Busy
      BY <1>8 DEF StopOnShutdown, Moves, TypeOK, JobTypeOK, Busy
    <2> QED
      BY <2>1, <2>2 DEF OpenInv
  <1>9. ASSUME NEW j \in Jobs, FinishAttempt(j)
        PROVE  OpenInv'
    <2>1. runs'[attempt[j]].status \in Terminal
      BY <1>9 DEF FinishAttempt, FinishRun, CanFinish, Finished, AttemptStatus,
            Terminal, TypeOK, ProcTypeOK, Rows, EndsJob, AttemptInv, Busy, Ids
    <2>2. \A a \in AttemptIds : a # attempt[j] => runs'[a] = runs[a]
      BY <1>9 DEF FinishAttempt, FinishRun, TypeOK, ProcTypeOK, Ids
    <2>3. \A k \in Jobs : k # j => thread'[k] = thread[k] /\ attempt'[k] = attempt[k]
      BY <1>9 DEF FinishAttempt, EndsJob, Moves, TypeOK, JobTypeOK
    <2>4. UNCHANGED <<daemon, overlap>>
      BY <1>9 DEF FinishAttempt, EndsJob, mainVars
    <2> QED
      BY <2>1, <2>2, <2>3, <2>4 DEF OpenInv, Terminal
  <1>10. ASSUME NEW j \in Jobs, ReconcileBegins(j) \/ VisitOperation(j) \/ StopNotNeeded(j)
         PROVE  OpenInv'
    BY <1>10 DEF ReconcileBegins, VisitOperation,
             StopNotNeeded, storeVars, jobVars, mainVars, OpenInv
  <1>11. ASSUME NEW j \in Jobs, Reconcile(j)
         PROVE  OpenInv'
    <2>1. PICK run \in Stale(now, FALSE) \cup {NoRun} : StopRecorded(j, run)
      BY <1>11, ReconcileShape
    <2>2. \A a \in AttemptIds : runs'[a] = runs[a]
      BY <1>11, ReconcileShape, RecoverRunsEffect DEF TypeOK, ProcTypeOK, RunsType, Ids
    <2>3. \A k \in Jobs : thread[k] \in Busy => thread'[k] \in Busy
      BY <2>1 DEF StopRecorded, Moves, TypeOK, JobTypeOK, Busy
    <2> QED
      BY <2>1, <2>2, <2>3 DEF StopRecorded, OpenInv
  <1>12. ASSUME NEW j \in Jobs, ReconcileSkipped(j)
         PROVE  OpenInv'
    <2>1. StopRecorded(j, NoRun) /\ UNCHANGED runs
      BY <1>12 DEF ReconcileSkipped
    <2>2. \A k \in Jobs : thread[k] \in Busy => thread'[k] \in Busy
      BY <2>1 DEF StopRecorded, Moves, TypeOK, JobTypeOK, Busy
    <2> QED
      BY <2>1, <2>2 DEF StopRecorded, OpenInv
  <1>13. ASSUME NEW j \in Jobs, RecordOverlap(j)
         PROVE  OpenInv'
    <2>1. overlap = NoAttempt /\ UNCHANGED <<daemon, thread, attempt>>
      BY <1>13 DEF RecordOverlap, jobVars
    <2>2. CASE UNCHANGED <<runs, overlap>>
      BY <2>1, <2>2 DEF OpenInv
    <2>3. CASE \E t \in 0 .. now : StoreRun(<<j, t, seq>>, t) /\ overlap' = <<j, t, seq>>
      <3>1. PICK t \in 0 .. now : StoreRun(<<j, t, seq>>, t) /\ overlap' = <<j, t, seq>>
        BY <2>3
      <3>2. \A a \in AttemptIds : a # <<j, t, seq>> => runs'[a] = runs[a]
        BY <3>1 DEF StoreRun, TypeOK, ProcTypeOK, Ids
      <3> QED
        BY <2>1, <3>1, <3>2, SchedulerAssumption DEF OpenInv
    <2> QED
      BY <1>13, <2>2, <2>3 DEF RecordOverlap
  <1>14. ASSUME Boot \/ Drain \/ Shutdown \/ Tick \/ UNCHANGED vars
         PROVE  OpenInv'
    <2>1. UNCHANGED <<runs, thread, attempt, overlap>>
      BY <1>14 DEF Boot, Drain, Shutdown, Tick, vars, storeVars, jobVars, mainVars
    <2>2. daemon' \in {"running", "stopping", "draining"} =>
            daemon \in {"running", "stopping", "draining"}
      BY <1>14 DEF Boot, Drain, Shutdown, Tick, vars, mainVars
    <2> QED
      BY <2>1, <2>2 DEF OpenInv
  <1>15. ASSUME Recover
         PROVE  OpenInv'
    <2>1. ~ClockMayStepBack => \A a \in AttemptIds : runs'[a].status # "RUNNING"
      <3> SUFFICES ASSUME ~ClockMayStepBack, NEW a \in AttemptIds, runs[a].status = "RUNNING"
                   PROVE  a \in Stale(now, TRUE)
        BY <1>15, RecoverRunsEffect DEF Recover, TypeOK, ProcTypeOK, RunsType, Ids
      <3> QED
        BY DEF ClockInv, Stale, Ids
    <2> QED
      BY <1>15, <2>1 DEF Recover, OpenInv
  <1>16. ASSUME Down
         PROVE  OpenInv'
    BY <1>16 DEF Down, storeVars, jobVars, mainVars, OpenInv
  <1>17. ASSUME FinishOverlap
         PROVE  OpenInv'
    <2>1. runs'[overlap].status = "FAILED" /\ overlap \in AttemptIds
      BY <1>17 DEF FinishOverlap, FinishRun, Finished, TypeOK, ProcTypeOK, MainTypeOK, Rows, Ids
    <2>2. \A a \in AttemptIds : a # overlap => runs'[a] = runs[a]
      BY <1>17 DEF FinishOverlap, FinishRun, TypeOK, ProcTypeOK, Ids
    <2> QED
      BY <1>17, <2>1, <2>2 DEF FinishOverlap, jobVars, OpenInv
  <1>18. ASSUME DaemonCrash
         PROVE  OpenInv'
    BY <1>18 DEF DaemonCrash, storeVars, jobVars, mainVars, OpenInv
  <1> QED
    BY <1>1, <1>2, <1>3, <1>4, <1>5, <1>6, <1>7, <1>8, <1>9, <1>10, <1>11,
        <1>12, <1>13, <1>14, <1>15, <1>16, <1>17, <1>18
    DEF Next, ProcStep, RunStep, JobStep, StopStep, MainStep

-----------------------------------------------------------------------------
(* The theorems. *)

LEMMA InitInv ==
  ASSUME Init
  PROVE  IInv
  <1> USE DEF Init, ProcInit
  <1>1. NoRow \in Rows /\ NoRow.status = "ABSENT" /\ ~NoRow.evidence
    BY BoundsAssumption DEF NoRow, Rows, Statuses, Errors, Time
  <1>2. NoReceipt \in Receipts /\ NoReceipt.status = "none"
    BY ReceiptRecords DEF NoReceipt, ReceiptStatuses
  <1>3. Verdict("none", NoRun) \in Verdicts /\ Verdict("none", NoRun).outcome = "none"
    BY VerdictRecords
  <1>4. ProcTypeOK
    BY <1>1, <1>2, BoundsAssumption DEF ProcTypeOK, Time
  <1>5. JobTypeOK
    BY <1>3, InterruptionRecords DEF JobTypeOK, Nothing, Threads
  <1>6. MainTypeOK
    BY BoundsAssumption, SchedulerAssumption DEF MainTypeOK
  <1>7. LockInv
    BY OwnersAssumption DEF LockInv, WriterHoldsLock, Locked
  <1>8. ChildInv /\ EndedInv /\ StopInv /\ QuietInv
    BY SchedulerAssumption DEF ChildInv, EndedInv, StopInv, QuietInv, Nothing
  <1>9. BudgetInv
    <2>1. Submitted = {}
      BY DEF Submitted, Nothing
    <2> QED
      BY <2>1, FS_EmptySet, BoundsAssumption DEF BudgetInv
  <1>10. AttemptInv /\ ExecutedRunStaysRunning /\ AttemptSurvives
    BY DEF AttemptInv, ExecutedRunStaysRunning, AttemptSurvives, Nothing, Busy
  <1>11. EvidenceIsAtomic
    BY <1>1 DEF EvidenceIsAtomic, Ids
  <1>12. ReceiptInv
    BY <1>2 DEF ReceiptInv, ReceiptTellsRow, SuccessOutcomes
  <1>13. VerdictInv
    BY <1>3 DEF VerdictInv, Nothing, SuccessOutcomes
  <1>14. SuccessIsBacked
    BY <1>1, <1>3 DEF SuccessIsBacked, Nothing, SuccessOutcomes, Ids
  <1>15. CauseInv
    BY DEF CauseInv, Nothing, NoInterruption, Interruption
  <1>15a. ReasonInv
    BY DEF ReasonInv, ReasonOf, Nothing, NoInterruption, Interruption
  <1>16. ClockInv
    BY <1>1, BoundsAssumption DEF ClockInv, NoRow
  <1>17. OpenInv
    BY DEF OpenInv
  <1> QED
    BY <1>4, <1>5, <1>6, <1>7, <1>8, <1>9, <1>10, <1>11, <1>12, <1>13, <1>14,
       <1>15, <1>15a, <1>16, <1>17
    DEF IInv, TypeOK

LEMMA StepInv ==
  ASSUME IInv, [Next]_vars
  PROVE  IInv'
  <1> USE DEF IInv
  <1>1. TypeOK'
    BY ProcTypeStep, JobTypeStep, MainTypeStep DEF TypeOK
  <1>2. LockInv' /\ ChildInv' /\ EndedInv' /\ StopInv' /\ QuietInv'
    BY LockStep, ChildStep, EndedStep, InterruptStep, QuietStep
  <1>3. BudgetInv' /\ AttemptInv'
    BY BudgetStep, AttemptStep
  <1>4. ExecutedRunStaysRunning' /\ AttemptSurvives'
    BY ExecutedStep, SurvivalStep
  <1>5. EvidenceIsAtomic' /\ ReceiptInv' /\ VerdictInv' /\ SuccessIsBacked'
    BY EvidenceStep, ReceiptStep, VerdictStep, BackedStep
  <1>6. CauseInv' /\ ReasonInv' /\ ClockInv' /\ OpenInv'
    BY CauseStep, ReasonStep, ClockStep, OpenStep
  <1> QED
    BY <1>1, <1>2, <1>3, <1>4, <1>5, <1>6

\* Every reachable state satisfies the inductive invariant, whatever the
\* interleaving of processes, threads, deaths, restarts and clock steps.
THEOREM Invariance == Spec => []IInv
  <1>1. Init => IInv
    BY InitInv
  <1>2. IInv /\ [Next]_vars => IInv'
    BY StepInv
  <1> QED
    BY <1>1, <1>2, PTL DEF Spec

\* Every variable keeps its type.
THEOREM TypeCorrect == Spec => []TypeOK
  <1>1. IInv => TypeOK
    BY DEF IInv
  <1> QED
    BY <1>1, Invariance, PTL

\* flock keeps two EngineRunner transactions apart.
THEOREM MutualExclusion == Spec => []WriterHoldsLock
  <1>1. IInv => WriterHoldsLock
    BY DEF IInv, LockInv
  <1> QED
    BY <1>1, Invariance, PTL

\* No recovery ends a run that a live process is executing.
THEOREM ExecutedRunIsSafe == Spec => []ExecutedRunStaysRunning
  <1>1. IInv => ExecutedRunStaysRunning
    BY DEF IInv
  <1> QED
    BY <1>1, Invariance, PTL

\* No recovery ends an attempt the living scheduler is working on.
THEOREM AttemptIsSafe == Spec => []AttemptSurvives
  <1>1. IInv => AttemptSurvives
    BY DEF IInv
  <1> QED
    BY <1>1, Invariance, PTL

\* Evidence exists exactly for the runs that succeeded.
THEOREM EvidenceIsSafe == Spec => []EvidenceIsAtomic
  <1>1. IInv => EvidenceIsAtomic
    BY DEF IInv
  <1> QED
    BY <1>1, Invariance, PTL

\* A receipt that names a run agrees with the row of that run for ever.
THEOREM ReceiptsAreTrue == Spec => []ReceiptTellsRow
  <1>1. IInv => ReceiptTellsRow
    BY DEF IInv, ReceiptInv
  <1> QED
    BY <1>1, Invariance, PTL

\* No attempt is stored as successful without a run that has evidence.
THEOREM SuccessesAreBacked == Spec => []SuccessIsBacked
  <1>1. IInv => SuccessIsBacked
    BY DEF IInv
  <1> QED
    BY <1>1, Invariance, PTL

\* Terminal rows are never rewritten, by whichever of the five writers.
THEOREM TerminalRowsStayFinal == Spec => TerminalRowsAreFinal
  <1> DEFINE Final == \A id \in Ids : runs[id].status \in Terminal => runs'[id] = runs[id]
  <1>1. IInv /\ [Next]_vars => [Final]_runs
    <2> SUFFICES ASSUME IInv, [Next]_vars PROVE Final
      OBVIOUS
    <2> QED
      BY FinalStep DEF IInv, FinalRows
  <1> QED
    BY <1>1, Invariance, PTL DEF Spec, TerminalRowsAreFinal

\* Nothing but recovery ends a recovery, and nothing but Down or a crash a drain.
LEMMA DaemonMoves ==
  ASSUME TypeOK, [Next]_vars, daemon' # daemon
  PROVE  \/ Boot \/ Recover \/ Shutdown \/ Drain \/ Down \/ DaemonCrash
         \/ \E j \in Jobs : StopOnShutdown(j)
  <1>1. \A p \in Procs : ~(ProcStep(p) \/ StartManual(p) \/ Reap(p) \/ Kill(p))
    BY DEF ProcStep, StartManual, Reap, Kill, mainVars
  <1>2. \A j \in Jobs : ~(\/ Fire(j) \/ StartAttempt(j) \/ StartAttemptRaises(j)
                          \/ Popen(j) \/ PopenRaises(j) \/ Register(j) \/ ChildEnds(j)
                          \/ Expire(j) \/ StopOnTimeout(j) \/ AlreadyStopped(j)
                          \/ ReadInterruption(j) \/ FinishAttempt(j))
    BY DEF Fire, StartAttempt, StartAttemptRaises, Popen, PopenRaises, Register,
           ChildEnds, Expire, StopOnTimeout, AlreadyStopped, ReadInterruption,
           FinishAttempt, EndsJob, mainVars
  <1>3. \A j \in Jobs : ~(\/ ReconcileBegins(j) \/ Reconcile(j) \/ ReconcileSkipped(j)
                          \/ RecordOverlap(j) \/ VisitOperation(j) \/ StopNotNeeded(j))
    BY DEF ReconcileBegins, Reconcile, ReconcileSkipped, StopRecorded, RecordOverlap,
           VisitOperation, StopNotNeeded, mainVars
  <1>4. ~(FinishOverlap \/ Tick \/ UNCHANGED vars)
    BY DEF FinishOverlap, Tick, vars, mainVars
  <1> QED
    BY <1>1, <1>2, <1>3, <1>4 DEF Next, JobStep, StopStep, MainStep

LEMMA RecoveringOnlyRecovers ==
  ASSUME TypeOK, [Next]_vars, daemon = "recovering", daemon' = "running"
  PROVE  Recover
  <1>1. daemon' # daemon
    OBVIOUS
  <1> QED
    BY <1>1, DaemonMoves DEF Boot, Shutdown, Drain, Down, DaemonCrash, StopOnShutdown

LEMMA DrainingGoesDown ==
  ASSUME TypeOK, [Next]_vars, daemon = "draining", daemon' = "down", faults' = faults
  PROVE  Down
  <1>1. daemon' # daemon
    OBVIOUS
  <1>2. faults + 1 # faults
    BY DEF TypeOK, MainTypeOK
  <1> QED
    BY <1>1, <1>2, DaemonMoves DEF Boot, Recover, Shutdown, Drain, DaemonCrash, StopOnShutdown

\* A stopped child is reported as timed out or shut down (or, while the scheduler
\* goes down, as failed), and nothing else is: the reason was recorded for the
\* thread's own child, which has ended.  (_interrupt, __call__)
THEOREM TimeoutIsNamed == Spec => []TimeoutNamesReason
  <1>1. IInv => TimeoutNamesReason
    <2> SUFFICES ASSUME IInv PROVE TimeoutNamesReason
      OBVIOUS
    <2>1. \A j \in Jobs : thread[j] \in {"waiting", "expired", "stopping"} =>
            interruption[j].reason # "MAXIMUM_RUNTIME"
      BY DEF IInv, ReasonInv, ReasonOf
    <2>2. ASSUME NEW j \in Jobs, thread[j] = "finishing", child[j] # NoProc,
                 pc[child[j]] = "terminated"
          PROVE  \/ verdict[j].outcome \in Interrupted
                 \/ verdict[j].outcome = "FAILED" /\ daemon \in {"stopping", "draining"}
      <3>1. verdict[j].outcome \in Interrupted \cup {"FAILED"}
        BY <2>2 DEF IInv, ReasonInv, ReasonOf
      <3>2. daemon = "running" => verdict[j].outcome = "MAXIMUM_RUNTIME"
        BY <2>2 DEF IInv, CauseInv
      <3>3. daemon \in {"running", "stopping", "draining"}
        BY <2>2 DEF IInv, QuietInv, TypeOK, MainTypeOK
      <3> QED
        BY <3>1, <3>2, <3>3 DEF Interrupted
    <2>3. ASSUME NEW j \in Jobs, thread[j] = "finishing", verdict[j].outcome \in Interrupted
          PROVE  /\ interruption[j].reason = verdict[j].outcome
                 /\ child[j] # NoProc /\ pc[child[j]] \in Ended
                 /\ verdict[j].outcome = "SCHEDULER_SHUTDOWN" => daemon \in {"stopping", "draining"}
      <3>1. interruption[j].reason = verdict[j].outcome /\ child[j] # NoProc
        BY <2>3 DEF IInv, ReasonInv, ReasonOf
      <3>2. pc[child[j]] \in Ended
        BY <2>3, <3>1 DEF IInv, EndedInv
      <3>3. daemon \notin {"stopping", "draining"} => interruption[j].reason # "SCHEDULER_SHUTDOWN"
        BY DEF IInv, CauseInv, TypeOK, MainTypeOK
      <3> QED
        BY <3>1, <3>2, <3>3
    <2> QED
      BY <2>1, <2>2, <2>3 DEF TimeoutNamesReason, Interrupted
  <1> QED
    BY <1>1, Invariance, PTL

\* While the clock never steps back, recovery at a restart leaves no row RUNNING.
\* (recover_running_runs)
THEOREM RestartIsClean ==
  ASSUME ~ClockMayStepBack
  PROVE  Spec => RestartLeavesNoStaleRow
  <1> DEFINE Clean == daemon = "recovering" /\ daemon' = "running" =>
                        \A id \in Ids : runs'[id].status # "RUNNING"
  <1>1. IInv /\ [Next]_vars => [Clean]_vars
    <2> SUFFICES ASSUME IInv, [Next]_vars, daemon = "recovering", daemon' = "running"
                 PROVE  \A id \in Ids : runs'[id].status # "RUNNING"
      BY DEF vars, mainVars
    <2>1. Recover
      BY RecoveringOnlyRecovers DEF IInv
    <2> SUFFICES ASSUME NEW id \in Ids, runs[id].status = "RUNNING"
                 PROVE  id \in Stale(now, TRUE)
      BY <2>1, RecoverRunsEffect DEF Recover, IInv, TypeOK, ProcTypeOK, RunsType
    <2> QED
      BY DEF IInv, ClockInv, Stale
  <1> QED
    BY <1>1, Invariance, PTL DEF Spec, RestartLeavesNoStaleRow

\* While the clock never steps back, a scheduler that goes down by itself has closed
\* every attempt, those of its predecessors included.  (_run_job, shutdown)
THEOREM GracefulExitIsClean ==
  ASSUME ~ClockMayStepBack
  PROVE  Spec => GracefulExitSettlesAttempts
  <1> DEFINE Settled == daemon = "draining" /\ daemon' = "down" /\ faults' = faults =>
                          \A a \in AttemptIds : runs'[a].status # "RUNNING"
  <1>1. IInv /\ [Next]_vars => [Settled]_vars
    <2> SUFFICES ASSUME IInv, [Next]_vars, daemon = "draining", daemon' = "down",
                        faults' = faults
                 PROVE  \A a \in AttemptIds : runs'[a].status # "RUNNING"
      BY DEF vars, mainVars, envVars
    <2>1. Down
      BY DrainingGoesDown DEF IInv
    <2> QED
      BY <2>1, SchedulerAssumption
      DEF Down, WorkersDone, storeVars, Busy, IInv, OpenInv
  <1> QED
    BY <1>1, Invariance, PTL DEF Spec, GracefulExitSettlesAttempts

-----------------------------------------------------------------------------
(* The refinement: for every number of jobs, processes, runs and faults,    *)
(* every step of Scheduler is a step of RunLifecycle or shows nothing.  The *)
(* steps fall into those that leave the table alone and hold no new row,    *)
(* those that open a row, those that complete one, and recovery.            *)

Phase == [id \in Ids |-> runs[id].status]
Evidence == {id \in Ids : runs[id].evidence}
Shown == [Lifecycle!Next]_Lifecycle!vars

\* Nobody holds a row he did not hold before.
HoldsNoMore ==
    /\ overlap' \in {overlap, NoAttempt}
    /\ \A p \in Procs : pc'[p] \in Executing => pc[p] \in Executing /\ runOf'[p] = runOf[p]
    /\ \A j \in Jobs : thread'[j] \in Busy => thread[j] \in Busy /\ attempt'[j] = attempt[j]

-----------------------------------------------------------------------------
(* Who holds what.                                                          *)

LEMMA Holders ==
    ASSUME NEW id
    PROVE  id \in HeldRows <=>
             \/ \E p \in Procs : pc[p] \in Executing /\ id = runOf[p]
             \/ \E j \in Jobs : thread[j] \in Busy /\ id = attempt[j]
             \/ overlap # NoAttempt /\ id = overlap
BY DEF HeldRows, Executing

LEMMA HoldersAfter ==
    ASSUME NEW id
    PROVE  id \in HeldRows' <=>
             \/ \E p \in Procs : pc'[p] \in Executing /\ id = runOf'[p]
             \/ \E j \in Jobs : thread'[j] \in Busy /\ id = attempt'[j]
             \/ overlap' # NoAttempt /\ id = overlap'
BY DEF HeldRows, Executing

\* A process holds the row of its run, threads and events those of attempts.
LEMMA HeldAreRows ==
    ASSUME IInv
    PROVE  /\ HeldRows \subseteq Ids
           /\ \A p \in Procs : pc[p] \in Executing => runOf[p] \in RunIds
           /\ \A j \in Jobs : thread[j] \in Busy => attempt[j] \in AttemptIds
           /\ overlap # NoAttempt => overlap \in AttemptIds
<1>1. \A p \in Procs : pc[p] \in Executing => runOf[p] \in RunIds
  BY DEF IInv, ExecutedRunStaysRunning, Executing
<1>2. \A j \in Jobs : thread[j] \in Busy => attempt[j] \in AttemptIds
  BY DEF IInv, AttemptInv
<1>3. overlap # NoAttempt => overlap \in AttemptIds
  BY DEF IInv, TypeOK, MainTypeOK
<1>4. ASSUME NEW id \in HeldRows PROVE id \in Ids
  BY <1>1, <1>2, <1>3, Holders DEF Ids
<1>5. QED BY <1>1, <1>2, <1>3, <1>4

\* At most one process executes a run, and only while it owns the lock.
LEMMA OneExecutes ==
    ASSUME IInv, NEW p \in Procs, pc[p] \in Executing
    PROVE  lock = p
BY DEF IInv, LockInv, WriterHoldsLock, Executing, Locked

-----------------------------------------------------------------------------
(* Steps of the abstract specification.                                     *)

LEMMA LeavingShows ==
    ASSUME IInv, runs' = runs, HoldsNoMore
    PROVE  Shown
<1> DEFINE ids == HeldRows \ HeldRows'
<1>1. ids \in SUBSET Lifecycle!Rows
  BY HeldAreRows DEF Lifecycle!Rows, Ids
<1>2. ASSUME NEW id \in HeldRows' PROVE id \in HeldRows
  BY <1>2, Holders, HoldersAfter DEF HoldsNoMore
<1>3. HeldRows' = HeldRows \ ids
  BY <1>2
<1>4. Lifecycle!Abandon(ids)
  BY <1>3 DEF Lifecycle!Abandon
<1>5. QED BY <1>1, <1>4 DEF Shown, Lifecycle!Next

LEMMA OpeningShows ==
    ASSUME IInv, NEW id \in Ids, NEW t \in Time, StoreRun(id, t),
           id \notin HeldRows, HeldRows' = HeldRows \cup {id}
    PROVE  Shown
<1>1. /\ runs \in [Ids -> Rows]
      /\ runs[id] \in {NoRow, RunningRow(t)}
      /\ runs' = [runs EXCEPT ![id] = RunningRow(t)]
  BY DEF IInv, TypeOK, ProcTypeOK, StoreRun, CanStore
<1>2. /\ RunningRow(t).status = "RUNNING" /\ RunningRow(t).evidence = FALSE
      /\ NoRow.status = "ABSENT" /\ NoRow.evidence = FALSE
  BY DEF RunningRow, NoRow
<1>3. Phase[id] \in {"ABSENT", "RUNNING"}
  BY <1>1, <1>2 DEF Phase
<1>4. Phase' = [Phase EXCEPT ![id] = "RUNNING"]
  BY <1>1, <1>2 DEF Phase
<1>5. Evidence' = Evidence
  BY <1>1, <1>2 DEF Evidence
<1>6. Lifecycle!Open(id)
  BY <1>3, <1>4, <1>5 DEF Lifecycle!Open, Phase, Evidence
<1>7. QED BY <1>6 DEF Shown, Lifecycle!Next, Lifecycle!Rows, Ids

\* The holder of a row that is RUNNING fails it.
LEMMA FailingShows ==
    ASSUME IInv, NEW id \in HeldRows, NEW t, NEW error, NEW outcome,
           runs[id].status = "RUNNING", FinishRun(id, "FAILED", t, error, outcome),
           HeldRows' = HeldRows \ {id}
    PROVE  Shown
<1>1. id \in Ids /\ runs \in [Ids -> Rows]
  BY HeldAreRows DEF IInv, TypeOK, ProcTypeOK
<1>2. runs' = [runs EXCEPT ![id] = Finished(@, "FAILED", t, error, outcome)]
  BY DEF FinishRun
<1>3. /\ Finished(runs[id], "FAILED", t, error, outcome).status = "FAILED"
      /\ Finished(runs[id], "FAILED", t, error, outcome).evidence = runs[id].evidence
  BY <1>1 DEF Finished, Rows
<1>4. Phase' = [Phase EXCEPT ![id] = "FAILED"]
  BY <1>1, <1>2, <1>3 DEF Phase
<1>5. Evidence' = Evidence
  BY <1>1, <1>2, <1>3 DEF Evidence
<1>6. Phase[id] = "RUNNING"
  BY <1>1 DEF Phase
<1>7. Lifecycle!Fail(id)
  BY <1>4, <1>5, <1>6 DEF Lifecycle!Fail, Phase, Evidence
<1>8. QED BY <1>1, <1>7 DEF Shown, Lifecycle!Next, Lifecycle!Rows, Ids

\* The attempt of a thread succeeds without evidence of its own.
LEMMA AttemptSucceedingShows ==
    ASSUME IInv, NEW id \in HeldRows, id \in AttemptIds, NEW t, NEW error, NEW outcome,
           runs[id].status = "RUNNING", FinishRun(id, "SUCCEEDED", t, error, outcome),
           HeldRows' = HeldRows \ {id}
    PROVE  Shown
<1>1. id \in Ids /\ id \notin RunIds /\ runs \in [Ids -> Rows]
  BY HeldAreRows, IdentityAssumption DEF IInv, TypeOK, ProcTypeOK
<1>2. runs' = [runs EXCEPT ![id] = Finished(@, "SUCCEEDED", t, error, outcome)]
  BY DEF FinishRun
<1>3. /\ Finished(runs[id], "SUCCEEDED", t, error, outcome).status = "SUCCEEDED"
      /\ Finished(runs[id], "SUCCEEDED", t, error, outcome).evidence = runs[id].evidence
  BY <1>1 DEF Finished, Rows
<1>4. Phase' = [Phase EXCEPT ![id] = "SUCCEEDED"]
  BY <1>1, <1>2, <1>3 DEF Phase
<1>5. Evidence' = Evidence
  BY <1>1, <1>2, <1>3 DEF Evidence
<1>6. Phase[id] = "RUNNING"
  BY <1>1 DEF Phase
<1>7. Lifecycle!Succeed(id)
  BY <1>1, <1>4, <1>5, <1>6 DEF Lifecycle!Succeed, Phase, Evidence
<1>8. QED BY <1>1, <1>7 DEF Shown, Lifecycle!Next, Lifecycle!Rows, Ids

\* Evidence and success come in one step.
LEMMA CommittingShows ==
    ASSUME IInv, NEW id \in HeldRows, id \in RunIds, NEW t, CommitRun(id, t),
           HeldRows' = HeldRows \ {id}
    PROVE  Shown
<1>1. id \in Ids /\ runs \in [Ids -> Rows]
  BY HeldAreRows DEF IInv, TypeOK, ProcTypeOK
<1> DEFINE row == [runs[id] EXCEPT !.status = "SUCCEEDED", !.completed = t, !.evidence = TRUE]
<1>2. runs' = [runs EXCEPT ![id] = row] /\ runs[id].status = "RUNNING"
  BY DEF CommitRun, CanCommit
<1>3. row.status = "SUCCEEDED" /\ row.evidence = TRUE
  BY <1>1 DEF Rows
<1> HIDE DEF row
<1>4. Phase' = [Phase EXCEPT ![id] = "SUCCEEDED"]
  BY <1>1, <1>2, <1>3 DEF Phase
<1>5. Evidence' = Evidence \cup {id}
  BY <1>1, <1>2, <1>3 DEF Evidence
<1>6. Phase[id] = "RUNNING"
  BY <1>1, <1>2 DEF Phase
<1>7. Lifecycle!Succeed(id)
  BY <1>4, <1>5, <1>6 DEF Lifecycle!Succeed, Phase, Evidence
<1>8. QED BY <1>1, <1>7 DEF Shown, Lifecycle!Next, Lifecycle!Rows, Ids

\* Recovery fails rows nobody holds.
LEMMA RecoveringShows ==
    ASSUME IInv, NEW reason, NEW attempts \in BOOLEAN, RecoverRuns(now, reason, attempts),
           \A id \in Stale(now, attempts) : id \notin HeldRows, HeldRows' = HeldRows
    PROVE  Shown
<1> DEFINE ids == Stale(now, attempts)
<1>1. runs \in [Ids -> Rows] /\ ids \subseteq Ids
  BY DEF IInv, TypeOK, ProcTypeOK, Stale
<1>2. \A id \in Ids :
        /\ id \notin ids => runs'[id] = runs[id]
        /\ id \in ids => /\ runs[id].status = "RUNNING"
                         /\ runs'[id].status = "FAILED"
                         /\ runs'[id].evidence = runs[id].evidence
  BY <1>1, RecoverRunsEffect DEF RunsType
<1> HIDE DEF ids
<1>3. Phase' = [id \in Ids |-> IF id \in ids THEN "FAILED" ELSE Phase[id]]
  BY <1>2 DEF Phase
<1>4. Evidence' = Evidence
  BY <1>2 DEF Evidence
<1>5. \A id \in ids : id \notin HeldRows /\ Phase[id] = "RUNNING"
  BY <1>1, <1>2 DEF Phase, ids
<1>6. Lifecycle!Recover(ids)
  BY <1>3, <1>4, <1>5 DEF Lifecycle!Recover, Lifecycle!Rows, Phase, Evidence, Ids
<1>7. ids \in SUBSET Lifecycle!Rows
  BY <1>1 DEF Lifecycle!Rows, Ids, ids
<1>8. QED BY <1>6, <1>7 DEF Shown, Lifecycle!Next, Lifecycle!Recover

-----------------------------------------------------------------------------
(* The steps of the system.                                                 *)

\* A process: it opens the row of its run, commits it or fails it.
LEMMA ProcessShows ==
    ASSUME IInv, NEW p \in Procs, ProcStep(p)
    PROVE  Shown
<1> USE DEF ProcStep, jobVars, mainVars
<1>1. CASE OpenRun(p)
  <2>1. PICK r \in RunIds : StoreRun(r, startedAt[p]) /\ runOf' = [runOf EXCEPT ![p] = r]
    BY <1>1 DEF OpenRun
  <2>2. r \in Ids /\ startedAt[p] \in Time
    BY DEF Ids, IInv, TypeOK, ProcTypeOK
  <2>3. \A q \in Procs : pc[q] \notin Executing
    BY <1>1 DEF OpenRun, IInv, LockInv, WriterHoldsLock, Executing, Locked
  <2>4. \A q \in Procs : pc'[q] \in Executing <=> q = p
    BY <1>1, <2>3 DEF OpenRun, IInv, TypeOK, ProcTypeOK, Executing
  <2>5. runOf'[p] = r
    BY <2>1 DEF IInv, TypeOK, ProcTypeOK
  <2>6. r \notin HeldRows
    BY <2>3, HeldAreRows, Holders, IdentityAssumption
  <2>7. ASSUME NEW id PROVE id \in HeldRows' <=> id \in HeldRows \/ id = r
    BY <1>1, <2>3, <2>4, <2>5, Holders, HoldersAfter
  <2>8. HeldRows' = HeldRows \cup {r}
    BY <2>7
  <2>9. QED BY <2>1, <2>2, <2>6, <2>8, OpeningShows
<1>2. ASSUME pc[p] \in Executing, pc'[p] \notin Executing,
             \A q \in Procs \ {p} : pc'[q] = pc[q], runOf' = runOf
      PROVE  runOf[p] \in HeldRows /\ HeldRows' = HeldRows \ {runOf[p]}
  <2>1. \A q \in Procs : pc[q] \in Executing <=> q = p
    BY <1>2, OneExecutes
  <2>2. \A q \in Procs : pc'[q] \notin Executing
    BY <1>2, <2>1
  <2>3. runOf[p] \in HeldRows
    BY <1>2, Holders
  <2>4. ASSUME NEW id PROVE id \in HeldRows' <=> id \in HeldRows /\ id # runOf[p]
    BY <1>2, <2>1, <2>2, Holders, HoldersAfter, HeldAreRows, IdentityAssumption
  <2>5. QED BY <2>3, <2>4
<1>3. CASE CommitSucceeds(p)
  <2>1. CommitRun(runOf[p], now) /\ runOf[p] \in RunIds
    BY <1>3, HeldAreRows DEF CommitSucceeds, Executing
  <2>2. runOf[p] \in HeldRows /\ HeldRows' = HeldRows \ {runOf[p]}
    BY <1>2, <1>3 DEF CommitSucceeds, Executing, IInv, TypeOK, ProcTypeOK
  <2>3. QED BY <2>1, <2>2, CommittingShows
<1>4. CASE MarkFailed(p)
  <2>1. FinishRun(runOf[p], "FAILED", now, "RUN_ERROR", "none")
    BY <1>4 DEF MarkFailed
  <2>2. runs[runOf[p]].status = "RUNNING"
    BY <1>4 DEF MarkFailed, IInv, ExecutedRunStaysRunning
  <2>3. runOf[p] \in HeldRows /\ HeldRows' = HeldRows \ {runOf[p]}
    BY <1>2, <1>4 DEF MarkFailed, Executing, IInv, TypeOK, ProcTypeOK
  <2>4. QED BY <2>1, <2>2, <2>3, FailingShows
<1>5. CASE \/ EnterFails(p) \/ Enter(p) \/ Acquire(p) \/ SkipOverlap(p)
           \/ RunAborts(p) \/ AnalysisFails(p) \/ MarkFailedRaises(p)
           \/ Notified(p) \/ Exit(p)
  <2>1. runs' = runs /\ runOf' = runOf
    BY <1>5 DEF EnterFails, Enter, Acquire, SkipOverlap, RunAborts, AnalysisFails,
       MarkFailedRaises, Notified, Exit
  <2>2. \A q \in Procs : pc'[q] \in Executing => pc[q] \in Executing
    BY <1>5 DEF EnterFails, Enter, Acquire, SkipOverlap, RunAborts, AnalysisFails,
       MarkFailedRaises, Notified, Exit, Leave, Executing, IInv, TypeOK, ProcTypeOK
  <2>3. HoldsNoMore
    BY <2>1, <2>2 DEF HoldsNoMore
  <2>4. QED BY <2>1, <2>3, LeavingShows
<1>6. QED BY <1>1, <1>3, <1>4, <1>5 DEF RunStep

\* A process begins, ends or dies outside a transaction.
LEMMA OutsideShows ==
    ASSUME IInv, NEW p \in Procs, StartManual(p) \/ Reap(p) \/ Kill(p)
    PROVE  Shown
<1>1. runs' = runs /\ UNCHANGED <<jobVars, mainVars>>
  BY DEF StartManual, Reap, Kill, storeVars
<1>2. \A q \in Procs : pc'[q] \in Executing => pc[q] \in Executing /\ runOf'[q] = runOf[q]
  BY DEF StartManual, Spawn, Reap, Vacate, Kill, Dies, Executing, IInv, TypeOK, ProcTypeOK
<1>3. HoldsNoMore
  BY <1>1, <1>2 DEF HoldsNoMore, jobVars, mainVars
<1>4. QED BY <1>1, <1>3, LeavingShows

\* A worker thread opens its attempt under a number nobody else has.
LEMMA StartAttemptShows ==
    ASSUME IInv, NEW j \in Jobs, StartAttempt(j)
    PROVE  Shown
<1> DEFINE id == <<j, now, seq>>
<1>1. /\ StoreRun(id, now)
      /\ attempt' = [attempt EXCEPT ![j] = id]
      /\ thread' = [thread EXCEPT ![j] = "attempted"]
      /\ UNCHANGED <<pc, runOf, overlap>>
  BY DEF StartAttempt, Moves, procVars
<1>2. seq \in Int /\ now \in Time
  BY BoundsAssumption DEF IInv, TypeOK, ProcTypeOK, MainTypeOK
<1>3. id \in AttemptIds /\ id[3] = seq
  <2>1. thread[j] = "submitted"
    BY DEF StartAttempt
  <2>2. QED BY <2>1, SubmittedHasNumber DEF IInv
<1> HIDE DEF id
<1>4. id \notin RunIds /\ id \in Ids
  BY <1>3, IdentityAssumption DEF Ids
<1>5. /\ \A k \in Jobs : thread[k] \in Busy => attempt[k] # id
      /\ overlap # NoAttempt => overlap # id
  <2>1. \A x \in AttemptIds : x[3] \in Int
    BY BoundsAssumption DEF AttemptIds, Sequences
  <2>2. QED BY <1>2, <1>3, <2>1, HeldAreRows DEF IInv, AttemptInv
<1>6. id \notin HeldRows
  BY <1>4, <1>5, Holders, HeldAreRows
<1>7. /\ \A k \in Jobs : thread'[k] \in Busy <=> thread[k] \in Busy \/ k = j
      /\ attempt'[j] = id /\ \A k \in Jobs \ {j} : attempt'[k] = attempt[k]
      /\ thread[j] \notin Busy
  BY <1>1 DEF StartAttempt, Busy, IInv, TypeOK, JobTypeOK
<1>8. ASSUME NEW x PROVE x \in HeldRows' <=> x \in HeldRows \/ x = id
  BY <1>1, <1>7, Holders, HoldersAfter
<1>9. HeldRows' = HeldRows \cup {id}
  BY <1>8
<1>10. QED BY <1>1, <1>2, <1>4, <1>6, <1>9, OpeningShows

\* An overlap event opens its attempt in the same way.
LEMMA RecordOverlapShows ==
    ASSUME IInv, NEW j \in Jobs, RecordOverlap(j)
    PROVE  Shown
<1>1. overlap = NoAttempt /\ UNCHANGED <<pc, runOf, thread, attempt>>
  BY DEF RecordOverlap, procVars, jobVars
<1>2. PICK t \in 0 .. now :
        \/ StoreRun(<<j, t, seq>>, t) /\ overlap' = <<j, t, seq>>
        \/ UNCHANGED <<runs, overlap>>
  BY DEF RecordOverlap
<1>3. CASE UNCHANGED <<runs, overlap>>
  <2>1. HoldsNoMore
    BY <1>1, <1>3 DEF HoldsNoMore
  <2>2. QED BY <1>3, <2>1, LeavingShows
<1>4. CASE StoreRun(<<j, t, seq>>, t) /\ overlap' = <<j, t, seq>>
  <2> DEFINE id == <<j, t, seq>>
  <2>1. seq \in Int
    BY BoundsAssumption DEF IInv, TypeOK, MainTypeOK
  <2>2. t \in Time /\ id \in AttemptIds /\ id[3] = seq
    <3>1. Budgeted
      BY DEF RecordOverlap
    <3>2. QED BY <3>1, OverlapHasNumber DEF IInv
  <2>3. StoreRun(id, t) /\ overlap' = id
    BY <1>4
  <2> HIDE DEF id
  <2>4. id \notin RunIds /\ id \in Ids /\ id # NoAttempt
    BY <2>2, IdentityAssumption, SchedulerAssumption DEF Ids
  <2>5. \A k \in Jobs : thread[k] \in Busy => attempt[k] # id
    <3>1. \A x \in AttemptIds : x[3] \in Int
      BY BoundsAssumption DEF AttemptIds, Sequences
    <3>2. QED BY <2>1, <2>2, <3>1, HeldAreRows DEF IInv, AttemptInv
  <2>6. id \notin HeldRows
    BY <1>1, <2>4, <2>5, Holders, HeldAreRows
  <2>7. ASSUME NEW x PROVE x \in HeldRows' <=> x \in HeldRows \/ x = id
    BY <1>1, <2>3, <2>4, Holders, HoldersAfter
  <2>8. HeldRows' = HeldRows \cup {id}
    BY <2>7
  <2>9. QED BY <2>2, <2>3, <2>4, <2>6, <2>8, OpeningShows
<1>5. QED BY <1>2, <1>3, <1>4

\* The end of _run_job completes the attempt its thread holds.
LEMMA FinishAttemptShows ==
    ASSUME IInv, NEW j \in Jobs, FinishAttempt(j)
    PROVE  Shown
<1> DEFINE id == attempt[j]
           o == verdict[j].outcome
<1>1. FinishRun(id, AttemptStatus(o), AttemptEnd(j), AttemptError(o), o)
  BY DEF FinishAttempt
<1>2. thread[j] \in Busy /\ runs[id].status = "RUNNING"
  BY DEF FinishAttempt, EndsJob, Busy, IInv, AttemptSurvives
<1>3. /\ \A k \in Jobs : thread'[k] = IF k = j THEN "idle" ELSE thread[k]
      /\ \A k \in Jobs \ {j} : attempt'[k] = attempt[k]
      /\ overlap' = overlap
  BY DEF FinishAttempt, EndsJob, Moves, mainVars, IInv, TypeOK, JobTypeOK
<1>4. \A q \in Procs : (pc'[q] \in Executing <=> pc[q] \in Executing)
                       /\ (pc[q] \in Executing => runOf'[q] = runOf[q])
  <2>1. CASE child[j] = NoProc
    BY <2>1 DEF FinishAttempt, EndsJob, procVars
  <2>2. CASE child[j] # NoProc
    <3>1. child[j] \in Procs /\ pc[child[j]] \in Ended
      BY <2>2 DEF FinishAttempt, EndsJob, IInv, EndedInv, TypeOK, JobTypeOK
    <3>2. Vacate(child[j])
      BY <2>2 DEF FinishAttempt, EndsJob
    <3>3. QED BY <3>1, <3>2 DEF Vacate, Ended, Executing, IInv, TypeOK, ProcTypeOK
  <2>3. QED BY <2>1, <2>2
<1>5. /\ \A k \in Jobs : thread[k] \in Busy /\ k # j => attempt[k] # id
      /\ overlap # id
      /\ id \in AttemptIds /\ id \notin RunIds
  BY <1>2, IdentityAssumption DEF IInv, AttemptInv
<1>6. id \in HeldRows
  BY <1>2, Holders
<1>7. \A k \in Jobs : thread'[k] \in Busy <=> thread[k] \in Busy /\ k # j
  BY <1>3 DEF Busy
<1> HIDE DEF id, o
<1>8. ASSUME NEW x PROVE x \in HeldRows' <=> x \in HeldRows /\ x # id
  <2>1. \A q \in Procs : pc[q] \in Executing => runOf[q] # id
    BY <1>5, HeldAreRows
  <2>2. \A k \in Jobs : thread[k] \in Busy /\ attempt[k] = id => k = j
    BY <1>5
  <2>3. attempt[j] = id
    BY DEF id
  <2>4. QED BY <1>3, <1>4, <1>5, <1>7, <2>1, <2>2, <2>3, Holders, HoldersAfter
<1>9. HeldRows' = HeldRows \ {id}
  BY <1>8
<1>10. AttemptStatus(o) \in {"SUCCEEDED", "FAILED"}
  BY DEF AttemptStatus
<1>11. QED BY <1>1, <1>2, <1>5, <1>6, <1>9, <1>10, AttemptSucceedingShows, FailingShows

LEMMA FinishOverlapShows ==
    ASSUME IInv, FinishOverlap
    PROVE  Shown
<1>1. /\ overlap # NoAttempt /\ overlap' = NoAttempt
      /\ FinishRun(overlap, "FAILED", Later(overlap[2]), "OVERLAP_SKIPPED", "OVERLAP_SKIPPED")
      /\ UNCHANGED <<pc, runOf, thread, attempt>>
  BY DEF FinishOverlap, procVars, jobVars
<1>2. runs[overlap].status = "RUNNING"
  BY <1>1 DEF IInv, AttemptSurvives
<1>3. overlap \in HeldRows
  BY <1>1, Holders
<1>4. /\ \A q \in Procs : pc[q] \in Executing => runOf[q] # overlap
      /\ \A k \in Jobs : thread[k] \in Busy => attempt[k] # overlap
  BY <1>1, HeldAreRows, IdentityAssumption DEF IInv, AttemptInv
<1>5. ASSUME NEW x PROVE x \in HeldRows' <=> x \in HeldRows /\ x # overlap
  BY <1>1, <1>4, Holders, HoldersAfter
<1>6. HeldRows' = HeldRows \ {overlap}
  BY <1>5
<1>7. QED BY <1>1, <1>2, <1>3, <1>6, FailingShows

\* Reconciliation fails runs while nobody can execute one, and no attempts.
LEMMA ReconcileShows ==
    ASSUME IInv, NEW j \in Jobs, Reconcile(j)
    PROVE  Shown
<1>1. /\ lock = j /\ RecoverRuns(now, Reason(j), FALSE)
      /\ Stale(now, FALSE) \subseteq RunIds
  BY ReconcileShape
<1>2. PICK run : StopRecorded(j, run)
  BY ReconcileShape
<1>3. \A p \in Procs : pc[p] \notin Executing
  BY <1>1, OwnersAssumption, OneExecutes
<1>4. \A id \in Stale(now, FALSE) : id \notin HeldRows
  BY <1>1, <1>3, Holders, HeldAreRows, IdentityAssumption
<1>5. UNCHANGED <<pc, runOf, attempt, overlap>>
  BY <1>2 DEF StopRecorded, procVars
<1>6. \A k \in Jobs : thread'[k] \in Busy <=> thread[k] \in Busy
  <2>1. CASE stopBy[j] = "timeout"
    <3>1. thread[j] \in Busy
      BY <2>1 DEF IInv, StopInv, Busy
    <3>2. QED BY <1>2, <2>1, <3>1 DEF StopRecorded, Moves, Busy, IInv, TypeOK, JobTypeOK
  <2>2. CASE stopBy[j] # "timeout"
    BY <1>2, <2>2 DEF StopRecorded
  <2>3. QED BY <2>1, <2>2
<1>7. ASSUME NEW x PROVE x \in HeldRows' <=> x \in HeldRows
  BY <1>5, <1>6, Holders, HoldersAfter
<1>8. HeldRows' = HeldRows
  BY <1>7
<1>9. QED BY <1>1, <1>4, <1>8, RecoveringShows

\* Startup recovery fails attempts too: no thread of this daemon has one yet.
LEMMA RecoverShows ==
    ASSUME IInv, Recover
    PROVE  Shown
<1>1. /\ RecoverRuns(now, "PROCESS_RESTART", TRUE)
      /\ UNCHANGED <<pc, runOf, thread, attempt, overlap>>
  BY DEF Recover, procVars, jobVars
<1>2. lock = Daemon
  BY DEF Recover, IInv, LockInv
<1>3. \A p \in Procs : pc[p] \notin Executing
  BY <1>2, OwnersAssumption, OneExecutes
<1>4. overlap = NoAttempt /\ \A k \in Jobs : thread[k] \notin Busy
  BY DEF Recover, IInv, QuietInv, Busy
<1>5. ASSUME NEW x PROVE x \notin HeldRows /\ x \notin HeldRows'
  BY <1>1, <1>3, <1>4, Holders, HoldersAfter
<1>6. HeldRows' = HeldRows
  BY <1>5
<1>7. QED BY <1>1, <1>5, <1>6, RecoveringShows

\* The other steps of a worker thread and of shutdown leave the table alone.
LEMMA ThreadShows ==
    ASSUME IInv, NEW j \in Jobs,
           \/ Fire(j) \/ StartAttemptRaises(j) \/ Popen(j) \/ PopenRaises(j)
           \/ Register(j) \/ ChildEnds(j) \/ Expire(j) \/ StopOnTimeout(j)
           \/ AlreadyStopped(j) \/ ReadInterruption(j)
           \/ ReconcileBegins(j) \/ ReconcileSkipped(j)
           \/ VisitOperation(j) \/ StopOnShutdown(j) \/ StopNotNeeded(j)
    PROVE  Shown
<1>1. runs' = runs /\ UNCHANGED <<runOf, attempt, overlap>>
  BY DEF Fire, StartAttemptRaises, Popen, PopenRaises, Register, ChildEnds, Expire,
     StopOnTimeout, AlreadyStopped, ReadInterruption, ReconcileBegins,
     ReconcileSkipped, StopRecorded, VisitOperation, StopOnShutdown, StopNotNeeded,
     storeVars, procVars, jobVars, mainVars
<1>2. \A q \in Procs : pc'[q] \in Executing => pc[q] \in Executing
  <2>1. CASE Popen(j)
    BY <2>1 DEF Popen, Spawn, Executing, IInv, TypeOK, ProcTypeOK
  <2>2. CASE StopOnTimeout(j) \/ StopOnShutdown(j)
    BY <2>2 DEF StopOnTimeout, StopOnShutdown, StopChild, Dies, Executing, IInv,
       TypeOK, ProcTypeOK
  <2>3. CASE pc' = pc
    BY <2>3
  <2>4. QED BY <2>1, <2>2, <2>3 DEF Fire, StartAttemptRaises, PopenRaises, Register,
     ChildEnds, Expire, AlreadyStopped, ReadInterruption, ReconcileBegins,
     ReconcileSkipped, StopRecorded, VisitOperation, StopNotNeeded, procVars
<1>3. \A k \in Jobs : thread'[k] \in Busy => thread[k] \in Busy
  <2>1. CASE \/ Fire(j) \/ StartAttemptRaises(j) \/ Popen(j) \/ PopenRaises(j)
             \/ Register(j) \/ ChildEnds(j) \/ Expire(j) \/ StopOnTimeout(j)
             \/ AlreadyStopped(j) \/ ReadInterruption(j)
    BY <2>1 DEF Fire, StartAttemptRaises, Popen, PopenRaises, Register, ChildEnds,
       Expire, StopOnTimeout, AlreadyStopped, ReadInterruption, Moves, Busy, IInv,
       TypeOK, JobTypeOK
  <2>2. CASE ReconcileSkipped(j)
    BY <2>2 DEF ReconcileSkipped, StopRecorded, Moves, Busy, IInv, StopInv, TypeOK,
       JobTypeOK
  <2>3. CASE StopOnShutdown(j)
    BY <2>3 DEF StopOnShutdown, Moves, Busy, IInv, TypeOK, JobTypeOK
  <2>4. CASE ReconcileBegins(j) \/ VisitOperation(j) \/ StopNotNeeded(j)
    BY <2>4 DEF ReconcileBegins, VisitOperation, StopNotNeeded, jobVars
  <2>5. QED BY <2>1, <2>2, <2>3, <2>4
<1>4. HoldsNoMore
  BY <1>1, <1>2, <1>3 DEF HoldsNoMore
<1>5. QED BY <1>1, <1>4, LeavingShows

\* So do the other steps of the main thread, its death and the clock.
LEMMA DaemonShows ==
    ASSUME IInv, Boot \/ Drain \/ Down \/ Shutdown \/ DaemonCrash \/ Tick \/ UNCHANGED vars
    PROVE  Shown
<1>1. runs' = runs /\ UNCHANGED <<pc, runOf>> /\ overlap' \in {overlap, NoAttempt}
  BY DEF Boot, Drain, Down, Shutdown, DaemonCrash, Tick, vars, storeVars, procVars,
     mainVars
<1>2. CASE DaemonCrash
  <2>1. \A k \in Jobs : thread'[k] \notin Busy
    BY <1>2 DEF DaemonCrash, Nothing, Busy
  <2>2. HoldsNoMore
    BY <1>1, <2>1 DEF HoldsNoMore
  <2>3. QED BY <1>1, <2>2, LeavingShows
<1>3. CASE ~DaemonCrash
  <2>1. UNCHANGED <<thread, attempt>>
    BY <1>3 DEF Boot, Drain, Down, Shutdown, Tick, vars, jobVars
  <2>2. HoldsNoMore
    BY <1>1, <2>1 DEF HoldsNoMore
  <2>3. QED BY <1>1, <2>2, LeavingShows
<1>4. QED BY <1>2, <1>3

LEMMA StepShows == IInv /\ [Next]_vars => Shown
<1> SUFFICES ASSUME IInv, [Next]_vars PROVE Shown
  OBVIOUS
<1>1. ASSUME NEW p \in Procs, ProcStep(p) \/ StartManual(p) \/ Reap(p) \/ Kill(p)
      PROVE  Shown
  BY <1>1, ProcessShows, OutsideShows
<1>2. ASSUME NEW j \in Jobs, Fire(j) \/ JobStep(j) \/ StopStep(j) \/ RecordOverlap(j)
      PROVE  Shown
  BY <1>2, ThreadShows, StartAttemptShows, FinishAttemptShows, ReconcileShows,
     RecordOverlapShows DEF JobStep, StopStep
<1>3. CASE MainStep
  BY <1>3, DaemonShows, RecoverShows, FinishOverlapShows, ThreadShows DEF MainStep
<1>4. CASE Shutdown \/ DaemonCrash \/ Tick \/ UNCHANGED vars
  BY <1>4, DaemonShows
<1>5. QED BY <1>1, <1>2, <1>3, <1>4 DEF Next

\* In the beginning there is no row, no evidence and nobody at work.
LEMMA InitShows == Init => Lifecycle!Init
<1> SUFFICES ASSUME Init PROVE Lifecycle!Init
  OBVIOUS
<1>1. /\ runs = [id \in Ids |-> NoRow]
      /\ \A p \in Procs : pc[p] \notin Executing
      /\ \A j \in Jobs : thread[j] \notin Busy
      /\ overlap = NoAttempt
  BY DEF Init, ProcInit, Nothing, Executing, Busy
<1>2. \A id \in Ids : runs[id].status = "ABSENT" /\ runs[id].evidence = FALSE
  BY <1>1 DEF NoRow
<1>3. HeldRows = {}
  BY <1>1, Holders
<1>4. Phase = [id \in Ids |-> "ABSENT"] /\ Evidence = {}
  BY <1>2 DEF Phase, Evidence
<1>5. QED BY <1>3, <1>4 DEF Lifecycle!Init, Lifecycle!Rows, Ids, Phase, Evidence

-----------------------------------------------------------------------------
\* The system implements RunLifecycle: whatever processes, threads, deaths, restarts
\* and clocks do, a row is opened by one party, completed by that party alone, given
\* evidence with its success, and failed by recovery only when nobody holds it.
\* (store_run, commit_run, finish_run, recover_running_runs)
THEOREM LifecycleIsKept == Spec => ImplementsLifecycle
<1>1. Init => Lifecycle!Init
  BY InitShows
<1>2. IInv /\ [Next]_vars => [Lifecycle!Next]_Lifecycle!vars
  BY StepShows DEF Shown
<1>3. QED BY <1>1, <1>2, Invariance, PTL DEF Spec, ImplementsLifecycle, Lifecycle!Spec
=============================================================================
