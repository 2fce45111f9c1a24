----------------------------- MODULE Scheduler ------------------------------
(***************************************************************************)
(* The scheduler daemon beside the processes it starts and the ones an     *)
(* operator starts by hand, over one runs table and one lock file.         *)
(*                                                                         *)
(* Per job: a worker thread in InternalScheduler._run_job and, below it,   *)
(* one _ManagedSubprocessOperation.  The main thread starts the scheduler  *)
(* (recovery) and, after a signal, shuts it down, which interrupts the     *)
(* operations of the worker threads from outside.                          *)
(*                                                                         *)
(*   idle -> submitted -> attempted -> popened -> waiting -> returned      *)
(*        -> finishing -> idle,  waiting -> expired -> stopping -> returned*)
(***************************************************************************)
EXTENDS EngineProcess

CONSTANTS
    NoProc,       \* the None of an optional process
    NoJob,        \* the None of an optional job
    NoAttempt,    \* the None of an optional attempt
    MaxFaults,    \* bound: deaths of processes or of the daemon
    MaxManual,    \* bound: runs an operator starts
    ClockMayStepBack

ASSUME SchedulerAssumption ==
    /\ IsFiniteSet(Jobs)
    /\ NoProc \notin Procs
    /\ NoJob \notin Jobs
    /\ NoAttempt \notin AttemptIds
    /\ MaxFaults \in Nat
    /\ MaxManual \in Nat
    /\ ClockMayStepBack \in BOOLEAN

VARIABLES
    daemon,        \* main thread
    sweep,         \* operations shutdown has still to visit
    target,        \* the operation shutdown has found a process in
    seq,           \* _attempt_sequence
    overlap,       \* the attempt an overlap event is recording
    thread,        \* worker thread of each job
    attempt,       \* its attempt
    child,         \* its child process (the local variable of __call__)
    owned,         \* _process of the operation, what shutdown sees
    interruption,  \* _interruption of the operation
    stopBy,        \* holder of _stop_lock of the operation
    verdict,       \* what the operation returned
    faults, manual

jobVars == <<thread, attempt, child, owned, interruption, stopBy, verdict>>
mainVars == <<daemon, sweep, target, seq, overlap>>
envVars == <<faults, manual>>
storeVars == <<runs, now, lock>>
vars == <<storeVars, procVars, jobVars, mainVars, envVars>>

Busy == {"attempted", "popened", "waiting", "expired", "stopping",
         "returned", "finishing"}
Threads == {"idle", "submitted"} \cup Busy
\* Phases in which the thread has a child process of its own.
Parenting == Busy \ {"attempted"}

Interruptions == [run: RunIds \cup {NoRun},
                  reason: {"MAXIMUM_RUNTIME", "SCHEDULER_SHUTDOWN", "none"}]
Interruption(run, reason) == [run |-> run, reason |-> reason]
NoInterruption == Interruption(NoRun, "none")
Verdicts == [outcome: Outcomes \cup {"none"}, run: RunIds \cup {NoRun}]
Verdict(outcome, run) == [outcome |-> outcome, run |-> run]

JobTypeOK ==
    /\ thread \in [Jobs -> Threads]
    /\ attempt \in [Jobs -> AttemptIds \cup {NoAttempt}]
    /\ child \in [Jobs -> Procs \cup {NoProc}]
    /\ owned \in [Jobs -> Procs \cup {NoProc}]
    /\ interruption \in [Jobs -> Interruptions]
    /\ stopBy \in [Jobs -> {"nobody", "timeout", "shutdown"}]
    /\ verdict \in [Jobs -> Verdicts]

MainTypeOK ==
    /\ daemon \in {"down", "recovering", "running", "stopping", "draining"}
    /\ sweep \in SUBSET Jobs
    /\ target \in Jobs \cup {NoJob}
    /\ seq \in 0 .. MaxAttempts
    /\ overlap \in AttemptIds \cup {NoAttempt}
    /\ faults \in 0 .. MaxFaults
    /\ manual \in 0 .. MaxManual

TypeOK == ProcTypeOK /\ JobTypeOK /\ MainTypeOK

\* What a fresh scheduler object holds for its jobs.
Nothing(value) == [j \in Jobs |-> value]

Init ==
    /\ ProcInit
    /\ daemon = "down" /\ sweep = {} /\ target = NoJob
    /\ seq = 0 /\ overlap = NoAttempt
    /\ thread = Nothing("idle")
    /\ attempt = Nothing(NoAttempt)
    /\ child = Nothing(NoProc)
    /\ owned = Nothing(NoProc)
    /\ interruption = Nothing(NoInterruption)
    /\ stopBy = Nothing("nobody")
    /\ verdict = Nothing(Verdict("none", NoRun))
    /\ faults = 0 /\ manual = 0

Later(t) == IF t < now THEN now ELSE t
Watched(p) == \E j \in Jobs : child[j] = p
Moves(j, to) == thread' = [thread EXCEPT ![j] = to]

-----------------------------------------------------------------------------
(* The worker thread of a job. *)

\* Attempts not yet numbered keep their number in reserve.
Submitted == {j \in Jobs : thread[j] = "submitted"}
Budgeted == seq + Cardinality(Submitted) < MaxAttempts

\* The cron trigger submits the job unless one instance is already running.
Fire(j) ==
    /\ daemon = "running"
    /\ thread[j] = "idle"
    /\ Budgeted
    /\ Moves(j, "submitted")
    /\ UNCHANGED <<storeVars, procVars, attempt, child, owned, interruption,
                   stopBy, verdict, mainVars, envVars>>

StartAttempt(j) ==
    /\ thread[j] = "submitted"
    /\ LET id == <<j, now, seq>> IN
       /\ StoreRun(id, now)
       /\ attempt' = [attempt EXCEPT ![j] = id]
    /\ seq' = seq + 1
    /\ Moves(j, "attempted")
    /\ UNCHANGED <<now, lock, procVars, child, owned, interruption, stopBy,
                   verdict, daemon, sweep, target, overlap, envVars>>

\* An attempt of an earlier daemon has this identity: the job function raises.
StartAttemptRaises(j) ==
    /\ thread[j] = "submitted"
    /\ ~CanStore(<<j, now, seq>>, now)
    /\ seq' = seq + 1
    /\ Moves(j, "idle")
    /\ UNCHANGED <<storeVars, procVars, attempt, child, owned, interruption,
                   stopBy, verdict, daemon, sweep, target, overlap, envVars>>

Popen(j) ==
    /\ thread[j] = "attempted"
    /\ \E p \in Procs :
         /\ Spawn(p)
         /\ child' = [child EXCEPT ![j] = p]
    /\ Moves(j, "popened")
    /\ UNCHANGED <<storeVars, runOf, startedAt, receipt, attempt, owned,
                   interruption, stopBy, verdict, mainVars, envVars>>

\* The operation raises: _run_job answers with a FAILED receipt.
PopenRaises(j) ==
    /\ thread[j] = "attempted"
    /\ verdict' = [verdict EXCEPT ![j] = Verdict("FAILED", NoRun)]
    /\ Moves(j, "finishing")
    /\ UNCHANGED <<storeVars, procVars, attempt, child, owned, interruption,
                   stopBy, mainVars, envVars>>

\* Only now can shutdown see the process; an earlier interruption is forgotten.
Register(j) ==
    /\ thread[j] = "popened"
    /\ owned' = [owned EXCEPT ![j] = child[j]]
    /\ interruption' = [interruption EXCEPT ![j] = NoInterruption]
    /\ Moves(j, "waiting")
    /\ UNCHANGED <<storeVars, procVars, attempt, child, stopBy, verdict,
                   mainVars, envVars>>

ChildEnds(j) ==
    /\ thread[j] = "waiting"
    /\ pc[child[j]] \in Ended
    /\ Moves(j, "returned")
    /\ UNCHANGED <<storeVars, procVars, attempt, child, owned, interruption,
                   stopBy, verdict, mainVars, envVars>>

\* communicate(timeout=maximum_runtime_seconds) raises TimeoutExpired.
WaitsForever(j) == FALSE

Expire(j) ==
    /\ thread[j] = "waiting"
    /\ pc[child[j]] \in Alive
    /\ Moves(j, "expired")
    /\ UNCHANGED <<storeVars, procVars, attempt, child, owned, interruption,
                   stopBy, verdict, mainVars, envVars>>

\* A child that did not exit by itself has printed no valid receipt.
ChildReceipt(j) ==
    IF pc[child[j]] = "exited"
    THEN Verdict(receipt[child[j]].status, receipt[child[j]].run)
    ELSE Verdict("FAILED", NoRun)

\* An interruption wins over whatever the child has printed.
ReceiptOnly(j) == ChildReceipt(j)

Outcome(j) ==
    IF interruption[j] # NoInterruption
    THEN Verdict(interruption[j].reason, interruption[j].run)
    ELSE ChildReceipt(j)

\* The interruption is read without waiting for whoever is still stopping.
ReadInterruption(j) ==
    /\ thread[j] = "returned"
    /\ verdict' = [verdict EXCEPT ![j] = Outcome(j)]
    /\ owned' = [owned EXCEPT ![j] = NoProc]
    /\ Moves(j, "finishing")
    /\ UNCHANGED <<storeVars, procVars, attempt, child, interruption, stopBy,
                   mainVars, envVars>>

\* The end of _run_job, whether finish_scheduler_attempt commits or raises.
EndsJob(j) ==
    /\ thread[j] = "finishing"
    /\ IF child[j] = NoProc THEN UNCHANGED procVars ELSE Vacate(child[j])
    /\ attempt' = [attempt EXCEPT ![j] = NoAttempt]
    /\ child' = [child EXCEPT ![j] = NoProc]
    /\ verdict' = [verdict EXCEPT ![j] = Verdict("none", NoRun)]
    /\ Moves(j, "idle")
    /\ UNCHANGED <<now, lock, owned, interruption, stopBy, mainVars, envVars>>

AttemptEnd(j) == Later(attempt[j][2])

FinishAttempt(j) ==
    /\ EndsJob(j)
    /\ LET o == verdict[j].outcome IN
       FinishRun(attempt[j], AttemptStatus(o), AttemptEnd(j), AttemptError(o), o)

-----------------------------------------------------------------------------
(* _interrupt, entered by the worker thread (timeout) or the main thread    *)
(* (shutdown) under the operation's _stop_lock.                             *)

Reason(j) ==
    IF stopBy[j] = "timeout" THEN "MAXIMUM_RUNTIME" ELSE "SCHEDULER_SHUTDOWN"

\* terminate, then kill and drain: no signal once the process has been waited for.
StopChild(j) ==
    LET p == owned[j] IN
    IF p # NoProc /\ pc[p] \in Alive
    THEN Dies(p, "terminated")
    ELSE UNCHANGED <<pc, lock>>

StopOnTimeout(j) ==
    /\ thread[j] = "expired"
    /\ stopBy[j] = "nobody"
    /\ interruption[j] = NoInterruption
    /\ stopBy' = [stopBy EXCEPT ![j] = "timeout"]
    /\ StopChild(j)
    /\ Moves(j, "stopping")
    /\ UNCHANGED <<runs, now, runOf, startedAt, receipt, attempt, child, owned,
                   interruption, verdict, mainVars, envVars>>

\* Shutdown has interrupted the operation already.
AlreadyStopped(j) ==
    /\ thread[j] = "expired"
    /\ stopBy[j] = "nobody"
    /\ interruption[j] # NoInterruption
    /\ Moves(j, "returned")
    /\ UNCHANGED <<storeVars, procVars, attempt, child, owned, interruption,
                   stopBy, verdict, mainVars, envVars>>

ReconcileBegins(j) ==
    /\ stopBy[j] # "nobody"
    /\ CanLock
    /\ lock' = j
    /\ UNCHANGED <<runs, now, procVars, jobVars, mainVars, envVars>>

\* The interruption is recorded and _stop_lock given back.
StopRecorded(j, run) ==
    /\ interruption' =
         [interruption EXCEPT ![j] = Interruption(run, Reason(j))]
    /\ stopBy' = [stopBy EXCEPT ![j] = "nobody"]
    /\ IF stopBy[j] = "timeout"
       THEN /\ Moves(j, "returned")
            /\ UNCHANGED <<sweep, target>>
       ELSE /\ sweep' = sweep \ {j}
            /\ target' = NoJob
            /\ UNCHANGED thread
    /\ UNCHANGED <<now, procVars, attempt, child, owned, verdict, daemon, seq,
                   overlap, envVars>>

\* Every stale engine run fails with the reason; a single one is taken for
\* the child's.
Reconcile(j) ==
    /\ lock = j
    /\ RecoverRuns(now, Reason(j), FALSE)
    /\ lock' = Free
    /\ LET stale == Stale(now, FALSE) IN
       \/ /\ Cardinality(stale) = 1
          /\ \E r \in stale : StopRecorded(j, r)
       \/ /\ Cardinality(stale) # 1
          /\ StopRecorded(j, NoRun)

\* Somebody else owns the lock by now: nothing is recovered.
RecoverAnyway(j) ==
    /\ stopBy[j] # "nobody"
    /\ lock \notin {Free, j}
    /\ RecoverRuns(now, Reason(j), FALSE)
    /\ StopRecorded(j, NoRun)
    /\ UNCHANGED lock

ReconcileSkipped(j) ==
    /\ stopBy[j] # "nobody"
    /\ lock \notin {Free, j}
    /\ StopRecorded(j, NoRun)
    /\ UNCHANGED <<runs, lock>>

JobStep(j) ==
    \/ StartAttempt(j) \/ StartAttemptRaises(j) \/ Popen(j) \/ PopenRaises(j)
    \/ Register(j) \/ ChildEnds(j) \/ Expire(j) \/ StopOnTimeout(j)
    \/ AlreadyStopped(j) \/ ReadInterruption(j) \/ FinishAttempt(j)

StopStep(j) == ReconcileBegins(j) \/ Reconcile(j) \/ ReconcileSkipped(j)

-----------------------------------------------------------------------------
(* The main thread. *)

Boot ==
    /\ daemon = "down"
    /\ CanLock
    /\ lock' = Daemon
    /\ daemon' = "recovering"
    /\ UNCHANGED <<runs, now, procVars, jobVars, sweep, target, seq, overlap,
                   envVars>>

\* Recovery, attempts included; the scheduler object and its counter are new.
Recover ==
    /\ daemon = "recovering"
    /\ RecoverRuns(now, "PROCESS_RESTART", TRUE)
    /\ lock' = Free
    /\ daemon' = "running"
    /\ seq' = 0
    /\ UNCHANGED <<now, procVars, jobVars, sweep, target, overlap, envVars>>

\* SIGTERM: no more fires, then the operations are visited.
Shutdown ==
    /\ daemon = "running"
    /\ daemon' = "stopping"
    /\ sweep' = Jobs
    /\ UNCHANGED <<storeVars, procVars, jobVars, target, seq, overlap, envVars>>

\* An operation with no registered process has nothing to interrupt.
VisitOperation(j) ==
    /\ daemon = "stopping"
    /\ target = NoJob
    /\ j \in sweep
    /\ IF owned[j] = NoProc
       THEN sweep' = sweep \ {j} /\ UNCHANGED target
       ELSE target' = j /\ UNCHANGED sweep
    /\ UNCHANGED <<storeVars, procVars, jobVars, daemon, seq, overlap, envVars>>

\* Two threads in communicate() of one process read the same pipes.  When the
\* child dies, either may find them closed by the other and raise OSError.
StopOnShutdown(j) ==
    /\ daemon = "stopping"
    /\ target = j
    /\ stopBy[j] = "nobody"
    /\ interruption[j] = NoInterruption
    /\ StopChild(j)
    /\ \/ \* main goes on to reconcile
          /\ stopBy' = [stopBy EXCEPT ![j] = "shutdown"]
          /\ \/ UNCHANGED <<thread, verdict, owned>>
             \/ \* the worker raises, and _run_job answers FAILED
                /\ thread[j] = "waiting"
                /\ verdict' = [verdict EXCEPT ![j] = Verdict("FAILED", NoRun)]
                /\ owned' = [owned EXCEPT ![j] = NoProc]
                /\ Moves(j, "finishing")
          /\ UNCHANGED <<daemon, sweep, target>>
       \/ \* main raises: the interpreter waits for its worker threads
          /\ thread[j] = "waiting"
          /\ daemon' = "draining"
          /\ sweep' = {}
          /\ target' = NoJob
          /\ UNCHANGED <<stopBy, thread, verdict, owned>>
    /\ UNCHANGED <<runs, now, runOf, startedAt, receipt, attempt, child,
                   interruption, seq, overlap, envVars>>

\* The worker's own timeout was first.
StopNotNeeded(j) ==
    /\ daemon = "stopping"
    /\ target = j
    /\ stopBy[j] = "nobody"
    /\ interruption[j] # NoInterruption
    /\ sweep' = sweep \ {j}
    /\ target' = NoJob
    /\ UNCHANGED <<storeVars, procVars, jobVars, daemon, seq, overlap, envVars>>

Drain ==
    /\ daemon = "stopping"
    /\ sweep = {}
    /\ daemon' = "draining"
    /\ UNCHANGED <<storeVars, procVars, jobVars, sweep, target, seq, overlap,
                   envVars>>

\* shutdown(wait=True) returns when the worker threads have ended.
NotWaiting == TRUE
WorkersDone == overlap = NoAttempt /\ \A j \in Jobs : thread[j] = "idle"

Down ==
    /\ daemon = "draining"
    /\ WorkersDone
    /\ daemon' = "down"
    /\ interruption' = Nothing(NoInterruption)
    /\ UNCHANGED <<storeVars, procVars, thread, attempt, child, owned, stopBy,
                   verdict, sweep, target, seq, overlap, envVars>>

-----------------------------------------------------------------------------
(* EVENT_JOB_MAX_INSTANCES: a fire that found the job still running.        *)

RecordOverlap(j) ==
    /\ daemon = "running"
    /\ overlap = NoAttempt
    /\ thread[j] # "idle"
    /\ Budgeted
    /\ \E t \in 0 .. now :
         LET id == <<j, t, seq>> IN
         \/ /\ StoreRun(id, t)
            /\ overlap' = id
         \/ /\ ~CanStore(id, t)
            /\ UNCHANGED <<runs, overlap>>
    /\ seq' = seq + 1
    /\ UNCHANGED <<now, lock, procVars, jobVars, daemon, sweep, target, envVars>>

FinishOverlap ==
    /\ overlap # NoAttempt
    /\ FinishRun(overlap, "FAILED", Later(overlap[2]), "OVERLAP_SKIPPED",
                 "OVERLAP_SKIPPED")
    /\ overlap' = NoAttempt
    /\ UNCHANGED <<now, lock, procVars, jobVars, daemon, sweep, target, seq,
                   envVars>>

MainStep ==
    \/ Boot \/ Recover \/ Drain \/ Down \/ FinishOverlap
    \/ \E j \in Jobs : VisitOperation(j) \/ StopOnShutdown(j) \/ StopNotNeeded(j)

-----------------------------------------------------------------------------
(* The surroundings. *)

StartManual(p) ==
    /\ manual < MaxManual
    /\ manual' = manual + 1
    /\ Spawn(p)
    /\ UNCHANGED <<storeVars, runOf, startedAt, receipt, jobVars, mainVars, faults>>

\* A process nobody watches is collected when it has ended.
Reap(p) ==
    /\ pc[p] \in Ended
    /\ ~Watched(p)
    /\ Vacate(p)
    /\ UNCHANGED <<storeVars, jobVars, mainVars, envVars>>

Kill(p) ==
    /\ faults < MaxFaults
    /\ faults' = faults + 1
    /\ pc[p] \in Alive
    /\ Dies(p, "killed")
    /\ UNCHANGED <<runs, now, runOf, startedAt, receipt, jobVars, mainVars, manual>>

\* The daemon dies with its threads and its lock; its children live on.
DaemonCrash ==
    /\ faults < MaxFaults
    /\ faults' = faults + 1
    /\ daemon # "down"
    /\ daemon' = "down" /\ sweep' = {} /\ target' = NoJob /\ overlap' = NoAttempt
    /\ thread' = Nothing("idle")
    /\ attempt' = Nothing(NoAttempt)
    /\ child' = Nothing(NoProc)
    /\ owned' = Nothing(NoProc)
    /\ interruption' = Nothing(NoInterruption)
    /\ stopBy' = Nothing("nobody")
    /\ verdict' = Nothing(Verdict("none", NoRun))
    /\ lock' = IF lock \in Procs THEN lock ELSE Free
    /\ UNCHANGED <<runs, now, procVars, seq, manual>>

Tick ==
    /\ \E t \in Time : /\ t # now
                       /\ t > now \/ ClockMayStepBack
                       /\ now' = t
    /\ UNCHANGED <<runs, lock, procVars, jobVars, mainVars, envVars>>

ProcStep(p) == RunStep(p) /\ UNCHANGED <<jobVars, mainVars, envVars>>

Next ==
    \/ \E p \in Procs : ProcStep(p) \/ StartManual(p) \/ Reap(p) \/ Kill(p)
    \/ \E j \in Jobs : Fire(j) \/ JobStep(j) \/ StopStep(j) \/ RecordOverlap(j)
    \/ MainStep \/ Shutdown \/ DaemonCrash \/ Tick

Spec == Init /\ [][Next]_vars

Unwatched(p) == ~Watched(p) /\ ProcStep(p)

\* Threads are scheduled by the operating system, Docker restarts the daemon,
\* and a run that nobody watches ends because its network and database calls
\* have timeouts.  A watched child may hang for ever, and nothing obliges a
\* cron trigger, an operator, a signal, a fault or the clock.
Fairness ==
    /\ \A p \in Procs : WF_vars(Unwatched(p)) /\ WF_vars(Reap(p))
    /\ \A j \in Jobs : WF_vars(JobStep(j)) /\ WF_vars(StopStep(j))
    /\ WF_vars(MainStep)

FairSpec == Spec /\ Fairness

-----------------------------------------------------------------------------
(* Properties. *)

\* A recovery never fails the attempt a thread of the living scheduler is
\* still working on; reconciliation after a timeout passes it by.
AttemptSurvives ==
    /\ \A j \in Jobs : thread[j] \in Busy => runs[attempt[j]].status = "RUNNING"
    /\ overlap # NoAttempt => runs[overlap].status = "RUNNING"

\* An attempt is stored as successful only when some engine run has committed
\* its evidence: no skip, crash or invalid receipt passes for a success.
SuccessIsBacked ==
    /\ \A j \in Jobs : verdict[j].outcome \in SuccessOutcomes =>
          verdict[j].run \in RunIds /\ runs[verdict[j].run].evidence
    /\ (\E a \in AttemptIds : runs[a].status = "SUCCEEDED") =>
          \E r \in RunIds : runs[r].evidence

\* A child that was stopped is never taken for one that ended by itself, and one
\* that ended by itself is not reported as timed out or shut down, whatever an
\* earlier attempt of the job has left behind: the reason a thread reports was
\* recorded for its own child, a time-out by itself and after its child had ended,
\* a shutdown while there was one.  Only a shutdown may leave a bare FAILED.
TimeoutNamesReason ==
    \A j \in Jobs :
        /\ thread[j] \in {"waiting", "expired", "stopping"} =>
             interruption[j].reason # "MAXIMUM_RUNTIME"
        /\ thread[j] = "finishing" =>
             LET outcome == verdict[j].outcome
                 closing == daemon \in {"stopping", "draining"}
             IN  /\ child[j] # NoProc /\ pc[child[j]] = "terminated" =>
                      \/ outcome \in {"MAXIMUM_RUNTIME", "SCHEDULER_SHUTDOWN"}
                      \/ outcome = "FAILED" /\ closing
                 /\ outcome \in {"MAXIMUM_RUNTIME", "SCHEDULER_SHUTDOWN"} =>
                      /\ interruption[j].reason = outcome
                      /\ child[j] # NoProc /\ pc[child[j]] \in Ended
                 /\ outcome = "SCHEDULER_SHUTDOWN" => closing

\* After a restart no row of an earlier life is left RUNNING: README "A restart
\* marks interrupted RUNNING rows as failed".
RestartLeavesNoStaleRow ==
    [][daemon = "recovering" /\ daemon' = "running" =>
         \A id \in Ids : runs'[id].status # "RUNNING"]_vars

\* A scheduler that goes down by itself leaves none of its attempts open, even
\* when operations were interrupted or raised on the way.
GracefulExitSettlesAttempts ==
    [][daemon = "draining" /\ daemon' = "down" /\ faults' = faults =>
         \A a \in AttemptIds : runs'[a].status # "RUNNING"]_vars

\* Every attempt reaches a terminal status, whatever its child does and
\* whoever dies.
AttemptsSettle ==
    \A a \in AttemptIds :
        runs[a].status = "RUNNING" ~> runs[a].status # "RUNNING"

\* A shutdown ends, whatever the children do.
ShutdownCompletes == daemon = "stopping" ~> daemon = "down"

\* Rows held by a party at work, for the abstract specification.
HeldRows ==
    {runOf[p] : p \in {q \in Procs : pc[q] \in {"analysing", "failing"}}}
      \cup {attempt[j] : j \in {k \in Jobs : thread[k] \in Busy}}
      \cup ({overlap} \ {NoAttempt})

Lifecycle == INSTANCE RunLifecycle WITH
    EngineRuns <- RunIds,
    Attempts <- AttemptIds,
    phase <- [id \in Ids |-> runs[id].status],
    evidence <- {id \in Ids : runs[id].evidence},
    held <- HeldRows

\* The engine processes and the scheduler, with every crash and race between
\* them, keep the promises of RunLifecycle.
ImplementsLifecycle == Lifecycle!Spec
-----------------------------------------------------------------------------
(* What the documentation says and the code does not do. *)

\* docs/troubleshooting.md on MAXIMUM_RUNTIME and SCHEDULER_SHUTDOWN: "The run
\* must have FAILED status and the same bounded reason."
StoppedRunCarriesReason ==
    \A j \in Jobs :
        /\ verdict[j].outcome \in {"MAXIMUM_RUNTIME", "SCHEDULER_SHUTDOWN"}
        /\ runOf[child[j]] # NoRun
        => /\ runs[runOf[child[j]]].status = "FAILED"
           /\ runs[runOf[child[j]]].error = verdict[j].outcome

\* docs/operations.md: shutdown "terminates, kills, drains, and reconciles an
\* active child within the bounded shutdown path".
ShutdownStopsChild ==
    daemon = "draining" =>
        \A j \in Jobs : child[j] # NoProc => pc[child[j]] \notin Alive

\* runtime_services.py: the operation is to "own one scheduled child and
\* reconcile its durable run after interruption"; the run it names is logged as
\* child_run_id.
InterruptionNamesOwnRun ==
    \A j \in Jobs :
        interruption[j].run # NoRun /\ child[j] # NoProc =>
            runOf[child[j]] = interruption[j].run
=============================================================================
