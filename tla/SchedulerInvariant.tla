------------------------- MODULE SchedulerInvariant -------------------------
(***************************************************************************)
(* The inductive invariant behind the safety properties of Scheduler: who  *)
(* owns the lock, which process belongs to which job, when a child is      *)
(* known to have ended, and which rows are open on whose behalf.           *)
(***************************************************************************)
EXTENDS Scheduler

Executing == {"analysing", "failing"}
Interrupted == {"MAXIMUM_RUNTIME", "SCHEDULER_SHUTDOWN"}

\* The lock of every possible owner tells what that owner is doing.
LockInv ==
    /\ WriterHoldsLock
    /\ lock \in Jobs => stopBy[lock] # "nobody"
    /\ lock = Daemon <=> daemon = "recovering"

\* A thread has a child of its own from Popen to the end of the job.
ChildInv ==
    \A j \in Jobs :
        /\ thread[j] \in {"idle", "submitted", "attempted"} => child[j] = NoProc
        /\ thread[j] \in {"popened", "waiting", "expired", "stopping", "returned"}
             => child[j] # NoProc
        /\ thread[j] \in {"waiting", "expired", "stopping", "returned"}
             => owned[j] = child[j]
        /\ thread[j] \notin {"waiting", "expired", "stopping", "returned"}
             => owned[j] = NoProc
        /\ child[j] # NoProc =>
             /\ pc[child[j]] # "free"
             /\ \A k \in Jobs : child[k] = child[j] => k = j

\* Whoever has stopped or waited for a child knows that it has ended.
EndedInv ==
    \A j \in Jobs :
        /\ child[j] # NoProc
        /\ \/ thread[j] \in {"stopping", "returned", "finishing"}
           \/ stopBy[j] # "nobody"
           \/ interruption[j] # NoInterruption /\ thread[j] \in {"waiting", "expired"}
        => pc[child[j]] \in Ended

\* Who is inside _interrupt, and that shutdown visits no job about to start.
StopInv ==
    \A j \in Jobs :
        /\ stopBy[j] = "timeout" <=> thread[j] = "stopping"
        /\ stopBy[j] = "shutdown" => target = j
        /\ target = j =>
             /\ daemon = "stopping"
             /\ j \in sweep
             /\ thread[j] \notin {"submitted", "attempted", "popened"}

\* A daemon that is not up has no threads.
QuietInv ==
    daemon \in {"down", "recovering"} =>
        /\ overlap = NoAttempt
        /\ \A j \in Jobs : thread[j] = "idle" /\ stopBy[j] = "nobody"

\* There is a number left for every job already submitted.
BudgetInv == seq + Cardinality(Submitted) <= MaxAttempts

\* Attempts in flight have numbers below the counter, all different.
AttemptInv ==
    /\ \A j \in Jobs : thread[j] \in Busy =>
         /\ attempt[j] \in AttemptIds
         /\ attempt[j][1] = j
         /\ attempt[j][3] < seq
         /\ attempt[j] # overlap
    /\ overlap # NoAttempt => overlap[3] < seq

\* A process that has something to report reports what is final.
ReceiptInv ==
    /\ ReceiptTellsRow
    /\ \A p \in Procs :
         pc[p] \in {"notifying", "leaving", "exited"} => receipt[p].status # "none"

\* So does the thread that has waited for it.
VerdictInv ==
    \A j \in Jobs :
        /\ interruption[j] # NoInterruption => interruption[j].reason # "none"
        /\ thread[j] = "finishing" => verdict[j].outcome # "none"
        /\ verdict[j].outcome \in SuccessOutcomes =>
             verdict[j].run \in RunIds /\ runs[verdict[j].run].status = "SUCCEEDED"

\* Only shutdown stops a child for any other reason than its runtime; a child
\* stopped by its own thread leads to that reason, whatever an earlier attempt of
\* the job has left behind.
CauseInv ==
    /\ daemon \in {"down", "recovering", "running"} =>
         \A j \in Jobs : interruption[j].reason # "SCHEDULER_SHUTDOWN"
    /\ daemon = "running" =>
         \A j \in Jobs : child[j] # NoProc /\ pc[child[j]] = "terminated" =>
           \/ thread[j] = "stopping"
           \/ thread[j] = "returned" /\ interruption[j] # NoInterruption
           \/ thread[j] = "finishing" /\ verdict[j].outcome = "MAXIMUM_RUNTIME"

\* A thread that waits has not been told of its own time-out, and what it reports of
\* a stop was recorded for its own child.
ReasonOf(j) ==
    /\ stopBy[j] # "nobody" => interruption[j] = NoInterruption
    /\ thread[j] \in {"waiting", "expired", "stopping"} =>
         interruption[j].reason # "MAXIMUM_RUNTIME"
    /\ thread[j] = "finishing" /\ verdict[j].outcome \in Interrupted =>
         child[j] # NoProc /\ interruption[j].reason = verdict[j].outcome
    /\ thread[j] = "finishing" /\ child[j] # NoProc /\ pc[child[j]] = "terminated" =>
         verdict[j].outcome \in Interrupted \cup {"FAILED"}

ReasonInv == \A j \in Jobs : ReasonOf(j)

\* With a clock that never steps back, nothing has started in the future.
ClockInv ==
    ~ClockMayStepBack =>
        /\ \A id \in Ids : runs[id].started <= now
        /\ \A p \in Procs : startedAt[p] <= now

\* A scheduler that is up works on every attempt that is open: recovery has
\* closed those of its predecessors.
OpenInv ==
    /\ ~ClockMayStepBack
    /\ daemon \in {"running", "stopping", "draining"}
    => \A a \in AttemptIds : runs[a].status = "RUNNING" =>
         \/ overlap = a
         \/ \E j \in Jobs : thread[j] \in Busy /\ attempt[j] = a

IInv ==
    /\ TypeOK
    /\ LockInv
    /\ ChildInv
    /\ EndedInv
    /\ StopInv
    /\ QuietInv
    /\ BudgetInv
    /\ AttemptInv
    /\ ExecutedRunStaysRunning
    /\ AttemptSurvives
    /\ EvidenceIsAtomic
    /\ ReceiptInv
    /\ VerdictInv
    /\ SuccessIsBacked
    /\ CauseInv
    /\ ReasonInv
    /\ ClockInv
    /\ OpenInv
=============================================================================
