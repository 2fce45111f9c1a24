---------------------------- MODULE MCScheduler -----------------------------
(* Small instances of Scheduler for TLC.                                   *)
EXTENDS SchedulerInvariant, TLC

\* Processes are interchangeable, and so are run identities.
Interchangeable ==
    Permutations(Procs) \cup Permutations(RunIds) \cup Permutations(Jobs)
=============================================================================
