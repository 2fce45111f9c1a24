\* A child that is stopped at any point, beside a run that is started by hand.
SPECIFICATION Spec
CONSTANTS
    RunIds = {r1}
    Jobs = {j1}
    Procs = {p1, p2}
    NoRun = NoRun
    NoProc = NoProc
    NoJob = NoJob
    NoAttempt = NoAttempt
    Daemon = Daemon
    Free = Free
    MaxTime = 0
    MaxAttempts = 1
    MaxFaults = 0
    MaxManual = 1
    ClockMayStepBack = FALSE
SYMMETRY Interchangeable
CHECK_DEADLOCK FALSE
INVARIANTS
    StoppedRunCarriesReason
