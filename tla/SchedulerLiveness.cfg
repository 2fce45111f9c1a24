\* What must eventually happen; no symmetry, which liveness checking rules out.
SPECIFICATION FairSpec
CONSTANTS
    RunIds = {r1}
    Jobs = {j1}
    Procs = {p1, p2}
    NoRun = NoRun
    NoProc = NoProc
    NoJob = NoJob
    NoAttempt = NoAttempt
    Daemon = Daemon
    Free = Free
    MaxTime = 1
    MaxAttempts = 1
    MaxFaults = 1
    MaxManual = 0
    ClockMayStepBack = FALSE
CHECK_DEADLOCK FALSE
PROPERTIES
    AttemptsSettle
    ShutdownCompletes
