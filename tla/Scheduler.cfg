\* One job, a run started by hand and one death, with the clock standing still.
SPECIFICATION Spec
CONSTANTS
    RunIds = {r1}
    Jobs = {j1}
    Procs = {p1, p2}
    NoRun = NoRun
    NoProc = NoProc
    NoJob = NoJob
    NoAttempt = NoAttempt
    Daemon = Daemon
    Free = Free
    MaxTime = 0
    MaxAttempts = 2
    MaxFaults = 1
    MaxManual = 1
    ClockMayStepBack = FALSE
SYMMETRY Interchangeable
CHECK_DEADLOCK FALSE
INVARIANTS
    WriterHoldsLock
    ExecutedRunStaysRunning
    ReceiptTellsRow
    EvidenceIsAtomic
    AttemptSurvives
    SuccessIsBacked
    TimeoutNamesReason
PROPERTIES
    TerminalRowsAreFinal
    RestartLeavesNoStaleRow
    GracefulExitSettlesAttempts
    ImplementsLifecycle
