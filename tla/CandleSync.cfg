SPECIFICATION FairSpec
CONSTANTS
    Procs = {p1, p2}
    Providers = {"binance_usdm", "okx_swap"}
    PageLimit = 2
    History = 3
    MaxMinute = 3
    MaxRevisions = 1
    MaxCrashes = 1
    MaxRanges = 1
    Absent = Absent
    NoMinute = NoMinute
    NoProc = NoProc
INVARIANTS
    RevisionsNeverClash
    FinishedRangeIsWhole
PROPERTIES
    SyncStateSkipsNoGap
    WindowFills
