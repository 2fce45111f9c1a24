SPECIFICATION FairSpec
CONSTANTS
    Destinations = {1, 2}
    k1 = k1
    k2 = k2
    Keys = {k1, k2}
    Bars = {"b1"}
    Subscribed <- MCSubscribed
    MaximumEvents = 2
    FlushSeconds = 1
    WindowSeconds = 1
    MaximumAttempts = 2
    MaxResults = 2
    MaxTime = 2
    MaxCrashes = 0
    Never = Never
INVARIANT
    NoEventVanishes
PROPERTY
    RunCloses
CHECK_DEADLOCK FALSE
