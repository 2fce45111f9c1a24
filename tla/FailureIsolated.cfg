SPECIFICATION Spec
CONSTANTS
    Destinations = {1, 2}
    k1 = k1
    k2 = k2
    Keys = {k1, k2}
    Bars = {"b1"}
    Subscribed <- MCSubscribed
    MaximumEvents = 2
    FlushSeconds = 1
    WindowSeconds = 1
    MaximumAttempts = 2
    MaxResults = 1
    MaxTime = 0
    MaxCrashes = 0
    Never = Never
INVARIANT
    FailureIsIsolated
CHECK_DEADLOCK FALSE
