SPECIFICATION Spec
CONSTANTS
    Destinations = {1}
    k1 = k1
    k2 = k2
    Keys = {k1, k2}
    Bars = {"b1", "b2"}
    Subscribed <- MCSingle
    MaximumEvents = 2
    FlushSeconds = 1
    WindowSeconds = 2
    MaximumAttempts = 2
    MaxResults = 2
    MaxTime = 2
    MaxCrashes = 1
    Never = Never
SYMMETRY MCSymmetry
INVARIANTS
    OrderKept
    BatchesAreUniform
    RecordedWasReceived
PROPERTY
    NoRepeatInWindow
CHECK_DEADLOCK FALSE
