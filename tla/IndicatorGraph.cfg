SPECIFICATION Spec
CONSTANTS
    None = None
    Nodes <- MCNodes
    Unknown = 0
    Orders <- MCOrders
    Time = 2
    Absent = Absent
CHECK_DEADLOCK FALSE
INVARIANTS
    OrderIsDetermined
    FailsClosed
    DecisionIsJustified
