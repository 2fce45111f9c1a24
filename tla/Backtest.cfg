\* Two backtests, of the same or of different periods, beside the engine.
SPECIFICATION Spec
CONSTANTS
    Roles <- MCRoles
    Minutes <- MCMinutes
    History = 4
    Procs = {p1, p2}
    Periods <- MCPeriods
    FirstMinute = 8
    MaxMinute = 9
    MaxFaults = 2
    MaxEdits = 1
    Nobody = Nobody
    Engine = Engine
    None = None
SYMMETRY Interchangeable
CHECK_DEADLOCK FALSE
INVARIANTS
    OnlyCrashesLitter
    ReplaySeesLiveBars
PROPERTIES
    ImplementsPublication
