\* A scenario on the timeframe of the checked-in strategy.
SPECIFICATION Spec
CONSTANTS
    Roles <- MCRoles
    Minutes <- MCMinutes
    History = 4
    Procs = {p1, p2}
    Periods <- MCPeriods
    FirstMinute = 8
    MaxMinute = 9
    MaxFaults = 0
    MaxEdits = 0
    Nobody = Nobody
    Engine = Engine
    None = None
SYMMETRY Interchangeable
CHECK_DEADLOCK FALSE
PROPERTY
    ConfiguredTimeframeRuns
