SPECIFICATION Spec
CONSTANTS
    MaxScans = 2
    RetryTicks = 1
    Faults = FALSE
    Restarts = TRUE
    JoinTimeouts = FALSE
    Clears = FALSE
    ClockMoves = FALSE
    CalmComes = FALSE
PROPERTY
    DrainOrder
