SPECIFICATION FairSpec
CONSTANTS
    MaxScans = 1
    RetryTicks = 1
    Faults = FALSE
    Restarts = FALSE
    JoinTimeouts = FALSE
    Clears = FALSE
    ClockMoves = FALSE
    CalmComes = FALSE
PROPERTY
    LostServerNoticed
