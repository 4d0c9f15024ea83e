SPECIFICATION FairSpec
CONSTANTS
    MaxScans = 1
    RetryTicks = 1
    Faults = TRUE
    Restarts = TRUE
    JoinTimeouts = TRUE
    Clears = FALSE
    ClockMoves = TRUE
    CalmComes = TRUE
PROPERTIES
    Drains
    SocketReleased
    StatusConverges
CHECK_DEADLOCK FALSE
