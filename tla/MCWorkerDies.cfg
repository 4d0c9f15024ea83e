SPECIFICATION Spec
CONSTANTS
    MaxScans = 1
    RetryTicks = 1
    Faults = TRUE
    Restarts = FALSE
    JoinTimeouts = FALSE
    Clears = FALSE
    ClockMoves = FALSE
    CalmComes = FALSE
INVARIANT
    DeliveryKeepsRunning
