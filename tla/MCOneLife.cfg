SPECIFICATION HealthSpec
CONSTANTS
    MaxScans = 3
    RetryTicks = 2
    Faults = FALSE
    Restarts = FALSE
    JoinTimeouts = FALSE
    Clears = FALSE
    ClockMoves = FALSE
    CalmComes = FALSE
INVARIANTS
    OkMeansDelivered
    StaleConnectedIsBrief
PROPERTIES
    DrainOrder
    AtMostOnce
    BlamesWhatWasSent
    StoppedIsFinal
