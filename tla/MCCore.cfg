SPECIFICATION Spec
CONSTANTS
    MaxScans = 2
    RetryTicks = 1
    Faults = TRUE
    Restarts = TRUE
    JoinTimeouts = TRUE
    Clears = TRUE
    ClockMoves = TRUE
    CalmComes = FALSE
INVARIANTS
    TypeOK
    QueueConsistent
    RetainedUntilSent
    EndedWorkerHoldsNoSocket
PROPERTY
    ForwardsScans
VIEW
    WithoutStatus
