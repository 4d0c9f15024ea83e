SPECIFICATION Spec
CONSTANTS
    MaxChars = 2
    MaxEvents = 5
    Events <- MCEvents
INVARIANTS
    TypeOK
    ScansWithinLimit
    ScansAreTheLinesTyped
CHECK_DEADLOCK FALSE
