SPECIFICATION Spec
CONSTANTS
    Interval = 1
    MaxWait = 2
    MaxBeep = 1
    MaxBack = 1
    Fixed = "beep"
    BeepCount <- MCBeepCount
INVARIANTS
    TypeOK
    VerdictIsTimely
    
    OnceIsPrompt
    SilentOnlyIfAllFailed
