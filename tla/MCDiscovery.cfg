SPECIFICATION Spec
CONSTANTS
    Paths = {1, 2}
    Devices = {"scanner", "second", "keyless", "keyboard"}
    Keyboards = {"scanner", "second", "keyboard"}
    Traits <- MCTraits
    Selectors <- MCSelectors
    MaxTrouble = 1
INVARIANTS
    TypeOK
    FindsTheFirst
    StrangerTookThePath
PROPERTIES
    ScannerIsRead
    SteadyIsFound
CHECK_DEADLOCK FALSE
