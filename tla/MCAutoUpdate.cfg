SPECIFICATION FairSpec
CONSTANTS
    Versions <- MCVersions
    FirstVersion <- MCFirstVersion
    CalmComes = TRUE
INVARIANTS
    TypeOK
    UnitsComeBack
    UpdatedMeansRunning
PROPERTIES
    OnlyUpgrades
    NewerArrives
