SPECIFICATION Spec
CONSTANTS
    Versions <- MCVersions
    FirstVersion <- MCFirstVersion
    CalmComes = FALSE
INVARIANT
    UpToDateIsInstalled
