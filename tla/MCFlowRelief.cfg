SPECIFICATION Spec
CONSTANTS
    Plants <- MCPlants
    PathTest = 1
    Limit = 3
    StartDelay = 1
    Calm = 2
    MaxChanges = 4
INVARIANTS
    TypeOK
    VerifiedIsRestored
    LockoutIsShort
PROPERTIES
    MasterIsNotForced
    RelayClosesLate
    IncidentEnds
