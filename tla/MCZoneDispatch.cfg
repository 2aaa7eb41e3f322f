SPECIFICATION Spec
CONSTANTS
    ZoneOrder <- MCZoneOrder
    SupportZones <- MCSupportZones
    MaxCalls = 2
    MaxChanges = 3
    None = None
INVARIANTS
    TypeOK
    OneCallPerRun
PROPERTIES
    NoStaleWrite
    NoSilentMiss
\* When everything has come to rest nothing happens any more.
CHECK_DEADLOCK FALSE
