SPECIFICATION Spec
CONSTANTS
    ZoneOrder <- MCZoneOrder
    SupportZones <- MCSupportZones
    MaxCalls = 2
    MaxChanges = 3
    None = None
PROPERTY SupportFloor
CHECK_DEADLOCK FALSE
