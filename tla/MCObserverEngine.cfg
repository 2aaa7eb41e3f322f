SPECIFICATION Spec
CONSTANTS
    Samples <- MCSamples
    Times <- MCTimes
    Steps <- MCSteps
    TelemetryGap = 1
    WarnWindow = 2
    RingSpacing = 1
    Postrun = 2
    IncidentWindow = 2
    DurationCap = 2
    MaxIncidents = 2
    FaultCodes <- MCFaultCodes
    NoFault = "none"
    None = None
INVARIANTS
    TypeOK
    ScoredIsClean
    KindIsHonest
    LeadIsHonest
PROPERTIES
    FaultIsAttributed
    ClusterIsOneIncident
