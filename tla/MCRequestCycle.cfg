SPECIFICATION Spec
CONSTANTS
    Samples <- MCSamples
    Times <- MCTimes
    TelemetryGap = 1
    FaultCodes <- MCFaultCodes
    NoFault = "none"
    DataFlags <- MCDataFlags
    None = None
INVARIANTS
    TypeOK
    EligibleIsClean
