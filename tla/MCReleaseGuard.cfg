SPECIFICATION Spec
CONSTANTS
    None = None
    Rules <- MCRules
    Composite <- MCComposite
    MinFaults = 1
    MinNormal = 1
    MinHeldFaults = 1
    MinHeldNormal = 1
    Extends <- MCExtends
    Plants <- MCPlants
    Summaries <- MCSummaries
    Manifests <- MCManifests
    Installed = "old"
    Retained <- MCRetained
    Lessons <- MCLessons
    Rulings = {"READY"}
    Silence = 1
    ReviewPeriod = 1
    MinSpacing = 1
    MaxSpacing = 2
    WriterAge = 1
    LeaseAge = 1
    LeaseTTL = 3
    LeaseGrant = 2
    Documents <- MCDocuments
    PathPolicy <- Paths
    MaxClock = 3
    MaxSamples = 4
    MaxMishaps = 1
    MaxEpisodes = 5
    MaxStarts = 2
INVARIANTS
    TypeOK
    ShownIsEvaluated
    CandidateIsCurrent
    ProposalIsHeldOut
    GoIsEarned
    HealthyIsEarned
    NoFalseAlarm
    BacklogKeepsUp
PROPERTIES
    EvidenceGrows
CHECK_DEADLOCK FALSE
