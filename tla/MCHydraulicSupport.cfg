SPECIFICATION Spec
CONSTANTS
    Candidates <- MCCandidates
    Others <- MCOthers
    Level <- MCLevel
    Unit = 2
    PiMin = 2
    MaxChanges = 4
    None = None
INVARIANTS
    TypeOK
    LentToSupport
PROPERTIES
    LoanIsKept
    BridgeIsExact
    CalmIsHonest
    NoEndlessForcing
\* With no support and nothing to trigger the guard it still looks every
\* minute, so the system never stops.
