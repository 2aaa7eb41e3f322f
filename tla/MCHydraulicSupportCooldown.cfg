SPECIFICATION Spec
CONSTANTS
    Candidates <- MCCandidates
    Others <- MCOthers
    Level <- MCLevel
    Unit = 2
    PiMin = 2
    MaxChanges = 4
    None = None
PROPERTY CooldownIsEarned
