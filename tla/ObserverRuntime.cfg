SPECIFICATION Spec
CONSTANTS
    QueueSize = 1
    MaxBurns = 2
    MaxRestarts = 1
    None = None
INVARIANTS
    TypeOK
    HoleIsCensored
    LearnedIsRecorded
    NumbersAreSavedFirst
    StopIsClean
PROPERTIES
    RestartsTeachNothing
\* After an orderly stop, or a stop that hangs, nothing happens any more.
CHECK_DEADLOCK FALSE
