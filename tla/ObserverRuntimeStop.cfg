SPECIFICATION Spec
CONSTANTS
    QueueSize = 1
    MaxBurns = 1
    MaxRestarts = 1
    None = None
PROPERTY StopTerminates
\* After an orderly stop, or a stop that hangs, nothing happens any more.
CHECK_DEADLOCK FALSE
