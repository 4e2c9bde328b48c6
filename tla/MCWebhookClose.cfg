\* One emitter and a signal.
SPECIFICATION FairSpec
CONSTANTS
    Emitters = {e1}
    QueueSize = 1
    MaxEvents = 1
CHECK_DEADLOCK FALSE
INVARIANT CloseDrains
