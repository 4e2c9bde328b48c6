\* Two emitters, a channel of two, a shutdown at any moment.
SPECIFICATION FairSpec
CONSTANTS
    Emitters = {e1, e2}
    QueueSize = 2
    MaxEvents = 3
CHECK_DEADLOCK FALSE
INVARIANTS InOrderAtMostOnce
PROPERTIES AcceptedIsTried KeepsPromise CloseEnds
