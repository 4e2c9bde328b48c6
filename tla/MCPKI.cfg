\* Two leaves, two concurrent calls, three calls of any kind, one dies.
SPECIFICATION Spec
CONSTANTS
    CNs = {alice, bob}
    Requests = {h1, h2}
    MaxCalls = 3
    MaxFailures = 1
    NoCert = NoCert
    NoCN = NoCN
SYMMETRY Interchangeable
INVARIANTS TypeOK SerialsUnique RevokedIsListed ServersCheckCRL
CHECK_DEADLOCK FALSE
