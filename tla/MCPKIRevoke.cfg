\* One call at a time, one of which dies: a revocation is answered OK and the
\* leaf is not on the CRL.
SPECIFICATION Spec
CONSTANTS
    CNs = {alice}
    Requests = {h1}
    MaxCalls = 4
    MaxFailures = 1
    NoCert = NoCert
    NoCN = NoCN
INVARIANT RevokeBarsLeaf
CHECK_DEADLOCK FALSE
